--------------------------- MODULE ChatViewProofs ---------------------------
(***************************************************************************)
(* Proofs about the view of a chat, for any number of messages, requests,  *)
(* attachments and buffered frames.                                        *)
(*                                                                         *)
(* The argument (ViewInvariant): the frames the view has still to see are  *)
(* in three places, the rehydration's queue of frames to post, the replay  *)
(* buffer and the pipe (Coming).  Read one after the other they bring the  *)
(* view up to date (Follows): every finished message the host has not lost *)
(* is shown or ends in them, every open request is shown, asked or already *)
(* answered, and a turn that runs is shown or begins in them, unless its   *)
(* frames outgrew the buffer (Outgrown) or a prompt_result without an      *)
(* agent fell into it (Working).  For that they must be in order           *)
(* (Orderly): a message ends after it begins, and after the answer that    *)
(* brings a history the messages it lacks still end.  Before the history   *)
(* arrives, the same is known of what the host keeps (Knows): the turn's   *)
(* frames and the captured ones, each followed by the pipe.  At the        *)
(* history boundary the one becomes the other (BoundaryFollows).           *)
(*                                                                         *)
(* An answer must find the rehydration that waits for it (Called): no two  *)
(* commands or answers under way are of the same rehydration, and each     *)
(* stands where it was sent.                                               *)
(*                                                                         *)
(* A piece of output is received frame by frame and what awaited it runs   *)
(* after the last one.  The invariant therefore speaks of any state of the *)
(* host, of the frames of the piece it has not received and of the answers *)
(* it has not acted on (Coherent); receiving one frame keeps it            *)
(* (ReceivedKnows, ReceivedSees), and so do the steps of a rehydration.    *)
(*                                                                         *)
(* The handlers of a piece, the filters and the removal of repeated        *)
(* messages are folds over sequences of any length; what a fold computes   *)
(* is shown from the values it passes (IterExists), of which a least one   *)
(* (Least) would break the claim, which the step before excludes (Along).  *)
(***************************************************************************)
EXTENDS ChatView, FiniteSetTheorems, SequenceTheorems, TLAPS

-----------------------------------------------------------------------------
(* Types. *)

\* The first n messages, in order.
Upto(n) == [i \in 1..n |-> i]

\* The frames of each kind.
MessageFrames == {Message(m, phase) : m \in 1..MaxMessages, phase \in {"start", "end"}}
AskFrames == {Asks(r) : r \in Requests}
CancelFrames == {Cancels(r) : r \in Requests}
StateFrames == {State(isStreaming, r) : isStreaming \in BOOLEAN, r \in Revisions}
\* The answers that bring the first n messages.
Histories(n) ==
  {Messages(Upto(n), r) : r \in Revisions} \cup {MessagesPage(Upto(n), r) : r \in Revisions}
HistoryFrames == UNION {Histories(n) : n \in 0..MaxMessages}
BusyFrames == {SessionBusy(r) : r \in Revisions}
\* The answers, and all that OMP writes.
ResponseFrames == StateFrames \cup HistoryFrames \cup BusyFrames
ViewFrames ==
  {AgentStarts, TurnStarts, AgentEnds, LocalResult} \cup MessageFrames \cup AskFrames
     \cup CancelFrames \cup ResponseFrames

\* The commands of a rehydration, and those of the view.
CallKinds == {"get_state", "get_messages", "get_messages_page"}
Calls == {Command(type, r) : type \in CallKinds, r \in Revisions}
ViewCommands == Calls \cup {UiResponse(r) : r \in Requests}

\* The states of the host.
HostRecords ==
  [following : BOOLEAN, active : Seq(ViewFrames), overflow : BOOLEAN,
   replay : [revision : 0..MaxRevisions, frames : Seq(ViewFrames), requests : Seq(AskFrames)],
   view : Views(1..MaxMessages, Requests), jobs : [Revisions -> Phases],
   todo : [Revisions -> Seq(ViewFrames)], in : Seq(ViewCommands), lost : SUBSET (1..MaxMessages)]

\* A turn runs, and no prompt_result without an agent fell into it.
Working == busy /\ ~hushed
\* OMP, as what it wrote speaks of it.
Agent ==
  [done |-> Len(log), live |-> live, busy |-> Working, asked |-> asked, made |-> made]
Agents ==
  [done : 0..MaxMessages, live : 0..MaxMessages, busy : BOOLEAN, asked : SUBSET Requests,
   made : SUBSET Requests]

\* OMP finishes messages one by one; the one it streams comes next.
AgentTyped ==
  /\ log = Upto(Len(log)) /\ Agent \in Agents /\ live \in {0, Len(log) + 1}
  /\ busy \in BOOLEAN /\ hushed \in BOOLEAN
  /\ asked \subseteq made /\ said \in 0..MaxSaid

\* A turn that outgrew its buffer keeps nothing of it.
HostTyped(h) ==
  /\ h \in HostRecords
  /\ Len(h.active) <= MaxActive /\ (h.overflow => h.active = <<>>)
  /\ h.view.live \in 0..Len(h.view.messages)

-----------------------------------------------------------------------------
(* Where the rehydrations stand. *)

\* A rehydration is under way that captures the frames.
Rehydrating == {"state", "parity", "page", "messages", "replay"}
\* The view has got its history.
ShowsHistory(h, rev) == rev # 0 /\ h.jobs[rev] \in {"replay", "done"}

\* A view that was made has a rehydration once its page is ready, the frames are
\* captured for the last one only and as long as it runs, and only one that has its
\* history has something to post.
Phased(h, rev, pg) ==
  /\ rev \in 0..MaxRevisions /\ pg \in {"none", "loading", "listening", "ready"}
  /\ (pg # "none" => rev # 0)
  /\ h.replay.revision \in {0, rev}
  /\ h.replay.revision = 0 => h.replay.frames = <<>>
  /\ rev # 0 => /\ h.replay.revision = rev <=> h.jobs[rev] \in Rehydrating
                /\ h.jobs[rev] # "none" <=> pg = "ready"
  /\ \A r \in Revisions : r > rev => h.jobs[r] = "none"
  /\ \A r \in Revisions : h.todo[r] # <<>> => h.jobs[r] = "replay"
  /\ h.view.transport = "ready" => rev # 0 /\ h.jobs[rev] = "done"

-----------------------------------------------------------------------------
(* Commands of rehydrations and their answers. *)

\* The revision a command or an answer belongs to.
Revs(x) == IF x.type \in CallKinds \cup {"response"} THEN {x.rev} ELSE {}
Kind(x) == IF x.type = "response" THEN x.command ELSE x.type
\* Where the rehydration stands that waits for x.
Waits(x) ==
  CASE Kind(x) = "get_state" -> "state"
    [] Kind(x) = "get_messages" -> "messages"
    [] Kind(x) = "get_messages_page" -> "page"

\* No two of s belong to the same rehydration.
Apart(s) == \A i, j \in DOMAIN s : i < j => Revs(s[i]) \cap Revs(s[j]) = {}
\* The revisions a sequence speaks of, and where each of them has to stand.
RevsOf(s) == UNION {Revs(x) : x \in Range(s)}
Waited(jobsOf, s) == \A x \in Range(s) : \A r \in Revs(x) : jobsOf[r] = Waits(x)

\* rest is what the host has not received, answers what it received and what awaits it
\* has not seen.
Called(h, rest, answers, rev) ==
  /\ Apart(h.in) /\ Apart(rest) /\ Apart(answers)
  /\ RevsOf(h.in) \cap RevsOf(rest) = {} /\ RevsOf(h.in) \cap RevsOf(answers) = {}
  /\ RevsOf(rest) \cap RevsOf(answers) = {}
  /\ Waited(h.jobs, h.in) /\ Waited(h.jobs, rest) /\ Waited(h.jobs, answers)
  /\ \A f \in Range(answers) :
       f \in HistoryFrames /\ f.rev = rev => f \in Range(h.replay.frames)

-----------------------------------------------------------------------------
(* What a sequence of frames OMP wrote says. *)

\* Messages begin and end one after the other.
Precedes(f, g) ==
  \/ f.message < g.message
  \/ f.message = g.message /\ f.phase = "start" /\ g.phase = "end"
InOrder(s) ==
  \A i, j \in DOMAIN s :
    i < j /\ s[i] \in MessageFrames /\ s[j] \in MessageFrames => Precedes(s[i], s[j])
\* A message that began ends later, unless it is the one that is streamed.
EndsAfter(s, i, m) == \E j \in DOMAIN s : j > i /\ s[j] = Message(m, "end")
Ended(s, e) ==
  \A i \in DOMAIN s : \A m \in 1..MaxMessages :
    s[i] = Message(m, "start") => m = e.live \/ EndsAfter(s, i, m)
\* What was said of a message is true of OMP.
Spoken(s, e) ==
  \A m \in 1..MaxMessages :
    /\ Message(m, "end") \in Range(s) => m <= e.done
    /\ Message(m, "start") \in Range(s) => m <= e.done \/ m = e.live
\* After a history follow the ends of all messages it does not have.
Told(s, e) ==
  \A i \in DOMAIN s : \A n \in 0..MaxMessages :
    s[i] \in Histories(n) => n <= e.done /\ \A m \in (n + 1)..e.done : EndsAfter(s, i, m)
\* A request that was cancelled is no longer open.
Settled(s, e) ==
  \A r \in Requests : Cancels(r) \in Range(s) => r \in e.made \ e.asked
Orderly(s, e) == InOrder(s) /\ Ended(s, e) /\ Spoken(s, e) /\ Told(s, e) /\ Settled(s, e)

\* A turn runs after s, if one ran before it only when before holds.
Stops == TurnOver \cup {State(FALSE, r) : r \in Revisions}
\* Nothing says after the i-th frame that no turn runs.
NoStop(s, i) == \A j \in DOMAIN s : j > i => s[j] \notin Stops
Runs(before, s) ==
  \/ \E i \in DOMAIN s : s[i] = AgentStarts /\ NoStop(s, i)
  \/ before /\ NoStop(s, 0)

-----------------------------------------------------------------------------
(* What the host knows, and what the view shows after s. *)

\* What the host keeps, followed by what OMP wrote since, says what OMP is at, and
\* every open request is answered, remembered or under way.
Knows(h, rest, e) ==
  /\ Orderly(h.active \o rest, e) /\ Orderly(h.replay.frames \o rest, e)
  /\ e.busy => Runs(h.following, rest)
  /\ e.busy /\ h.following /\ ~h.overflow => Runs(FALSE, h.active \o rest)
  /\ ~h.following => h.active = <<>> /\ ~h.overflow
  /\ \A r \in e.asked : UiResponse(r) \in Range(h.in) \/ Asks(r) \in Range(h.replay.requests)
                          \/ Asks(r) \in Range(rest)

\* s brings the messages that ended, in their order, and the end of the message the
\* view streams.
Finishes(v, s, lostOf, e) ==
  /\ \A m \in (1..e.done) \ lostOf : m \in Range(v.messages) \/ Message(m, "end") \in Range(s)
  /\ \A q \in DOMAIN v.messages : \A m \in (1..(v.messages[q] - 1)) \ lostOf :
       \E p \in 1..(q - 1) : v.messages[p] = m
  /\ \A q \in DOMAIN v.messages : v.messages[q] <= e.done \/ v.messages[q] = e.live
  /\ v.live # 0 =>
       /\ v.messages[v.live] = e.live \/ Message(v.messages[v.live], "end") \in Range(s)
       /\ \A f \in Range(s) \cap MessageFrames : Precedes(Message(v.messages[v.live], "start"), f)
\* Every open request is shown, unless it is answered or under way.
Requested(v, s, commands, e) ==
  \A r \in e.asked : UiResponse(r) \in Range(commands) \/ r \in v.requests \/ Asks(r) \in Range(s)
\* The frames the view will see.
Coming(h, rest, rev) == h.todo[rev] \o (h.replay.frames \o rest)
\* The turn that runs outgrew its buffer.
Outgrown(h, rest) == h.overflow /\ h.following /\ TurnOver \cap Range(rest) = {}

\* s, which is to come, brings v up to date; cover stands for a turn that is not shown.
Follows(v, s, commands, lostOf, e, cover) ==
  /\ Orderly(s, e) /\ Finishes(v, s, lostOf, e) /\ Requested(v, s, commands, e)
  /\ e.busy => Runs(v.streaming, s) \/ cover
\* A view that has its history is brought up to date by what is to come.
Sees(h, rest, e, rev) ==
  ShowsHistory(h, rev) =>
    Follows(h.view, Coming(h, rest, rev), h.in, h.lost, e, Outgrown(h, rest))

\* The invariant, of any state of the host and of what it has not received.
Coherent(h, rest, answers) ==
  /\ HostTyped(h) /\ Phased(h, revision, page) /\ Called(h, rest, answers, revision)
  /\ Knows(h, rest, Agent) /\ Sees(h, rest, Agent, revision)

\* What is captured, queued and written is what the view has still to see.
ViewInvariant == AgentTyped /\ out \in Seq(ViewFrames) /\ Coherent(Host, out, <<>>)

-----------------------------------------------------------------------------
(* Numbers and folds. *)

\* A set of numbers that is not empty has a least element.
LEMMA Least ==
  ASSUME NEW T \in SUBSET Nat, T # {}
  PROVE  \E n \in T : \A m \in T : n <= m
<1> DEFINE R == StrictSubsetOrdering(Nat)
           U == {1..n : n \in T}
<1>1. U \subseteq FiniteSubsetsOf(Nat) /\ U # {}
  <2>1. \A n \in T : IsFiniteSet(1..n) /\ 1..n \in SUBSET Nat
    BY FS_Interval
  <2>2. QED
    BY <2>1 DEF FiniteSubsetsOf
<1>2. \A m, n \in T : m < n => <<1..m, 1..n>> \in R
  <2>1. \A m, n \in T : m < n => 1..m \subseteq 1..n /\ n \in 1..n /\ n \notin 1..m
    OBVIOUS
  <2>2. \A m \in T : 1..m \in SUBSET Nat
    OBVIOUS
  <2>3. QED
    BY <2>1, <2>2 DEF StrictSubsetOrdering
<1>3. IsWellFoundedOn(R, FiniteSubsetsOf(Nat))
  BY FS_StrictSubsetOrderingWellFounded
<1> HIDE DEF R
<1>4. \E x \in U : \A y \in U : <<y, x>> \notin R
  BY <1>1, <1>3, WFMin
<1>5. PICK n \in T : \A y \in U : <<y, 1..n>> \notin R
  BY <1>4
<1>6. \A m \in T : ~(m < n)
  BY <1>2, <1>5
<1>7. QED
  BY <1>6

\* What holds at the start of a fold and passes from each of its values to the next
\* holds of all of them.
LEMMA Along ==
  ASSUME NEW n \in Nat, NEW g, NEW S, g[0] \in S[0],
         \A i \in 1..n : g[i - 1] \in S[i - 1] => g[i] \in S[i]
  PROVE  \A i \in 0..n : g[i] \in S[i]
<1> DEFINE T == {i \in 0..n : g[i] \notin S[i]}
<1>1. SUFFICES ASSUME T # {} PROVE FALSE
  OBVIOUS
<1>2. PICK i \in T : \A j \in T : i <= j
  <2>1. T \in SUBSET Nat
    OBVIOUS
  <2>2. QED
    BY <1>1, <2>1, Least
<1>3. i \in 1..n /\ i - 1 \in 0..n /\ ~(i <= i - 1)
  OBVIOUS
<1>4. i - 1 \notin T
  BY <1>2, <1>3
<1>5. QED
  BY <1>3, <1>4

\* The greatest number of a set, as the folds take it.
LEMMA MaxOf ==
  ASSUME NEW k \in Nat, NEW s \in SUBSET (1..k), k \in s
  PROVE  Max(s) = k
<1>1. \A y \in s : k >= y
  OBVIOUS
<1>2. Max(s) \in s /\ \A y \in s : Max(s) >= y
  BY <1>1, Zenon DEF Max
<1>3. Max(s) \in 1..k /\ Max(s) >= k
  BY <1>2
<1>4. QED
  BY <1>3

\* The equation of the function of which FoldLeft takes the value, for steps that are
\* functions; and there is such a function.
Iterates(it, n, base, step) ==
  \A s \in SUBSET (1..n) :
    it[s] = IF s = {} THEN base ELSE step[Max(s)][it[s \ {Max(s)}]]

\* The function exists, for a base and steps of one type.
LEMMA IterExists ==
  ASSUME NEW n \in Nat, NEW A, NEW base \in A, NEW step \in [1..n -> [A -> A]]
  PROVE  \E it \in [SUBSET (1..n) -> A] : Iterates(it, n, base, step)
<1> DEFINE Good(k) ==
      \E it \in [SUBSET (1..k) -> A] :
        \A s \in SUBSET (1..k) :
          it[s] = IF s = {} THEN base ELSE step[Max(s)][it[s \ {Max(s)}]]
<1> DEFINE T == {k \in 0..n : ~Good(k)}
<1>1. Good(0)
  <2> DEFINE it == [s \in SUBSET (1..0) |-> base]
  <2>1. it \in [SUBSET (1..0) -> A]
    OBVIOUS
  <2>2. \A s \in SUBSET (1..0) : s = {} /\ it[s] = base
    OBVIOUS
  <2>3. QED
    BY <2>1, <2>2
<1>2. ASSUME NEW k \in 1..n, Good(k - 1) PROVE Good(k)
  <2>1. PICK it \in [SUBSET (1..(k - 1)) -> A] :
          \A s \in SUBSET (1..(k - 1)) :
            it[s] = IF s = {} THEN base ELSE step[Max(s)][it[s \ {Max(s)}]]
    BY <1>2
  <2> DEFINE new == [s \in SUBSET (1..k) |->
                       IF k \in s THEN step[k][it[s \ {k}]] ELSE it[s]]
  <2>2. \A s \in SUBSET (1..k) :
          /\ s \ {k} \in SUBSET (1..(k - 1))
          /\ k \notin s => s \in SUBSET (1..(k - 1)) /\ s \ {k} = s
          /\ \A x : k \notin s \ {x} \/ x # k
    OBVIOUS
  <2>3. new \in [SUBSET (1..k) -> A]
    <3>1. \A s \in SUBSET (1..k) : it[s \ {k}] \in A /\ (k \notin s => it[s] \in A)
      BY <2>2
    <3>2. QED
      BY <3>1
  <2>4. ASSUME NEW s \in SUBSET (1..k)
        PROVE  new[s] = IF s = {} THEN base ELSE step[Max(s)][new[s \ {Max(s)}]]
    <3>1. CASE k \in s
      <4>1. Max(s) = k
        BY <3>1, MaxOf
      <4>2. new[s] = step[k][it[s \ {k}]]
        BY <3>1
      <4>3. s \ {k} \in SUBSET (1..k) /\ k \notin s \ {k}
        OBVIOUS
      <4>4. new[s \ {k}] = it[s \ {k}]
        BY <4>3
      <4>5. QED
        BY <3>1, <4>1, <4>2, <4>4
    <3>2. CASE k \notin s
      <4>1. new[s] = it[s] /\ s \in SUBSET (1..(k - 1))
        BY <2>2, <3>2
      <4>2. \A x : s \ {x} \in SUBSET (1..k) /\ k \notin s \ {x}
        BY <3>2
      <4>3. \A x : new[s \ {x}] = it[s \ {x}]
        BY <4>2
      <4> HIDE DEF new
      <4>4. QED
        BY <2>1, <4>1, <4>3
    <3>3. QED
      BY <3>1, <3>2
  <2> HIDE DEF new
  <2>5. QED
    BY <2>3, <2>4
<1> HIDE DEF Good
<1>3. SUFFICES ASSUME T # {} PROVE FALSE
  <2>1. n \in 0..n
    OBVIOUS
  <2>2. T = {} => Good(n)
    BY <2>1
  <2>3. QED
    BY <2>2 DEF Good, Iterates
<1>4. PICK k \in T : \A j \in T : k <= j
  <2>1. T \in SUBSET Nat
    OBVIOUS
  <2>2. QED
    BY <1>3, <2>1, Least
<1>5. k \in 1..n /\ k - 1 \in 0..n /\ ~(k <= k - 1)
  BY <1>1
<1>6. Good(k - 1)
  BY <1>4, <1>5
<1>7. QED
  BY <1>2, <1>4, <1>5, <1>6

\* What Max chooses from a set of positive numbers up to a bound is one of them.
LEMMA MaxIn ==
  ASSUME NEW n \in Nat, NEW s \in SUBSET (1..n), s # {}
  PROVE  Max(s) \in s
<1> DEFINE T == {m \in 0..n : \A y \in s : y <= m}
<1>1. T \in SUBSET Nat /\ n \in T
  OBVIOUS
<1>2. PICK m \in T : \A k \in T : m <= k
  BY <1>1, Least
<1>3. m \in s
  <2>1. SUFFICES ASSUME m \notin s PROVE FALSE
    OBVIOUS
  <2>2. m # 0 /\ m - 1 \in 0..n
    <3>1. PICK y \in s : y \in 1..n /\ y <= m
      OBVIOUS
    <3>2. QED
      BY <3>1
  <2>3. \A y \in s : y <= m - 1
    BY <2>1
  <2>4. m - 1 \in T
    BY <2>2, <2>3
  <2>5. QED
    BY <1>2, <2>4
<1>4. \A y \in s : m >= y
  OBVIOUS
<1>5. QED
  BY <1>3, <1>4, Zenon DEF Max

\* The first numbers, as a fold goes over them.
LEMMA Initial ==
  ASSUME NEW n \in Nat, NEW i \in 1..n
  PROVE  /\ 1..i \in SUBSET (1..n) /\ 1..i # {} /\ (1..i) \ {i} = 1..(i - 1)
         /\ Max(1..i) = i
<1>1. \A j \in 1..i : j \in 1..n
  OBVIOUS
<1>2. i \in 1..i /\ i \in Nat /\ (1..i) \ {i} = 1..(i - 1)
  OBVIOUS
<1>3. Max(1..i) = i
  BY <1>2, MaxOf
<1>4. QED
  BY <1>1, <1>2, <1>3

-----------------------------------------------------------------------------
(* The frames by their kind. *)

\* A frame of a message is the start or the end of one.
LEMMA MessageFrame ==
  ASSUME NEW f \in MessageFrames
  PROVE  /\ f.type = "message" /\ f.message \in 1..MaxMessages /\ f.phase \in {"start", "end"}
         /\ f = Message(f.message, f.phase)
<1>1. PICK m \in 1..MaxMessages, phase \in {"start", "end"} : f = Message(m, phase)
  BY DEF MessageFrames
<1>2. QED
  BY <1>1 DEF Message

\* Two frames of messages are the same when they say the same.
LEMMA MessageSame ==
  ASSUME NEW m, NEW phase, NEW n, NEW other
  PROVE  /\ Message(m, phase).type = "message" /\ Message(m, phase).message = m
         /\ Message(m, phase).phase = phase
         /\ Message(m, phase) = Message(n, other) <=> m = n /\ phase = other
BY DEF Message

\* A request to the user, and its cancellation.
LEMMA RequestFrame ==
  /\ \A r : /\ Asks(r).type = "extension_ui_request" /\ Asks(r).method = "select"
            /\ Asks(r).id = r
            /\ Cancels(r).type = "extension_ui_request" /\ Cancels(r).method = "cancel"
            /\ Cancels(r).id = r
  /\ \A f \in AskFrames : f.id \in Requests /\ f = Asks(f.id)
  /\ \A f \in CancelFrames : f.id \in Requests /\ f = Cancels(f.id)
  /\ \A r \in Requests : Asks(r) \in AskFrames /\ Cancels(r) \in CancelFrames
BY DEF Asks, Cancels, AskFrames, CancelFrames

\* The answers of OMP say which rehydration they are for, and what was asked.
LEMMA StateFrame ==
  ASSUME NEW f \in StateFrames
  PROVE  /\ f.type = "response" /\ f.command = "get_state" /\ f.isStreaming \in BOOLEAN
         /\ f.rev \in Revisions /\ f = State(f.isStreaming, f.rev)
<1>1. PICK b \in BOOLEAN, r \in Revisions : f = State(b, r)
  BY DEF StateFrames
<1>2. QED
  BY <1>1 DEF State

\* A history brings the first messages, alone or as a page.
LEMMA HistoryFrame ==
  ASSUME NEW n, NEW f \in Histories(n)
  PROVE  /\ f.type = "response" /\ f.rev \in Revisions /\ f.messages = Upto(n)
         /\ \/ f.command = "get_messages" /\ f = Messages(Upto(n), f.rev)
            \/ /\ f.command = "get_messages_page" /\ f.busy = FALSE
               /\ f = MessagesPage(Upto(n), f.rev)
<1>1. CASE f \in {Messages(Upto(n), r) : r \in Revisions}
  <2>1. PICK r \in Revisions : f = Messages(Upto(n), r)
    BY <1>1
  <2>2. QED
    BY <2>1 DEF Messages
<1>2. CASE f \in {MessagesPage(Upto(n), r) : r \in Revisions}
  <2>1. PICK r \in Revisions : f = MessagesPage(Upto(n), r)
    BY <1>2
  <2>2. QED
    BY <2>1 DEF MessagesPage
<1>3. QED
  BY <1>1, <1>2 DEF Histories

\* The answer for a page while the session is busy brings none.
LEMMA BusyFrame ==
  ASSUME NEW f \in BusyFrames
  PROVE  /\ f.type = "response" /\ f.command = "get_messages_page" /\ f.busy = TRUE
         /\ f.rev \in Revisions /\ f = SessionBusy(f.rev)
<1>1. PICK r \in Revisions : f = SessionBusy(r)
  BY DEF BusyFrames
<1>2. QED
  BY <1>1 DEF SessionBusy

\* The same length, the same first messages.
LEMMA UptoFacts ==
  ASSUME NEW n \in Nat
  PROVE  /\ Len(Upto(n)) = n /\ DOMAIN Upto(n) = 1..n /\ \A i \in 1..n : Upto(n)[i] = i
         /\ Range(Upto(n)) = 1..n
         /\ \A k \in Nat : n <= k => Upto(n) \in Seq(1..k)
<1>1. Len(Upto(n)) = n /\ DOMAIN Upto(n) = 1..n /\ \A i \in 1..n : Upto(n)[i] = i
  BY DEF Upto
<1>2. Range(Upto(n)) = 1..n
  BY <1>1 DEF Range
<1>3. \A k \in Nat : n <= k => Upto(n) \in Seq(1..k)
  BY DEF Upto
<1>4. QED
  BY <1>1, <1>2, <1>3

\* The frames of a turn, by their types.
LEMMA TurnKinds ==
  /\ AgentStarts.type = "agent_start" /\ TurnStarts.type = "turn_start"
  /\ AgentEnds.type = "agent_end" /\ LocalResult.type = "prompt_result"
  /\ AgentStarts \notin TurnOver /\ TurnStarts \notin TurnOver
  /\ AgentStarts # TurnStarts
  /\ \A f : f \in TurnOver <=> f = AgentEnds \/ f = LocalResult
<1>1. /\ AgentStarts.type = "agent_start" /\ TurnStarts.type = "turn_start"
      /\ AgentEnds.type = "agent_end" /\ LocalResult.type = "prompt_result"
  BY DEF AgentStarts, TurnStarts, AgentEnds, LocalResult
<1>2. \A f : f \in TurnOver <=> f = AgentEnds \/ f = LocalResult
  BY DEF TurnOver
<1>3. QED
  BY <1>1, <1>2

\* The kinds of frames, by their types.
LEMMA FrameKinds ==
  ASSUME NEW f \in ViewFrames
  PROVE  /\ \/ f \in {AgentStarts, TurnStarts} \/ f \in TurnOver \/ f \in MessageFrames
            \/ f \in AskFrames \/ f \in CancelFrames \/ f \in ResponseFrames
         /\ f = AgentStarts <=> f.type = "agent_start"
         /\ f = TurnStarts <=> f.type = "turn_start"
         /\ f \in TurnOver <=> f.type \in {"agent_end", "prompt_result"}
         /\ f \in MessageFrames <=> f.type = "message"
         /\ f \in AskFrames \cup CancelFrames <=> f.type = "extension_ui_request"
         /\ f \in AskFrames => f.method # "cancel"
         /\ f \in CancelFrames => f.method = "cancel"
         /\ f \in ResponseFrames <=> f.type = "response"
<1>1. \/ f \in {AgentStarts, TurnStarts} \/ f \in TurnOver \/ f \in MessageFrames
      \/ f \in AskFrames \/ f \in CancelFrames \/ f \in ResponseFrames
  BY TurnKinds DEF ViewFrames
<1>2. /\ AgentStarts.type = "agent_start" /\ TurnStarts.type = "turn_start"
      /\ f \in TurnOver => f.type \in {"agent_end", "prompt_result"}
  BY TurnKinds
<1>3. f \in MessageFrames => f.type = "message"
  BY MessageFrame
<1>4. f \in AskFrames => f.type = "extension_ui_request" /\ f.method = "select"
  BY RequestFrame
<1>5. f \in CancelFrames => f.type = "extension_ui_request" /\ f.method = "cancel"
  BY RequestFrame
<1>6. f \in ResponseFrames => f.type = "response"
  BY StateFrame, HistoryFrame, BusyFrame DEF ResponseFrames, HistoryFrames
<1>7. QED
  BY <1>1, <1>2, <1>3, <1>4, <1>5, <1>6

\* The kinds of answers, by their commands.
LEMMA ResponseKinds ==
  ASSUME NEW f \in ResponseFrames
  PROVE  /\ f.rev \in Revisions /\ f.type = "response"
         /\ f.command \in {"get_state", "get_messages", "get_messages_page"}
         /\ f \in StateFrames <=> f.command = "get_state"
         /\ f \in BusyFrames <=> f.command = "get_messages_page" /\ f.busy
         /\ f \in HistoryFrames <=>
              \/ f.command = "get_messages"
              \/ f.command = "get_messages_page" /\ ~f.busy
         /\ f \in HistoryFrames =>
              \E n \in 0..MaxMessages : f \in Histories(n) /\ f.messages = Upto(n)
<1>1. f \in StateFrames \/ f \in HistoryFrames \/ f \in BusyFrames
  BY DEF ResponseFrames
<1>2. ASSUME f \in StateFrames
      PROVE  f.rev \in Revisions /\ f.type = "response" /\ f.command = "get_state"
  BY <1>2, StateFrame
<1>3. ASSUME f \in BusyFrames
      PROVE  /\ f.rev \in Revisions /\ f.type = "response" /\ f.command = "get_messages_page"
             /\ f.busy = TRUE
  BY <1>3, BusyFrame
<1>4. ASSUME f \in HistoryFrames
      PROVE  /\ f.rev \in Revisions /\ f.type = "response"
             /\ \/ f.command = "get_messages"
                \/ f.command = "get_messages_page" /\ f.busy = FALSE
             /\ \E n \in 0..MaxMessages : f \in Histories(n) /\ f.messages = Upto(n)
  <2>1. PICK n \in 0..MaxMessages : f \in Histories(n)
    BY <1>4 DEF HistoryFrames
  <2>2. /\ f.type = "response" /\ f.rev \in Revisions /\ f.messages = Upto(n)
        /\ \/ f.command = "get_messages" /\ f = Messages(Upto(n), f.rev)
           \/ /\ f.command = "get_messages_page" /\ f.busy = FALSE
              /\ f = MessagesPage(Upto(n), f.rev)
    BY <2>1, HistoryFrame
  <2>3. QED
    BY <2>1, <2>2
<1>5. QED
  BY <1>1, <1>2, <1>3, <1>4

-----------------------------------------------------------------------------
(* Sequences. *)

\* A sequence that is not empty is its head and its tail.
LEMMA HeadAndTail ==
  ASSUME NEW S, NEW s \in Seq(S), s # <<>>
  PROVE  /\ Len(s) \in Nat /\ Len(s) >= 1 /\ DOMAIN s = 1..Len(s) /\ Head(s) = s[1] /\ s[1] \in S
         /\ Tail(s) \in Seq(S) /\ Len(Tail(s)) = Len(s) - 1
         /\ DOMAIN Tail(s) = 1..(Len(s) - 1)
         /\ \A i \in 1..(Len(s) - 1) : Tail(s)[i] = s[i + 1]
         /\ Range(s) = {Head(s)} \cup Range(Tail(s))
<1>1. Len(s) \in Nat /\ Len(s) >= 1 /\ DOMAIN s = 1..Len(s) /\ Head(s) = s[1] /\ s[1] \in S
  OBVIOUS
<1>2. Tail(s) \in Seq(S) /\ Len(Tail(s)) = Len(s) - 1
  BY HeadTailProperties
<1>3. DOMAIN Tail(s) = 1..(Len(s) - 1)
  BY <1>1, <1>2
<1>4. \A i \in 1..(Len(s) - 1) : Tail(s)[i] = s[i + 1]
  BY <1>2, HeadTailProperties
<1>5. \A i \in 1..Len(s) : i = 1 \/ i - 1 \in 1..(Len(s) - 1)
  BY <1>1
<1>6. \A i \in 1..(Len(s) - 1) : i + 1 \in 1..Len(s)
  BY <1>1
<1>7. Range(s) = {s[i] : i \in 1..Len(s)} /\ Range(Tail(s)) = {s[i + 1] : i \in 1..(Len(s) - 1)}
  BY <1>1, <1>3, <1>4 DEF Range
<1>8. \A x \in Range(s) : x = s[1] \/ x \in Range(Tail(s))
  <2>1. TAKE x \in Range(s)
  <2>2. PICK i \in 1..Len(s) : x = s[i]
    BY <1>7
  <2>3. i # 1 => s[i] = s[(i - 1) + 1]
    BY <1>1
  <2>4. QED
    BY <1>5, <1>7, <2>2, <2>3
<1>9. \A x \in Range(Tail(s)) : x \in Range(s)
  BY <1>6, <1>7
<1>10. 1 \in 1..Len(s)
  BY <1>1
<1>11. QED
  BY <1>1, <1>2, <1>3, <1>4, <1>7, <1>8, <1>9, <1>10

\* A sequence that is appended to.
LEMMA Appended ==
  ASSUME NEW S, NEW s \in Seq(S), NEW x \in S
  PROVE  /\ Append(s, x) \in Seq(S) /\ Len(s) \in Nat /\ Len(Append(s, x)) = Len(s) + 1
         /\ DOMAIN s = 1..Len(s) /\ DOMAIN Append(s, x) = 1..(Len(s) + 1)
         /\ Append(s, x)[Len(s) + 1] = x /\ \A i \in 1..Len(s) : Append(s, x)[i] = s[i]
         /\ Range(Append(s, x)) = Range(s) \cup {x}
<1> DEFINE t == Append(s, x)
<1>1. /\ t \in Seq(S) /\ Len(s) \in Nat /\ Len(t) = Len(s) + 1 /\ DOMAIN s = 1..Len(s)
      /\ DOMAIN t = 1..(Len(s) + 1) /\ t[Len(s) + 1] = x /\ \A i \in 1..Len(s) : t[i] = s[i]
  OBVIOUS
<1> HIDE DEF t
<1>2. \A i \in 1..(Len(s) + 1) : i = Len(s) + 1 \/ i \in 1..Len(s)
  BY <1>1
<1>3. Len(s) + 1 \in 1..(Len(s) + 1) /\ \A i \in 1..Len(s) : i \in 1..(Len(s) + 1)
  BY <1>1
<1>4. Range(t) = Range(s) \cup {x}
  <2>1. \A y \in Range(t) : y = x \/ y \in Range(s)
    BY <1>1, <1>2 DEF Range
  <2>2. \A y \in Range(s) : y \in Range(t)
    BY <1>1, <1>3 DEF Range
  <2>3. x \in Range(t)
    BY <1>1, <1>3 DEF Range
  <2>4. QED
    BY <2>1, <2>2, <2>3
<1>5. QED
  BY <1>1, <1>4 DEF t

\* Two sequences, one after the other.
LEMMA Joined ==
  ASSUME NEW S, NEW s \in Seq(S), NEW t \in Seq(S)
  PROVE  /\ s \o t \in Seq(S) /\ Len(s) \in Nat /\ Len(t) \in Nat
         /\ Len(s \o t) = Len(s) + Len(t)
         /\ DOMAIN s = 1..Len(s) /\ DOMAIN t = 1..Len(t) /\ DOMAIN (s \o t) = 1..(Len(s) + Len(t))
         /\ \A i \in 1..Len(s) : (s \o t)[i] = s[i]
         /\ \A i \in 1..Len(t) : (s \o t)[Len(s) + i] = t[i]
         /\ Range(s \o t) = Range(s) \cup Range(t)
<1> DEFINE u == s \o t
<1>1. /\ u \in Seq(S) /\ Len(s) \in Nat /\ Len(t) \in Nat /\ Len(u) = Len(s) + Len(t)
      /\ DOMAIN s = 1..Len(s) /\ DOMAIN t = 1..Len(t) /\ DOMAIN u = 1..(Len(s) + Len(t))
  OBVIOUS
<1>2. \A i \in 1..(Len(s) + Len(t)) : u[i] = IF i <= Len(s) THEN s[i] ELSE t[i - Len(s)]
  BY ConcatProperties
<1> HIDE DEF u
<1>3. \A i \in 1..Len(s) : u[i] = s[i]
  BY <1>1, <1>2
<1>4. \A i \in 1..Len(t) : u[Len(s) + i] = t[i]
  <2>1. \A i \in 1..Len(t) : /\ Len(s) + i \in 1..(Len(s) + Len(t)) /\ ~(Len(s) + i <= Len(s))
                             /\ (Len(s) + i) - Len(s) = i
    BY <1>1
  <2>2. QED
    BY <1>2, <2>1
<1>5. Range(u) = Range(s) \cup Range(t)
  BY RangeConcatenation DEF u
<1>6. QED
  BY <1>1, <1>3, <1>4, <1>5 DEF u

\* What is in a sequence is somewhere in it.
LEMMA Placed ==
  ASSUME NEW S, NEW s \in Seq(S), NEW x \in Range(s)
  PROVE  \E i \in DOMAIN s : s[i] = x
BY DEF Range

\* The numbers of the messages that are shown.
LEMMA Numbered ==
  ASSUME NEW ms \in Seq(1..MaxMessages)
  PROVE  /\ Len(ms) \in Nat /\ DOMAIN ms = 1..Len(ms)
         /\ \A q \in DOMAIN ms : ms[q] \in 1..MaxMessages
<1>1. Len(ms) \in Nat /\ DOMAIN ms = 1..Len(ms)
  BY LenProperties
<1>2. \A q \in 1..Len(ms) : ms[q] \in 1..MaxMessages
  BY ElementOfSeq
<1>3. QED
  BY <1>1, <1>2

\* ns is ms and m after it.
Extends(ns, ms, m) ==
  /\ Len(ms) \in Nat /\ DOMAIN ms = 1..Len(ms) /\ DOMAIN ns = 1..(Len(ms) + 1)
  /\ ns[Len(ms) + 1] = m /\ \A i \in 1..Len(ms) : ns[i] = ms[i]
  /\ Range(ns) = Range(ms) \cup {m}

\* A message that is appended adds its number.
LEMMA NumberedAppend ==
  ASSUME NEW ms \in Seq(1..MaxMessages), NEW m \in 1..MaxMessages
  PROVE  Extends(Append(ms, m), ms, m)
<1> DEFINE S == 1..MaxMessages
<1>1. ms \in Seq(S) /\ m \in S
  OBVIOUS
<1> HIDE DEF S
<1>2. /\ Len(ms) \in Nat /\ DOMAIN ms = 1..Len(ms)
      /\ DOMAIN Append(ms, m) = 1..(Len(ms) + 1)
      /\ Append(ms, m)[Len(ms) + 1] = m /\ \A i \in 1..Len(ms) : Append(ms, m)[i] = ms[i]
      /\ Range(Append(ms, m)) = Range(ms) \cup {m}
  BY <1>1, Appended
<1>3. QED
  BY <1>2 DEF Extends

-----------------------------------------------------------------------------
(* Frames OMP wrote, in order. *)

\* t is s without some of its first frames, and with some requests between the others:
\* place[i] is where t[i] was, or 0 when it is such a request.
Keeps(s, t, place) ==
  /\ \A i \in DOMAIN t :
       \/ place[i] = 0 /\ t[i] \in AskFrames
       \/ place[i] \in DOMAIN s /\ t[i] = s[place[i]]
  /\ \A i, j \in DOMAIN t :
       i < j /\ place[i] # 0 /\ place[j] # 0 => place[i] < place[j]
  /\ \A i \in DOMAIN t : \A j \in DOMAIN s :
       place[i] # 0 /\ j > place[i] => \E k \in DOMAIN t : k > i /\ place[k] = j

\* What is not a request, and is in t, was in s.
LEMMA KeptFrame ==
  ASSUME NEW s \in Seq(ViewFrames), NEW t \in Seq(ViewFrames), NEW place, Keeps(s, t, place),
         NEW i \in DOMAIN t, t[i] \notin AskFrames
  PROVE  place[i] # 0 /\ place[i] \in DOMAIN s /\ t[i] = s[place[i]] /\ t[i] \in Range(s)
<1>1. 0 \notin DOMAIN s
  OBVIOUS
<1>2. place[i] # 0 /\ place[i] \in DOMAIN s /\ t[i] = s[place[i]]
  BY <1>1 DEF Keeps
<1>3. QED
  BY <1>2 DEF Range

\* No frame is of two kinds that matter.
LEMMA KindsApart ==
  /\ \A f \in MessageFrames : f \notin AskFrames
  /\ \A n \in 0..MaxMessages : \A f \in Histories(n) : f \notin AskFrames
  /\ \A r \in Requests : Cancels(r) \notin AskFrames
  /\ \A m \in 1..MaxMessages, phase \in {"start", "end"} : Message(m, phase) \in MessageFrames
<1>1. \A f \in AskFrames : f.type = "extension_ui_request" /\ f.method = "select"
  BY RequestFrame
<1>2. \A f \in MessageFrames : f.type = "message"
  BY MessageFrame
<1>3. ASSUME NEW n \in 0..MaxMessages, NEW f \in Histories(n) PROVE f.type = "response"
  BY HistoryFrame
<1>4. \A r \in Requests : Cancels(r).method = "cancel"
  BY RequestFrame
<1>5. \A m \in 1..MaxMessages, phase \in {"start", "end"} : Message(m, phase) \in MessageFrames
  BY DEF MessageFrames
<1>6. QED
  BY <1>1, <1>2, <1>3, <1>4, <1>5

\* What follows in s follows in t.
LEMMA KeptEnd ==
  ASSUME NEW s \in Seq(ViewFrames), NEW t \in Seq(ViewFrames), NEW place, Keeps(s, t, place),
         NEW i \in DOMAIN t, place[i] # 0, NEW m \in 1..MaxMessages, EndsAfter(s, place[i], m)
  PROVE  EndsAfter(t, i, m)
<1>1. PICK j \in DOMAIN s : j > place[i] /\ s[j] = Message(m, "end")
  BY DEF EndsAfter
<1>2. PICK k \in DOMAIN t : k > i /\ place[k] = j
  BY <1>1 DEF Keeps
<1>3. 0 \notin DOMAIN s
  OBVIOUS
<1>4. t[k] = s[j]
  BY <1>1, <1>2, <1>3 DEF Keeps
<1>5. QED
  BY <1>1, <1>2, <1>4 DEF EndsAfter

\* What is left of a sequence in order is in order.
LEMMA OrderlyKept ==
  ASSUME NEW s \in Seq(ViewFrames), NEW t \in Seq(ViewFrames), NEW place, Keeps(s, t, place),
         NEW e \in Agents, Orderly(s, e)
  PROVE  Orderly(t, e)
<1>1. InOrder(t)
  <2>1. SUFFICES ASSUME NEW i \in DOMAIN t, NEW j \in DOMAIN t, i < j,
                        t[i] \in MessageFrames, t[j] \in MessageFrames
                 PROVE  Precedes(t[i], t[j])
    BY DEF InOrder
  <2>2. /\ place[i] # 0 /\ place[i] \in DOMAIN s /\ t[i] = s[place[i]]
        /\ place[j] # 0 /\ place[j] \in DOMAIN s /\ t[j] = s[place[j]]
    BY <2>1, KindsApart, KeptFrame
  <2>3. place[i] < place[j]
    BY <2>1, <2>2 DEF Keeps
  <2>4. QED
    BY <2>1, <2>2, <2>3 DEF Orderly, InOrder
<1>2. Ended(t, e)
  <2>1. SUFFICES ASSUME NEW i \in DOMAIN t, NEW m \in 1..MaxMessages, t[i] = Message(m, "start"),
                        m # e.live
                 PROVE  EndsAfter(t, i, m)
    BY DEF Ended
  <2>2. place[i] # 0 /\ place[i] \in DOMAIN s /\ t[i] = s[place[i]]
    BY <2>1, KindsApart, KeptFrame
  <2>3. EndsAfter(s, place[i], m)
    BY <2>1, <2>2 DEF Orderly, Ended
  <2>4. QED
    BY <2>2, <2>3, KeptEnd
<1>3. \A f \in Range(t) : f \notin AskFrames => f \in Range(s)
  <2>1. SUFFICES ASSUME NEW f \in Range(t), f \notin AskFrames PROVE f \in Range(s)
    OBVIOUS
  <2>2. PICK i \in DOMAIN t : t[i] = f
    BY Placed
  <2>3. QED
    BY <2>1, <2>2, KeptFrame
<1>4. Spoken(t, e)
  <2>1. \A m \in 1..MaxMessages, phase \in {"start", "end"} :
          Message(m, phase) \in Range(t) => Message(m, phase) \in Range(s)
    BY <1>3, KindsApart
  <2>2. QED
    BY <2>1 DEF Orderly, Spoken
<1>5. Told(t, e)
  <2>1. SUFFICES ASSUME NEW i \in DOMAIN t, NEW n \in 0..MaxMessages, t[i] \in Histories(n)
                 PROVE  n <= e.done /\ \A m \in (n + 1)..e.done : EndsAfter(t, i, m)
    BY DEF Told
  <2>2. place[i] # 0 /\ place[i] \in DOMAIN s /\ t[i] = s[place[i]]
    BY <2>1, KindsApart, KeptFrame
  <2>3. n <= e.done /\ \A m \in (n + 1)..e.done : EndsAfter(s, place[i], m)
    BY <2>1, <2>2 DEF Orderly, Told
  <2>4. \A m \in (n + 1)..e.done : m \in 1..MaxMessages
    <3>1. e.done \in 0..MaxMessages /\ MaxMessages \in Nat
      BY ViewAssumption DEF Agents
    <3>2. QED
      BY <3>1
  <2>5. QED
    BY <2>2, <2>3, <2>4, KeptEnd
<1>6. Settled(t, e)
  BY <1>3, KindsApart DEF Orderly, Settled
<1>7. QED
  BY <1>1, <1>2, <1>4, <1>5, <1>6 DEF Orderly

\* What comes after some frames is in order when all are.
LEMMA OrderlyAfter ==
  ASSUME NEW s \in Seq(ViewFrames), NEW t \in Seq(ViewFrames), NEW e \in Agents,
         Orderly(s \o t, e)
  PROVE  Orderly(t, e)
<1> DEFINE u == s \o t
           place == [i \in DOMAIN t |-> Len(s) + i]
<1>1. /\ u \in Seq(ViewFrames) /\ Len(s) \in Nat /\ Len(t) \in Nat
      /\ DOMAIN t = 1..Len(t) /\ DOMAIN u = 1..(Len(s) + Len(t))
      /\ \A i \in 1..Len(t) : u[Len(s) + i] = t[i]
  BY Joined
<1> HIDE DEF u
<1>2. \A i \in DOMAIN t : place[i] \in DOMAIN u /\ t[i] = u[place[i]]
  BY <1>1
<1>3. ASSUME NEW i \in DOMAIN t, NEW j \in DOMAIN u, j > place[i]
      PROVE  \E k \in DOMAIN t : k > i /\ place[k] = j
  <2>1. j - Len(s) \in DOMAIN t /\ j - Len(s) > i
    BY <1>1, <1>3
  <2>2. place[j - Len(s)] = j
    BY <1>1, <2>1
  <2>3. QED
    BY <2>1, <2>2
<1>4. \A i, j \in DOMAIN t : i < j => place[i] < place[j]
  BY <1>1
<1> HIDE DEF place
<1>5. Keeps(u, t, place)
  BY <1>2, <1>3, <1>4 DEF Keeps
<1>6. Orderly(u, e)
  BY DEF u
<1>7. QED
  BY <1>1, <1>5, <1>6, OrderlyKept

\* What comes after the first frame is in order when all are.
LEMMA OrderlyTail ==
  ASSUME NEW s \in Seq(ViewFrames), s # <<>>, NEW e \in Agents, Orderly(s, e)
  PROVE  Orderly(Tail(s), e)
<1> DEFINE t == Tail(s)
           place == [i \in DOMAIN t |-> i + 1]
<1>1. /\ Len(s) \in Nat /\ Len(s) >= 1 /\ DOMAIN s = 1..Len(s)
      /\ t \in Seq(ViewFrames) /\ DOMAIN t = 1..(Len(s) - 1)
      /\ \A i \in 1..(Len(s) - 1) : t[i] = s[i + 1]
  BY HeadAndTail
<1> HIDE DEF t
<1>2. \A i \in DOMAIN t : place[i] \in DOMAIN s /\ t[i] = s[place[i]]
  BY <1>1
<1>3. ASSUME NEW i \in DOMAIN t, NEW j \in DOMAIN s, j > place[i]
      PROVE  \E k \in DOMAIN t : k > i /\ place[k] = j
  <2>1. j - 1 \in DOMAIN t /\ j - 1 > i
    BY <1>1, <1>3
  <2>2. place[j - 1] = j
    BY <1>1, <2>1
  <2>3. QED
    BY <2>1, <2>2
<1>4. \A i, j \in DOMAIN t : i < j => place[i] < place[j]
  BY <1>1
<1> HIDE DEF place
<1>5. Keeps(s, t, place)
  BY <1>2, <1>3, <1>4 DEF Keeps
<1>6. Orderly(t, e)
  BY <1>1, <1>5, OrderlyKept
<1>7. QED
  BY <1>6 DEF t

\* Requests may be put between.
LEMMA OrderlyBetween ==
  ASSUME NEW s \in Seq(ViewFrames), NEW t \in Seq(ViewFrames), NEW asks \in Seq(AskFrames),
         NEW e \in Agents, Orderly(s \o t, e)
  PROVE  Orderly((s \o asks) \o t, e)
<1> DEFINE u == s \o t
           v == (s \o asks) \o t
           place == [i \in DOMAIN v |-> IF i <= Len(s) THEN i
                                        ELSE IF i <= Len(s) + Len(asks) THEN 0
                                        ELSE i - Len(asks)]
<1>1. asks \in Seq(ViewFrames)
  BY SeqMonotonic DEF ViewFrames
<1>2. /\ u \in Seq(ViewFrames) /\ Len(s) \in Nat /\ Len(t) \in Nat /\ Len(asks) \in Nat
      /\ DOMAIN u = 1..(Len(s) + Len(t))
      /\ \A i \in 1..Len(s) : u[i] = s[i]
      /\ \A i \in 1..Len(t) : u[Len(s) + i] = t[i]
  BY Joined
<1>3. /\ v \in Seq(ViewFrames) /\ DOMAIN v = 1..((Len(s) + Len(asks)) + Len(t))
      /\ \A i \in 1..Len(s) : v[i] = s[i]
      /\ \A i \in 1..Len(asks) : v[Len(s) + i] = asks[i]
      /\ \A i \in 1..Len(t) : v[(Len(s) + Len(asks)) + i] = t[i]
  <2> DEFINE w == s \o asks
  <2>1. /\ w \in Seq(ViewFrames) /\ Len(w) = Len(s) + Len(asks)
        /\ \A i \in 1..Len(s) : w[i] = s[i]
        /\ \A i \in 1..Len(asks) : w[Len(s) + i] = asks[i]
    BY <1>1, Joined
  <2> HIDE DEF w
  <2>2. ASSUME NEW x \in Seq(ViewFrames)
        PROVE  /\ x \o t \in Seq(ViewFrames) /\ DOMAIN (x \o t) = 1..(Len(x) + Len(t))
               /\ \A i \in 1..Len(x) : (x \o t)[i] = x[i]
               /\ \A i \in 1..Len(t) : (x \o t)[Len(x) + i] = t[i]
    BY Joined
  <2>3. \A i \in 1..Len(s) : i \in 1..Len(w)
    BY <1>2, <2>1
  <2>4. \A i \in 1..Len(asks) : Len(s) + i \in 1..Len(w)
    BY <1>2, <2>1
  <2>5. v = w \o t
    BY DEF w
  <2>7. /\ w \o t \in Seq(ViewFrames) /\ DOMAIN (w \o t) = 1..(Len(w) + Len(t))
        /\ \A i \in 1..Len(w) : (w \o t)[i] = w[i]
        /\ \A i \in 1..Len(t) : (w \o t)[Len(w) + i] = t[i]
    BY <2>1, <2>2
  <2> HIDE DEF v
  <2>6. QED
    BY <2>1, <2>3, <2>4, <2>5, <2>7
<1> HIDE DEF u, v
<1> DEFINE a == Len(s)
           b == Len(asks)
           c == Len(t)
<1>11. a \in Nat /\ b \in Nat /\ c \in Nat /\ DOMAIN u = 1..(a + c) /\ DOMAIN v = 1..((a + b) + c)
  BY <1>2, <1>3
<1>4. \A i \in 1..Len(asks) : asks[i] \in AskFrames
  OBVIOUS
<1>5. ASSUME NEW i \in DOMAIN v
      PROVE  \/ place[i] = 0 /\ v[i] \in AskFrames
             \/ place[i] \in DOMAIN u /\ v[i] = u[place[i]]
  <2>1. CASE i <= Len(s)
    <3>1. i \in 1..Len(s) /\ i \in DOMAIN u
      BY <1>2, <1>3, <2>1
    <3>2. place[i] = i
      BY <2>1
    <3> HIDE DEF place
    <3>3. QED
      BY <1>2, <1>3, <3>1, <3>2
  <2>2. CASE ~(i <= Len(s)) /\ i <= Len(s) + Len(asks)
    <3>1. i - Len(s) \in 1..Len(asks) /\ i = Len(s) + (i - Len(s))
      <4> HIDE DEF a, b, c
      <4>1. i \in 1..((a + b) + c) /\ ~(i <= a) /\ i <= a + b
        BY <1>11, <2>2 DEF a, b
      <4>2. i - a \in 1..b /\ i = a + (i - a)
        BY <1>11, <4>1
      <4>3. QED
        BY <4>2 DEF a, b
    <3>2. place[i] = 0
      BY <2>2
    <3> HIDE DEF place
    <3>3. QED
      BY <1>3, <1>4, <3>1, <3>2
  <2>3. CASE ~(i <= Len(s)) /\ ~(i <= Len(s) + Len(asks))
    <3> DEFINE k == i - (Len(s) + Len(asks))
    <3>1. /\ k \in 1..Len(t) /\ i = (Len(s) + Len(asks)) + k
          /\ i - Len(asks) = Len(s) + k /\ i - Len(asks) \in DOMAIN u
      <4> HIDE DEF a, b, c
      <4>1. i \in 1..((a + b) + c) /\ ~(i <= a + b)
        BY <1>11, <2>3 DEF a, b
      <4>4. a \in Nat /\ b \in Nat /\ c \in Nat
        BY <1>11
      <4>2. /\ i - (a + b) \in 1..c /\ i = (a + b) + (i - (a + b))
            /\ i - b = a + (i - (a + b)) /\ i - b \in 1..(a + c)
        <5>1. \A p, q, r \in Nat : \A x \in 1..((p + q) + r) :
                ~(x <= p + q) => /\ x - (p + q) \in 1..r /\ x = (p + q) + (x - (p + q))
                                 /\ x - q = p + (x - (p + q)) /\ x - q \in 1..(p + r)
          OBVIOUS
        <5>2. QED
          BY <4>1, <4>4, <5>1
      <4>3. QED
        BY <1>11, <4>2 DEF a, b, c
    <3>2. place[i] = i - Len(asks)
      BY <2>3
    <3> HIDE DEF place, k
    <3>3. QED
      BY <1>2, <1>3, <3>1, <3>2
  <2>4. QED
    BY <2>1, <2>2, <2>3
<1>6. \A i, j \in DOMAIN v :
        i < j /\ place[i] # 0 /\ place[j] # 0 => place[i] < place[j]
  BY <1>2, <1>3
<1>7. ASSUME NEW i \in DOMAIN v, NEW j \in DOMAIN u, place[i] # 0, j > place[i]
      PROVE  \E k \in DOMAIN v : k > i /\ place[k] = j
  <2>1. CASE j <= Len(s)
    <3>1. j \in DOMAIN v /\ place[j] = j
      BY <1>2, <1>3, <2>1
    <3>2. i < j
      BY <1>2, <1>3, <1>7, <2>1
    <3>3. QED
      BY <3>1, <3>2
  <2>2. CASE ~(j <= Len(s))
    <3>1. j + Len(asks) \in DOMAIN v /\ place[j + Len(asks)] = j
      BY <1>2, <1>3, <2>2
    <3>2. i < j + Len(asks)
      BY <1>2, <1>3, <1>7, <2>2
    <3>3. QED
      BY <3>1, <3>2
  <2>3. QED
    BY <2>1, <2>2
<1> HIDE DEF place
<1>8. Keeps(u, v, place)
  BY <1>5, <1>6, <1>7 DEF Keeps
<1>9. Orderly(u, e)
  BY DEF u
<1>10. QED
  BY <1>2, <1>3, <1>8, <1>9, OrderlyKept DEF v

-----------------------------------------------------------------------------
(* What OMP writes. *)

\* OMP has made the request r.
Asked(e, r) == [e EXCEPT !.asked = e.asked \cup {r}, !.made = e.made \cup {r}]
\* What OMP answers when it is asked whether a turn runs: also one that is no longer
\* spoken of.
StatesOf(e) == {State(TRUE, r) : r \in Revisions} \cup {State(e.busy, r) : r \in Revisions}
\* OMP writes f, and e becomes e2: the writing actions of OMP, one by one.
Tells(e, e2, f) ==
  \/ f = AgentStarts /\ ~e.busy /\ e2 = [e EXCEPT !.busy = TRUE]
  \/ f = TurnStarts /\ e2 = e
  \/ /\ e.live = 0 /\ e.done < MaxMessages /\ f = Message(e.done + 1, "start")
     /\ e2 = [e EXCEPT !.live = e.done + 1]
  \/ /\ e.live # 0 /\ f = Message(e.live, "end")
     /\ e2 = [e EXCEPT !.live = 0, !.done = e.done + 1]
  \/ f \in TurnOver /\ e2 = [e EXCEPT !.busy = FALSE]
  \/ \E r \in Requests :
       /\ r \notin e.made /\ f = Asks(r)
       /\ e2 = Asked(e, r)
  \/ \E r \in e.asked : f = Cancels(r) /\ e2 = [e EXCEPT !.asked = e.asked \ {r}]
  \/ e2 = e /\ f \in StatesOf(e) \cup Histories(e.done) \cup BusyFrames
\* What OMP can be at.
Possible(e) == e \in Agents /\ e.live \in {0, e.done + 1} /\ e.asked \subseteq e.made

\* What OMP answers to get_state.
LEMMA StatesAnswered ==
  \A e : Possible(e) =>
    \A f \in StatesOf(e) : /\ f \in StateFrames /\ f.type = "response" /\ f.command = "get_state"
                           /\ e.busy = TRUE => f.isStreaming = TRUE
<1>1. SUFFICES ASSUME NEW e, Possible(e), NEW f \in StatesOf(e)
               PROVE  /\ f \in StateFrames /\ f.type = "response" /\ f.command = "get_state"
                      /\ e.busy = TRUE => f.isStreaming = TRUE
  OBVIOUS
<1>2. e.busy \in BOOLEAN
  BY <1>1 DEF Possible, Agents
<1>3. PICK b \in BOOLEAN, r \in Revisions :
        f = State(b, r) /\ (e.busy = TRUE => b = TRUE)
  <2>1. CASE f \in {State(TRUE, r) : r \in Revisions}
    BY <2>1
  <2>2. CASE f \in {State(e.busy, r) : r \in Revisions}
    BY <1>2, <2>2
  <2>3. QED
    BY <1>1, <2>1, <2>2 DEF StatesOf
<1>4. f \in StateFrames
  BY <1>3 DEF StateFrames
<1>5. f.type = "response" /\ f.command = "get_state" /\ f.isStreaming = b
  BY <1>3 DEF State
<1>6. QED
  BY <1>3, <1>4, <1>5

\* The cases of Tells, by the frame.
LEMMA Telling ==
  ASSUME NEW e, Possible(e), NEW e2, NEW f, Tells(e, e2, f)
  PROVE  /\ e2 \in Agents /\ f \in ViewFrames
         /\ \/ /\ f = AgentStarts /\ e2.busy /\ e2.live = e.live /\ e2.done = e.done
               /\ e2.asked = e.asked /\ e2.made = e.made
            \/ /\ e.live = 0 /\ f = Message(e.done + 1, "start") /\ e2.live = e.done + 1
               /\ e.done + 1 \in 1..MaxMessages
               /\ e2.busy = e.busy /\ e2.done = e.done
               /\ e2.asked = e.asked /\ e2.made = e.made
            \/ /\ e.live = e.done + 1 /\ f = Message(e.live, "end") /\ e2.live = 0
               /\ e.live \in 1..MaxMessages
               /\ e2.busy = e.busy /\ e2.done = e.done + 1
               /\ e2.asked = e.asked /\ e2.made = e.made
            \/ /\ f \in TurnOver /\ ~e2.busy /\ e2.live = e.live /\ e2.done = e.done
               /\ e2.asked = e.asked /\ e2.made = e.made
            \/ f = TurnStarts /\ e2 = e
            \/ /\ e2.busy = e.busy /\ e2.live = e.live /\ e2.done = e.done
               /\ \E r \in Requests :
                    \/ /\ r \notin e.made /\ f = Asks(r)
                       /\ e2.asked = e.asked \cup {r} /\ e2.made = e.made \cup {r}
                    \/ /\ r \in e.asked /\ f = Cancels(r)
                       /\ e2.asked = e.asked \ {r} /\ e2.made = e.made
            \/ /\ e2 = e
               /\ f \in StatesOf(e) \cup Histories(e.done) \cup BusyFrames
<1>1. /\ e \in Agents /\ e.live \in {0, e.done + 1} /\ e.asked \subseteq e.made
      /\ e.done \in 0..MaxMessages /\ e.live \in 0..MaxMessages /\ e.busy \in BOOLEAN
      /\ e.asked \in SUBSET Requests /\ e.made \in SUBSET Requests /\ MaxMessages \in Nat
  BY ViewAssumption DEF Possible, Agents
<1>2. CASE f = AgentStarts /\ ~e.busy /\ e2 = [e EXCEPT !.busy = TRUE]
  <2>1. e2 \in Agents /\ e2.busy
    BY <1>1, <1>2 DEF Agents
  <2>2. /\ e2.live = e.live /\ e2.done = e.done
        /\ e2.asked = e.asked /\ e2.made = e.made
    BY <1>1, <1>2 DEF Agents
  <2>3. QED
    BY <1>2, <2>1, <2>2 DEF ViewFrames
<1>3. CASE /\ e.live = 0 /\ e.done < MaxMessages /\ f = Message(e.done + 1, "start")
           /\ e2 = [e EXCEPT !.live = e.done + 1]
  <2>1. e.done + 1 \in 1..MaxMessages /\ e.done + 1 \in 0..MaxMessages
    BY <1>1, <1>3
  <2>2. e2 \in Agents /\ e2.live = e.done + 1
    BY <1>1, <1>3, <2>1 DEF Agents
  <2>3. /\ e2.busy = e.busy /\ e2.done = e.done
        /\ e2.asked = e.asked /\ e2.made = e.made
    BY <1>1, <1>3 DEF Agents
  <2>4. f \in ViewFrames
    BY <1>3, <2>1 DEF ViewFrames, MessageFrames
  <2>5. QED
    BY <1>3, <2>1, <2>2, <2>3, <2>4
<1>4. CASE /\ e.live # 0 /\ f = Message(e.live, "end")
           /\ e2 = [e EXCEPT !.live = 0, !.done = e.done + 1]
  <2>1. /\ e.live = e.done + 1 /\ e.live \in 1..MaxMessages /\ e.done + 1 \in 0..MaxMessages
        /\ 0 \in 0..MaxMessages
    BY <1>1, <1>4
  <2>2. e2 \in Agents /\ e2.live = 0 /\ e2.done = e.done + 1
    BY <1>1, <1>4, <2>1 DEF Agents
  <2>3. e2.busy = e.busy /\ e2.asked = e.asked /\ e2.made = e.made
    BY <1>1, <1>4 DEF Agents
  <2>4. f \in ViewFrames
    BY <1>4, <2>1 DEF ViewFrames, MessageFrames
  <2>5. QED
    BY <1>4, <2>1, <2>2, <2>3, <2>4
<1>5. CASE f \in TurnOver /\ e2 = [e EXCEPT !.busy = FALSE]
  <2>1. e2 \in Agents /\ ~e2.busy
    BY <1>1, <1>5 DEF Agents
  <2>2. e2.live = e.live /\ e2.done = e.done /\ e2.asked = e.asked /\ e2.made = e.made
    BY <1>1, <1>5 DEF Agents
  <2>3. QED
    BY <1>5, <2>1, <2>2, TurnKinds DEF ViewFrames
<1>6. ASSUME NEW r \in Requests, r \notin e.made, f = Asks(r),
             e2 = Asked(e, r)
      PROVE  /\ e2 \in Agents /\ f \in ViewFrames
             /\ e2.busy = e.busy /\ e2.live = e.live /\ e2.done = e.done
             /\ e2.asked = e.asked \cup {r} /\ e2.made = e.made \cup {r}
  <2>1. e2 \in Agents /\ e2.asked = e.asked \cup {r} /\ e2.made = e.made \cup {r}
    BY <1>1, <1>6 DEF Agents, Asked
  <2>2. e2.busy = e.busy /\ e2.live = e.live /\ e2.done = e.done
    BY <1>1, <1>6 DEF Agents, Asked
  <2>3. QED
    BY <1>6, <2>1, <2>2 DEF ViewFrames, AskFrames
<1>7. ASSUME NEW r \in e.asked, f = Cancels(r), e2 = [e EXCEPT !.asked = e.asked \ {r}]
      PROVE  /\ e2 \in Agents /\ f \in ViewFrames /\ r \in Requests
             /\ e2.busy = e.busy /\ e2.live = e.live /\ e2.done = e.done
             /\ e2.asked = e.asked \ {r} /\ e2.made = e.made
  <2>1. e2 \in Agents /\ e2.asked = e.asked \ {r} /\ e2.made = e.made
    BY <1>1, <1>7 DEF Agents
  <2>2. e2.busy = e.busy /\ e2.live = e.live /\ e2.done = e.done
    BY <1>1, <1>7 DEF Agents
  <2>3. QED
    BY <1>1, <1>7, <2>1, <2>2 DEF ViewFrames, CancelFrames
<1>8. CASE /\ e2 = e
           /\ f \in StatesOf(e) \cup Histories(e.done) \cup BusyFrames
  <2>1. f \in StatesOf(e) => f \in StateFrames
    BY StatesAnswered
  <2>2. f \in Histories(e.done) => f \in HistoryFrames
    BY <1>1 DEF HistoryFrames
  <2>3. f \in ViewFrames
    BY <1>8, <2>1, <2>2 DEF ViewFrames, ResponseFrames
  <2>4. QED
    BY <1>1, <1>8, <2>3
<1>9. CASE \E r \in Requests :
             /\ r \notin e.made /\ f = Asks(r)
             /\ e2 = Asked(e, r)
  <2>1. PICK r \in Requests :
          /\ r \notin e.made /\ f = Asks(r)
          /\ e2 = Asked(e, r)
    BY <1>9
  <2>2. /\ e2 \in Agents /\ f \in ViewFrames
        /\ e2.busy = e.busy /\ e2.live = e.live /\ e2.done = e.done
        /\ e2.asked = e.asked \cup {r} /\ e2.made = e.made \cup {r}
    BY <1>6, <2>1
  <2>3. QED
    BY <2>1, <2>2
<1>10. CASE \E r \in e.asked : f = Cancels(r) /\ e2 = [e EXCEPT !.asked = e.asked \ {r}]
  <2>1. PICK r \in e.asked : f = Cancels(r) /\ e2 = [e EXCEPT !.asked = e.asked \ {r}]
    BY <1>10
  <2>2. /\ e2 \in Agents /\ f \in ViewFrames /\ r \in Requests
        /\ e2.busy = e.busy /\ e2.live = e.live /\ e2.done = e.done
        /\ e2.asked = e.asked \ {r} /\ e2.made = e.made
    BY <1>7, <2>1
  <2>3. QED
    BY <2>1, <2>2
<1>11. CASE f = TurnStarts /\ e2 = e
  BY <1>1, <1>11 DEF ViewFrames
<1>12. QED
  BY <1>2, <1>3, <1>4, <1>5, <1>8, <1>9, <1>10, <1>11, Zenon DEF Tells

\* An end that followed in s follows when more is appended, and one that is appended
\* follows all of s.
LEMMA EndsAppended ==
  ASSUME NEW s \in Seq(ViewFrames), NEW f \in ViewFrames, NEW m
  PROVE  /\ \A i \in DOMAIN s : EndsAfter(s, i, m) => EndsAfter(Append(s, f), i, m)
         /\ f = Message(m, "end") => \A i \in DOMAIN s : EndsAfter(Append(s, f), i, m)
<1> DEFINE t == Append(s, f)
<1>1. /\ Len(s) \in Nat /\ DOMAIN s = 1..Len(s) /\ DOMAIN t = 1..(Len(s) + 1)
      /\ t[Len(s) + 1] = f /\ \A i \in 1..Len(s) : t[i] = s[i]
  BY Appended
<1> HIDE DEF t
<1>2. \A i \in DOMAIN s : i \in DOMAIN t /\ Len(s) + 1 > i /\ Len(s) + 1 \in DOMAIN t
  BY <1>1
<1>3. \A i \in DOMAIN s : EndsAfter(s, i, m) => EndsAfter(t, i, m)
  BY <1>1, <1>2 DEF EndsAfter
<1>4. f = Message(m, "end") => \A i \in DOMAIN s : EndsAfter(t, i, m)
  BY <1>1, <1>2 DEF EndsAfter
<1>5. QED
  BY <1>3, <1>4 DEF t

\* What a history brings says how long it is.
LEMMA HistoryLength ==
  ASSUME NEW m \in Nat, NEW n \in Nat, NEW f \in Histories(m), f \in Histories(n)
  PROVE  m = n
<1>1. f.messages = Upto(m)
  BY HistoryFrame
<1>2. f.messages = Upto(n)
  BY HistoryFrame
<1>3. Len(Upto(m)) = m /\ Len(Upto(n)) = n
  BY UptoFacts
<1>4. QED
  BY <1>1, <1>2, <1>3

\* What OMP writes next, part by part.
LEMMA Speaking ==
  ASSUME NEW e, Possible(e), NEW e2, NEW f, Tells(e, e2, f)
  PROVE  /\ e2 \in Agents /\ f \in ViewFrames
         /\ e.done \in 0..MaxMessages /\ e.live \in 0..MaxMessages
         /\ e.live \in {0, e.done + 1} /\ e.asked \subseteq e.made /\ MaxMessages \in Nat
         /\ e2.done \in 0..MaxMessages /\ e2.live \in 0..MaxMessages
         /\ \/ e2.done = e.done /\ \A m \in 1..MaxMessages : f # Message(m, "end")
            \/ /\ e.live = e.done + 1 /\ e2.done = e.done + 1 /\ e2.live = 0
               /\ f = Message(e.live, "end")
         /\ \/ \A m \in 1..MaxMessages : f # Message(m, "start")
            \/ /\ e.live = 0 /\ e2.live = e.done + 1 /\ e2.done = e.done
               /\ f = Message(e2.live, "start")
         /\ e2.live = e.live \/ e.live = 0 \/ f = Message(e.live, "end")
         /\ f \in MessageFrames => \/ f = Message(e.done + 1, "start") /\ e.live = 0
                                   \/ f = Message(e.done + 1, "end") /\ e.live = e.done + 1
         /\ \A n \in 0..MaxMessages : f \in Histories(n) => n = e.done /\ e2 = e
         /\ \/ e2.asked = e.asked /\ e2.made = e.made /\ \A r \in Requests : f # Cancels(r)
            \/ \E r \in Requests : /\ r \notin e.made /\ f = Asks(r)
                                   /\ e2.asked = e.asked \cup {r} /\ e2.made = e.made \cup {r}
            \/ \E r \in Requests : /\ r \in e.asked /\ f = Cancels(r)
                                   /\ e2.asked = e.asked \ {r} /\ e2.made = e.made
<1>1. e2 \in Agents /\ f \in ViewFrames
  BY Telling
<1>5. /\ e.done \in 0..MaxMessages /\ e.live \in 0..MaxMessages /\ e.live \in {0, e.done + 1}
      /\ e2.done \in 0..MaxMessages /\ e2.live \in 0..MaxMessages /\ MaxMessages \in Nat
      /\ e.asked \subseteq e.made
  BY <1>1, ViewAssumption DEF Possible, Agents
<1>6. /\ \/ e2.done = e.done /\ \A m \in 1..MaxMessages : f # Message(m, "end")
         \/ /\ e.live = e.done + 1 /\ e2.done = e.done + 1 /\ e2.live = 0
            /\ f = Message(e.live, "end")
      /\ \/ \A m \in 1..MaxMessages : f # Message(m, "start")
         \/ /\ e.live = 0 /\ e2.live = e.done + 1 /\ e2.done = e.done
            /\ f = Message(e2.live, "start")
      /\ e2.live = e.live \/ e.live = 0 \/ f = Message(e.live, "end")
      /\ f \in MessageFrames => \/ f = Message(e.done + 1, "start") /\ e.live = 0
                                \/ f = Message(e.done + 1, "end") /\ e.live = e.done + 1
      /\ \A n \in 0..MaxMessages : f \in Histories(n) => n = e.done /\ e2 = e
      /\ \/ e2.asked = e.asked /\ e2.made = e.made /\ \A r \in Requests : f # Cancels(r)
         \/ \E r \in Requests : /\ r \notin e.made /\ f = Asks(r)
                                /\ e2.asked = e.asked \cup {r} /\ e2.made = e.made \cup {r}
         \/ \E r \in Requests : /\ r \in e.asked /\ f = Cancels(r)
                                /\ e2.asked = e.asked \ {r} /\ e2.made = e.made
  <2>1. \A m, phase : Message(m, phase).type = "message"
    BY MessageSame
  <2>2. /\ AgentStarts.type = "agent_start" /\ TurnStarts.type = "turn_start"
        /\ \A g \in TurnOver : g.type \in {"agent_end", "prompt_result"}
    BY TurnKinds
  <2>14. \A g \in StatesOf(e) : g.type = "response" /\ g.command = "get_state"
    BY StatesAnswered
  <2>3. \A r : /\ Asks(r).type = "extension_ui_request"
               /\ Cancels(r).type = "extension_ui_request" /\ Asks(r) # Cancels(r)
    BY RequestFrame
  <2>4. f \in MessageFrames => f.type = "message"
    BY MessageFrame
  <2>5. \A n \in 0..MaxMessages : f \in Histories(n) => f.type = "response"
    BY HistoryFrame
  <2>6. \A n \in 0..MaxMessages : f \in Histories(n) /\ f \in Histories(e.done) => n = e.done
    BY <1>5, HistoryLength
  <2>7. CASE f \in {AgentStarts, TurnStarts} \/ f \in TurnOver
    <3>1. /\ e2.live = e.live /\ e2.done = e.done /\ e2.asked = e.asked /\ e2.made = e.made
      BY <2>1, <2>2, <2>3, <2>5, <2>7, Telling
    <3>2. QED
      BY <2>1, <2>2, <2>3, <2>4, <2>5, <2>7, <3>1
  <2>10. CASE f.type = "message"
    <3>1. \/ /\ e.live = 0 /\ f = Message(e.done + 1, "start") /\ e2.live = e.done + 1
             /\ e2.done = e.done /\ e2.asked = e.asked /\ e2.made = e.made
          \/ /\ e.live = e.done + 1 /\ f = Message(e.live, "end") /\ e2.live = 0
             /\ e2.done = e.done + 1 /\ e2.asked = e.asked /\ e2.made = e.made
      <4>1. f \notin StatesOf(e) \cup Histories(e.done) \cup BusyFrames
        <5>1. \A g \in StatesOf(e) : g.type = "response"
          BY <2>14
        <5>2. f \in BusyFrames => f.type = "response"
          BY BusyFrame
        <5>3. f \in Histories(e.done) => f.type = "response"
          BY <1>5, <2>5
        <5>4. QED
          BY <2>10, <5>1, <5>2, <5>3
      <4>2. QED
        BY <2>2, <2>3, <2>10, <4>1, Telling
    <3>2. \A m, n, p, q : Message(m, p) = Message(n, q) <=> m = n /\ p = q
      BY MessageSame
    <3>3. /\ \A r \in Requests : f # Cancels(r)
          /\ \A n \in 0..MaxMessages : f \notin Histories(n)
      BY <2>3, <2>5, <2>10
    <3>4. CASE f = Message(e.done + 1, "start")
      <4>1. /\ e.live = 0 /\ e2.live = e.done + 1
            /\ e2.done = e.done /\ e2.asked = e.asked /\ e2.made = e.made
        BY <3>1, <3>2, <3>4
      <4>2. \A m \in 1..MaxMessages : f # Message(m, "end")
        BY <3>2, <3>4
      <4>3. QED
        BY <3>3, <3>4, <4>1, <4>2
    <3>5. CASE e.live = e.done + 1 /\ f = Message(e.live, "end")
      <4>1. /\ e2.live = 0 /\ e2.done = e.done + 1 /\ e2.asked = e.asked /\ e2.made = e.made
        BY <3>1, <3>2, <3>5
      <4>2. \A m \in 1..MaxMessages : f # Message(m, "start")
        BY <3>2, <3>5
      <4>3. QED
        BY <3>3, <3>5, <4>1, <4>2
    <3>6. QED
      BY <3>1, <3>4, <3>5
  <2>11. CASE f.type = "extension_ui_request"
    <3>1. /\ e2.live = e.live /\ e2.done = e.done
          /\ \E r \in Requests :
               \/ /\ r \notin e.made /\ f = Asks(r)
                  /\ e2.asked = e.asked \cup {r} /\ e2.made = e.made \cup {r}
               \/ /\ r \in e.asked /\ f = Cancels(r)
                  /\ e2.asked = e.asked \ {r} /\ e2.made = e.made
      <4>1. f \notin StatesOf(e) \cup Histories(e.done) \cup BusyFrames
        <5>1. \A g \in StatesOf(e) : g.type = "response"
          BY <2>14
        <5>2. f \in BusyFrames => f.type = "response"
          BY BusyFrame
        <5>3. f \in Histories(e.done) => f.type = "response"
          BY <1>5, <2>5
        <5>4. QED
          BY <2>11, <5>1, <5>2, <5>3
      <4>2. QED
        BY <2>1, <2>2, <2>11, <4>1, Telling
    <3>2. /\ \A m, phase : f # Message(m, phase)
          /\ f \notin MessageFrames
          /\ \A n \in 0..MaxMessages : f \notin Histories(n)
      BY <2>1, <2>4, <2>5, <2>11
    <3>3. QED
      BY <3>1, <3>2
  <2>12. CASE f.type = "response"
    <3>1. /\ e2 = e
          /\ f \in StatesOf(e) \cup Histories(e.done) \cup BusyFrames
      BY <2>1, <2>2, <2>3, <2>12, Telling
    <3>2. /\ \A m, phase : f # Message(m, phase)
          /\ f \notin MessageFrames /\ \A r \in Requests : f # Cancels(r)
      BY <2>1, <2>3, <2>4, <2>12
    <3>3. \A n \in 0..MaxMessages : f \in Histories(n) => n = e.done
      <4>1. \A g \in StatesOf(e) : g.command = "get_state"
        BY <2>14
      <4>2. \A n \in 0..MaxMessages :
              f \in Histories(n) => f.command # "get_state" /\ f \in HistoryFrames
        BY HistoryFrame DEF HistoryFrames
      <4>3. f \in BusyFrames => f \notin HistoryFrames
        BY ResponseKinds DEF ResponseFrames
      <4>4. QED
        BY <2>6, <3>1, <4>1, <4>2, <4>3
    <3>4. QED
      BY <3>1, <3>2, <3>3
  <2>13. QED
    BY <1>1, <2>2, <2>7, <2>10, <2>11, <2>12, FrameKinds
<1>7. QED
  BY <1>1, <1>5, <1>6

\* What OMP writes next keeps what it wrote in order.
LEMMA OrderlyAppend ==
  ASSUME NEW s \in Seq(ViewFrames), NEW e, Possible(e), NEW e2, NEW f, Tells(e, e2, f),
         Orderly(s, e)
  PROVE  Orderly(Append(s, f), e2)
<1> DEFINE t == Append(s, f)
<1>1. e2 \in Agents /\ f \in ViewFrames
  BY Telling
<1>2. /\ Len(s) \in Nat /\ DOMAIN s = 1..Len(s) /\ DOMAIN t = 1..(Len(s) + 1)
      /\ t[Len(s) + 1] = f /\ \A i \in 1..Len(s) : t[i] = s[i]
      /\ Range(t) = Range(s) \cup {f}
  BY <1>1, Appended
<1>3. \A m : /\ \A i \in DOMAIN s : EndsAfter(s, i, m) => EndsAfter(t, i, m)
             /\ f = Message(m, "end") => \A i \in DOMAIN s : EndsAfter(t, i, m)
  <2>1. TAKE m
  <2>2. QED
    BY <1>1, EndsAppended
<1> HIDE DEF t
<1>4. \A i \in DOMAIN t : i = Len(s) + 1 \/ i \in DOMAIN s
  BY <1>2
<1>5. /\ e.done \in 0..MaxMessages /\ e.live \in 0..MaxMessages /\ e.live \in {0, e.done + 1}
      /\ e2.done \in 0..MaxMessages /\ e2.live \in 0..MaxMessages /\ MaxMessages \in Nat
      /\ e.asked \subseteq e.made
  BY <1>1, ViewAssumption DEF Possible, Agents
<1>6. /\ \/ e2.done = e.done /\ \A m \in 1..MaxMessages : f # Message(m, "end")
         \/ /\ e.live = e.done + 1 /\ e2.done = e.done + 1 /\ e2.live = 0
            /\ f = Message(e.live, "end")
      /\ \/ \A m \in 1..MaxMessages : f # Message(m, "start")
         \/ /\ e.live = 0 /\ e2.live = e.done + 1 /\ e2.done = e.done
            /\ f = Message(e2.live, "start")
      /\ e2.live = e.live \/ e.live = 0 \/ f = Message(e.live, "end")
      /\ f \in MessageFrames => \/ f = Message(e.done + 1, "start") /\ e.live = 0
                                \/ f = Message(e.done + 1, "end") /\ e.live = e.done + 1
      /\ \A n \in 0..MaxMessages : f \in Histories(n) => n = e.done /\ e2 = e
      /\ \/ e2.asked = e.asked /\ e2.made = e.made /\ \A r \in Requests : f # Cancels(r)
         \/ \E r \in Requests : /\ r \notin e.made /\ f = Asks(r)
                                /\ e2.asked = e.asked \cup {r} /\ e2.made = e.made \cup {r}
         \/ \E r \in Requests : /\ r \in e.asked /\ f = Cancels(r)
                                /\ e2.asked = e.asked \ {r} /\ e2.made = e.made
  BY Speaking
<1>7. InOrder(t)
  <2>1. SUFFICES ASSUME NEW i \in DOMAIN t, NEW j \in DOMAIN t, i < j,
                        t[i] \in MessageFrames, t[j] \in MessageFrames
                 PROVE  Precedes(t[i], t[j])
    BY DEF InOrder
  <2>2. i \in DOMAIN s /\ t[i] = s[i]
    BY <1>2, <2>1
  <2>3. CASE j \in DOMAIN s
    BY <1>2, <2>1, <2>2, <2>3 DEF Orderly, InOrder
  <2>4. CASE j = Len(s) + 1
    <3> DEFINE m == t[i].message
               p == t[i].phase
    <3>1. m \in 1..MaxMessages /\ p \in {"start", "end"} /\ t[i] = Message(m, p)
      BY <2>1, MessageFrame
    <3> HIDE DEF m, p
    <3>2. Message(m, p) \in Range(s)
      BY <2>2, <3>1 DEF Range
    <3>3. (p = "end" => m <= e.done) /\ (p = "start" => m <= e.done \/ m = e.live)
      BY <3>1, <3>2 DEF Orderly, Spoken
    <3>4. t[j] = f /\ f \in MessageFrames
      BY <1>2, <2>1, <2>4
    <3>5. Message(m, p).message = m /\ Message(m, p).phase = p
      BY MessageSame
    <3>6. /\ \A q, x : Message(q, x).message = q /\ Message(q, x).phase = x
      BY MessageSame
    <3>7. CASE f = Message(e.done + 1, "start") /\ e.live = 0
      BY <1>5, <3>1, <3>3, <3>4, <3>6, <3>7 DEF Precedes
    <3>8. CASE f = Message(e.done + 1, "end") /\ e.live = e.done + 1
      BY <1>5, <3>1, <3>3, <3>4, <3>6, <3>8 DEF Precedes
    <3>9. QED
      BY <1>6, <3>4, <3>7, <3>8
  <2>5. QED
    BY <1>4, <2>3, <2>4
<1>8. Ended(t, e2)
  <2>1. SUFFICES ASSUME NEW i \in DOMAIN t, NEW m \in 1..MaxMessages, t[i] = Message(m, "start")
                 PROVE  m = e2.live \/ EndsAfter(t, i, m)
    BY DEF Ended
  <2>2. CASE i \in DOMAIN s
    <3>1. m = e.live \/ EndsAfter(s, i, m)
      BY <1>2, <2>1, <2>2 DEF Orderly, Ended
    <3>2. m = e.live => m = e2.live \/ f = Message(m, "end")
      BY <1>5, <1>6
    <3>3. QED
      BY <1>3, <2>2, <3>1, <3>2
  <2>3. CASE i = Len(s) + 1
    <3>1. f = Message(m, "start")
      BY <1>2, <2>1, <2>3
    <3>2. f = Message(e2.live, "start")
      BY <1>6, <3>1
    <3>3. QED
      BY <3>1, <3>2, MessageSame
  <2>4. QED
    BY <1>4, <2>2, <2>3
<1>9. Spoken(t, e2)
  <2>1. SUFFICES ASSUME NEW m \in 1..MaxMessages
                 PROVE  /\ Message(m, "end") \in Range(t) => m <= e2.done
                        /\ Message(m, "start") \in Range(t) => m <= e2.done \/ m = e2.live
    BY DEF Spoken
  <2>2. /\ Message(m, "end") \in Range(s) => m <= e.done
        /\ Message(m, "start") \in Range(s) => m <= e.done \/ m = e.live
    BY DEF Orderly, Spoken
  <2>3. e.done <= e2.done /\ (m = e.live => m = e2.live \/ m <= e2.done)
    <3>1. f = Message(e.live, "end") /\ m = e.live => m <= e2.done
      <4>1. SUFFICES ASSUME f = Message(e.live, "end"), m = e.live PROVE m <= e2.done
        OBVIOUS
      <4>2. e2.done = e.done + 1 /\ e.live = e.done + 1
        BY <1>6, <4>1
      <4>3. QED
        BY <1>5, <4>1, <4>2
    <3>2. e.done <= e2.done
      BY <1>5, <1>6
    <3>3. QED
      BY <1>5, <1>6, <3>1, <3>2
  <2>4. f = Message(m, "end") => m <= e2.done
    <3>1. SUFFICES ASSUME f = Message(m, "end") PROVE m <= e2.done
      OBVIOUS
    <3>2. e.live = e.done + 1 /\ e2.done = e.done + 1 /\ f = Message(e.live, "end")
      BY <1>6, <3>1
    <3>3. m = e.live
      BY <3>1, <3>2, MessageSame
    <3>4. QED
      BY <1>5, <3>2, <3>3
  <2>5. f = Message(m, "start") => m = e2.live
    <3>1. SUFFICES ASSUME f = Message(m, "start") PROVE m = e2.live
      OBVIOUS
    <3>2. f = Message(e2.live, "start")
      BY <1>6, <3>1
    <3>3. QED
      BY <3>1, <3>2, MessageSame
  <2>6. QED
    BY <1>2, <1>5, <2>2, <2>3, <2>4, <2>5
<1>10. Told(t, e2)
  <2>1. SUFFICES ASSUME NEW i \in DOMAIN t, NEW n \in 0..MaxMessages, t[i] \in Histories(n)
                 PROVE  n <= e2.done /\ \A m \in (n + 1)..e2.done : EndsAfter(t, i, m)
    BY DEF Told
  <2>2. CASE i \in DOMAIN s
    <3>1. n <= e.done /\ \A m \in (n + 1)..e.done : EndsAfter(s, i, m)
      BY <1>2, <2>1, <2>2 DEF Orderly, Told
    <3>2. \A m \in (n + 1)..e.done : EndsAfter(t, i, m)
      BY <1>3, <2>2, <3>1
    <3>3. CASE e2.done = e.done
      BY <3>1, <3>2, <3>3
    <3>4. CASE e2.done = e.done + 1 /\ f = Message(e.done + 1, "end")
      <4>1. EndsAfter(t, i, e.done + 1)
        BY <1>3, <2>2, <3>4
      <4>2. \A m \in (n + 1)..e2.done : m \in (n + 1)..e.done \/ m = e.done + 1
        BY <1>5, <3>4
      <4>3. n <= e2.done
        BY <1>5, <3>1, <3>4
      <4>4. QED
        BY <3>2, <4>1, <4>2, <4>3
    <3>5. QED
      BY <1>6, <3>3, <3>4
  <2>3. CASE i = Len(s) + 1
    <3>1. n = e.done /\ e2 = e
      BY <1>2, <1>6, <2>1, <2>3
    <3>2. \A m : m \notin (n + 1)..e2.done
      BY <1>5, <3>1
    <3>3. QED
      BY <1>5, <3>1, <3>2
  <2>4. QED
    BY <1>4, <2>2, <2>3
<1>11. Settled(t, e2)
  <2>1. SUFFICES ASSUME NEW r \in Requests, Cancels(r) \in Range(t)
                 PROVE  r \in e2.made \ e2.asked
    BY DEF Settled
  <2>2. Cancels(r) \in Range(s) => r \in e.made \ e.asked
    BY DEF Orderly, Settled
  <2>3. \A x : /\ Cancels(x) = Cancels(r) => x = r
               /\ Asks(x) # Cancels(r)
    <3>1. \A x : Cancels(x).id = x /\ Asks(x).method # Cancels(r).method
      BY RequestFrame
    <3>2. QED
      BY <3>1
  <2>4. QED
    BY <1>2, <1>5, <1>6, <2>1, <2>2, <2>3
<1>12. QED
  BY <1>7, <1>8, <1>9, <1>10, <1>11 DEF Orderly, t

-----------------------------------------------------------------------------
(* Whether a turn runs. *)

\* Starts are no stops.
LEMMA StartNoStop == AgentStarts \notin Stops /\ TurnStarts \notin Stops
<1>1. \A r : State(FALSE, r).type = "response"
  BY DEF State
<1>2. QED
  BY <1>1, TurnKinds DEF Stops

\* A frame that is appended: a turn that ran goes on unless it stops it, and runs when
\* it starts one.
LEMMA RunsAppend ==
  ASSUME NEW s \in Seq(ViewFrames), NEW f \in ViewFrames, NEW before
  PROVE  /\ Runs(before, s) /\ f \notin Stops => Runs(before, Append(s, f))
         /\ f = AgentStarts => Runs(before, Append(s, f))
<1> DEFINE t == Append(s, f)
<1>1. /\ Len(s) \in Nat /\ DOMAIN s = 1..Len(s) /\ DOMAIN t = 1..(Len(s) + 1)
      /\ t[Len(s) + 1] = f /\ \A i \in 1..Len(s) : t[i] = s[i]
  BY Appended
<1> HIDE DEF t
<1>2. \A j \in DOMAIN t : j = Len(s) + 1 \/ j \in DOMAIN s
  BY <1>1
<1>3. \A i : f \notin Stops /\ NoStop(s, i) => NoStop(t, i)
  BY <1>1, <1>2 DEF NoStop
<1>4. \A i \in DOMAIN s : i \in DOMAIN t /\ t[i] = s[i]
  BY <1>1
<1>5. Runs(before, s) /\ f \notin Stops => Runs(before, t)
  BY <1>3, <1>4 DEF Runs
<1>6. f = AgentStarts => Runs(before, t)
  <2>1. Len(s) + 1 \in DOMAIN t /\ \A j \in DOMAIN t : ~(j > Len(s) + 1)
    BY <1>1
  <2>2. QED
    BY <1>1, <2>1 DEF Runs, NoStop
<1>7. QED
  BY <1>5, <1>6 DEF t

\* The first frame, when it is handled.
LEMMA RunsTail ==
  ASSUME NEW s \in Seq(ViewFrames), s # <<>>, NEW before, Runs(before, s), NEW after,
         s[1] = AgentStarts => after, before /\ s[1] \notin Stops => after
  PROVE  Runs(after, Tail(s))
<1> DEFINE t == Tail(s)
<1>1. /\ Len(s) \in Nat /\ Len(s) >= 1 /\ DOMAIN s = 1..Len(s)
      /\ DOMAIN t = 1..(Len(s) - 1) /\ \A i \in 1..(Len(s) - 1) : t[i] = s[i + 1]
  BY HeadAndTail
<1> HIDE DEF t
<1>2. ASSUME NEW i \in Nat, NoStop(s, i + 1) PROVE NoStop(t, i)
  <2>1. \A j \in DOMAIN t : j > i => j + 1 \in DOMAIN s /\ j + 1 > i + 1 /\ t[j] = s[j + 1]
    BY <1>1
  <2>2. QED
    BY <1>2, <2>1 DEF NoStop
<1>3. ASSUME NEW i \in DOMAIN s, s[i] = AgentStarts, NoStop(s, i), i # 1
      PROVE  Runs(after, t)
  <2>1. i - 1 \in DOMAIN t /\ i - 1 \in Nat /\ (i - 1) + 1 = i
    BY <1>1, <1>3
  <2>2. t[i - 1] = AgentStarts
    BY <1>1, <1>3, <2>1
  <2>3. NoStop(t, i - 1)
    BY <1>2, <1>3, <2>1
  <2>4. QED
    BY <2>1, <2>2, <2>3 DEF Runs
<1>4. ASSUME s[1] = AgentStarts, NoStop(s, 1) PROVE Runs(after, t)
  <2>1. NoStop(t, 0)
    BY <1>2, <1>4
  <2>2. QED
    BY <1>4, <2>1 DEF Runs
<1>5. ASSUME before, NoStop(s, 0) PROVE Runs(after, t)
  <2>1. 1 \in DOMAIN s /\ 1 > 0
    BY <1>1
  <2>2. s[1] \notin Stops /\ after
    BY <1>5, <2>1 DEF NoStop
  <2>3. NoStop(s, 1)
    BY <1>1, <1>5 DEF NoStop
  <2>4. NoStop(t, 0)
    BY <1>2, <2>3
  <2>5. QED
    BY <2>2, <2>4 DEF Runs
<1>6. Runs(after, t)
  <2>1. CASE \E i \in DOMAIN s : s[i] = AgentStarts /\ NoStop(s, i)
    BY <1>3, <1>4, <2>1
  <2>2. CASE before /\ NoStop(s, 0)
    BY <1>5, <2>2
  <2>3. QED
    BY <2>1, <2>2 DEF Runs
<1>7. QED
  BY <1>6 DEF t

\* What came before may be forgotten when a turn ran before it or it has no start.
LEMMA RunsBefore ==
  ASSUME NEW s \in Seq(ViewFrames), NEW t \in Seq(ViewFrames), NEW before, Runs(FALSE, t)
  PROVE  Runs(before, s \o t)
<1> DEFINE u == s \o t
<1>1. /\ Len(s) \in Nat /\ Len(t) \in Nat /\ DOMAIN t = 1..Len(t)
      /\ DOMAIN u = 1..(Len(s) + Len(t)) /\ \A i \in 1..Len(t) : u[Len(s) + i] = t[i]
  BY Joined
<1> HIDE DEF u
<1>2. PICK i \in DOMAIN t : t[i] = AgentStarts /\ NoStop(t, i)
  BY DEF Runs
<1>3. Len(s) + i \in DOMAIN u /\ u[Len(s) + i] = AgentStarts
  BY <1>1, <1>2
<1>4. NoStop(u, Len(s) + i)
  <2>1. SUFFICES ASSUME NEW j \in DOMAIN u, j > Len(s) + i PROVE u[j] \notin Stops
    BY DEF NoStop
  <2>2. j - Len(s) \in DOMAIN t /\ j - Len(s) > i /\ Len(s) + (j - Len(s)) = j
    BY <1>1, <2>1
  <2>3. u[j] = t[j - Len(s)]
    BY <1>1, <2>2
  <2>4. QED
    BY <1>2, <2>2, <2>3 DEF NoStop
<1>5. Runs(before, u)
  BY <1>3, <1>4 DEF Runs
<1>6. QED
  BY <1>5 DEF u

\* What stops no turn may be put between.
LEMMA RunsBetween ==
  ASSUME NEW s \in Seq(ViewFrames), NEW t \in Seq(ViewFrames), NEW asks \in Seq(AskFrames),
         NEW before, Runs(FALSE, s \o t)
  PROVE  Runs(before, (s \o asks) \o t)
<1> DEFINE u == s \o t
           w == s \o asks
           v == w \o t
           a == Len(s)
           b == Len(asks)
           c == Len(t)
<1>1. asks \in Seq(ViewFrames)
  BY SeqMonotonic DEF ViewFrames
<1>2. /\ a \in Nat /\ b \in Nat /\ c \in Nat /\ DOMAIN u = 1..(a + c)
      /\ \A i \in 1..a : u[i] = s[i]
      /\ \A i \in 1..c : u[a + i] = t[i]
  BY Joined
<1>3. /\ w \in Seq(ViewFrames) /\ Len(w) = a + b
      /\ \A i \in 1..a : w[i] = s[i]
      /\ \A i \in 1..b : w[a + i] = asks[i]
  BY <1>1, Joined
<1>4. /\ DOMAIN v = 1..((a + b) + c)
      /\ \A i \in 1..(a + b) : v[i] = w[i]
      /\ \A i \in 1..c : v[(a + b) + i] = t[i]
  <2>1. ASSUME NEW x \in Seq(ViewFrames)
        PROVE  /\ DOMAIN (x \o t) = 1..(Len(x) + Len(t))
               /\ \A i \in 1..Len(x) : (x \o t)[i] = x[i]
               /\ \A i \in 1..Len(t) : (x \o t)[Len(x) + i] = t[i]
    BY Joined
  <2> HIDE DEF w
  <2>2. /\ DOMAIN (w \o t) = 1..(Len(w) + Len(t))
        /\ \A i \in 1..Len(w) : (w \o t)[i] = w[i]
        /\ \A i \in 1..Len(t) : (w \o t)[Len(w) + i] = t[i]
    BY <1>3, <2>1
  <2>3. QED
    BY <1>3, <2>2
<1>5. \A i \in 1..b : asks[i] \in AskFrames
  OBVIOUS
<1>6. \A f \in AskFrames : f \notin Stops
  <2>1. \A f \in AskFrames : f.type = "extension_ui_request"
    BY RequestFrame
  <2>2. \A r : State(FALSE, r).type = "response"
    BY DEF State
  <2>3. \A f \in AskFrames : f \notin TurnOver
    BY <2>1, TurnKinds
  <2>4. QED
    BY <2>1, <2>2, <2>3 DEF Stops
<1>7. PICK i \in DOMAIN u : u[i] = AgentStarts /\ NoStop(u, i)
  BY DEF Runs
<1> HIDE DEF u, v, w, a, b, c
<1>12. a \in Nat /\ b \in Nat /\ c \in Nat
  BY <1>2
<1>13. DOMAIN u = 1..(a + c) /\ DOMAIN v = 1..((a + b) + c)
  BY <1>2, <1>4
\* A frame of v after the first a is a request or one of t.
<1>8. ASSUME NEW j \in DOMAIN v
      PROVE  \/ j \in 1..a /\ v[j] = u[j]
             \/ j \in (a + 1)..(a + b) /\ v[j] \notin Stops
             \/ j - b \in (a + 1)..(a + c) /\ v[j] = u[j - b]
  <2>1. j \in 1..((a + b) + c)
    BY <1>4
  <2>2. CASE j \in 1..a
    <3>1. j \in 1..(a + b)
      BY <1>2, <2>2
    <3>2. QED
      BY <1>2, <1>3, <1>4, <2>2, <3>1
  <2>3. CASE j \in (a + 1)..(a + b)
    <3>1. j \in 1..(a + b) /\ j - a \in 1..b /\ a + (j - a) = j
      BY <1>12, <2>3
    <3>2. v[j] = asks[j - a]
      BY <1>3, <1>4, <3>1
    <3>3. QED
      BY <1>5, <1>6, <2>3, <3>1, <3>2
  <2>4. CASE j \in ((a + b) + 1)..((a + b) + c)
    <3>1. /\ j - (a + b) \in 1..c /\ (a + b) + (j - (a + b)) = j
          /\ a + (j - (a + b)) = j - b /\ j - b \in (a + 1)..(a + c)
      <4>1. \A p, q, r \in Nat : \A x \in ((p + q) + 1)..((p + q) + r) :
              /\ x - (p + q) \in 1..r /\ (p + q) + (x - (p + q)) = x
              /\ p + (x - (p + q)) = x - q /\ x - q \in (p + 1)..(p + r)
        OBVIOUS
      <4>2. QED
        BY <1>12, <2>4, <4>1
    <3>2. v[j] = t[j - (a + b)]
      BY <1>4, <3>1
    <3>3. u[j - b] = t[j - (a + b)]
      BY <1>2, <3>1
    <3>4. QED
      BY <3>1, <3>2, <3>3
  <2>5. QED
    BY <1>2, <2>1, <2>2, <2>3, <2>4
<1>9. CASE i \in 1..a
  <2>1. i \in DOMAIN v /\ v[i] = AgentStarts
    <3>1. i \in DOMAIN v /\ ~(i \in (a + 1)..(a + b)) /\ ~(i - b \in (a + 1)..(a + c))
      BY <1>9, <1>12, <1>13
    <3>2. QED
      BY <1>7, <1>8, <3>1
  <2>2. NoStop(v, i)
    <3>1. SUFFICES ASSUME NEW j \in DOMAIN v, j > i PROVE v[j] \notin Stops
      BY DEF NoStop
    <3>2. \A k \in DOMAIN u : k > i => u[k] \notin Stops
      BY <1>7 DEF NoStop
    <3>3. j \in 1..a => j \in DOMAIN u
      BY <1>2
    <3>4. j - b \in (a + 1)..(a + c) => j - b \in DOMAIN u /\ j - b > i
      BY <1>2, <1>9
    <3>5. QED
      BY <1>8, <3>1, <3>2, <3>3, <3>4
  <2>3. QED
    BY <2>1, <2>2 DEF Runs, v, w
<1>10. CASE i \in (a + 1)..(a + c)
  <2>1. i + b \in DOMAIN v /\ v[i + b] = AgentStarts
    <3>1. /\ i + b \in DOMAIN v /\ ~(i + b \in 1..a) /\ ~(i + b \in (a + 1)..(a + b))
          /\ (i + b) - b = i
      BY <1>10, <1>12, <1>13
    <3>2. QED
      BY <1>7, <1>8, <3>1
  <2>2. NoStop(v, i + b)
    <3>1. SUFFICES ASSUME NEW j \in DOMAIN v, j > i + b PROVE v[j] \notin Stops
      BY DEF NoStop
    <3>2. \A k \in DOMAIN u : k > i => u[k] \notin Stops
      BY <1>7 DEF NoStop
    <3>3. ~(j \in 1..a) /\ ~(j \in (a + 1)..(a + b))
      BY <1>10, <1>12, <1>13, <3>1
    <3>4. j - b \in (a + 1)..(a + c) => j - b \in DOMAIN u /\ j - b > i
      BY <1>10, <1>12, <1>13, <3>1
    <3>5. QED
      BY <1>8, <3>2, <3>3, <3>4
  <2>3. QED
    BY <2>1, <2>2 DEF Runs, v, w
<1>11. QED
  BY <1>2, <1>9, <1>10

\* What OMP writes next and its turn, and its requests.
LEMMA Turning ==
  ASSUME NEW e, Possible(e), NEW e2, NEW f, Tells(e, e2, f)
  PROVE  /\ e2.busy => f = AgentStarts \/ (e.busy /\ f \notin Stops)
         /\ \A r \in e2.asked : r \in e.asked \/ f = Asks(r)
<1>1. \A stop \in Stops :
        \/ stop.type \in {"agent_end", "prompt_result"}
        \/ /\ stop.type = "response" /\ stop.command = "get_state"
           /\ stop.isStreaming = FALSE
  <2>1. \A r : /\ State(FALSE, r).type = "response" /\ State(FALSE, r).command = "get_state"
               /\ State(FALSE, r).isStreaming = FALSE
    BY DEF State
  <2>2. QED
    BY <2>1, TurnKinds DEF Stops
<1>2. /\ AgentStarts.type = "agent_start" /\ TurnStarts.type = "turn_start"
      /\ \A g \in TurnOver : g.type \in {"agent_end", "prompt_result"}
  BY TurnKinds
<1>3. \A m, phase : Message(m, phase).type = "message"
  BY MessageSame
<1>4. \A r : /\ Asks(r).type = "extension_ui_request"
             /\ Cancels(r).type = "extension_ui_request"
  BY RequestFrame
<1>5. ASSUME f \in StatesOf(e) \cup Histories(e.done) \cup BusyFrames,
             e.busy
      PROVE  f \notin Stops
  <2>1. e.done \in 0..MaxMessages /\ e.busy \in BOOLEAN
    BY DEF Possible, Agents
  <2>2. CASE f \in StatesOf(e)
    <3>1. f.isStreaming = TRUE /\ f.type = "response"
      BY <1>5, <2>1, <2>2, StatesAnswered
    <3>2. QED
      BY <1>1, <3>1
  <2>3. CASE f \in Histories(e.done)
    <3>1. f.type = "response" /\ f.command # "get_state"
      BY <2>1, <2>3, HistoryFrame
    <3>2. QED
      BY <1>1, <1>2, <3>1
  <2>4. CASE f \in BusyFrames
    <3>1. f.type = "response" /\ f.command # "get_state"
      BY <2>4, BusyFrame
    <3>2. QED
      BY <1>1, <1>2, <3>1
  <2>5. QED
    BY <1>5, <2>2, <2>3, <2>4
<1>6. \A m, phase : Message(m, phase) \notin Stops
  BY <1>1, <1>2, <1>3
<1>7. \A r : Asks(r) \notin Stops /\ Cancels(r) \notin Stops
  BY <1>1, <1>2, <1>4
<1>10. \A g \in StatesOf(e) \cup Histories(e.done) \cup BusyFrames :
         g.type = "response"
  <2>2. e.done \in 0..MaxMessages /\ e.busy \in BOOLEAN
    BY DEF Possible, Agents
  <2>1. \A g \in StatesOf(e) : g.type = "response"
    BY StatesAnswered
  <2>3. \A g \in BusyFrames : g.type = "response"
    BY BusyFrame
  <2>4. \A g \in Histories(e.done) : g.type = "response"
    BY <2>2, HistoryFrame
  <2>5. QED
    BY <2>1, <2>3, <2>4
<1>8. e2.busy => f = AgentStarts \/ (e.busy /\ f \notin Stops)
  <2>1. SUFFICES ASSUME e2.busy, f # AgentStarts PROVE e.busy /\ f \notin Stops
    OBVIOUS
  <2>2. f \notin TurnOver
    BY <2>1, Telling, <1>2, <1>3, <1>4, <1>10
  <2>3. CASE f \in StatesOf(e) \cup Histories(e.done) \cup BusyFrames
    <3>1. e2 = e
      BY <1>2, <1>3, <1>4, <1>10, <2>3, Telling
    <3>2. QED
      BY <1>5, <2>1, <2>3, <3>1
  <2>4. CASE f \notin StatesOf(e) \cup Histories(e.done)
                       \cup BusyFrames
    <3>1. e.busy
      BY <2>1, <2>2, <2>4, Telling
    <3>2. f \notin Stops
      BY <1>6, <1>7, <2>1, <2>2, <2>4, StartNoStop, Telling
    <3>3. QED
      BY <2>1, <3>1, <3>2
  <2>5. QED
    BY <2>3, <2>4
<1>9. \A r \in e2.asked : r \in e.asked \/ f = Asks(r)
  BY Telling
<1>11. QED
  BY <1>8, <1>9

-----------------------------------------------------------------------------
(* The view. *)

\* The views, and those whose live message is one of theirs.
ViewsHere == Views(1..MaxMessages, Requests)
Placing(v) == v \in ViewsHere /\ v.live \in 0..Len(v.messages)

\* The fields of a view.
LEMMA ViewFields ==
  ASSUME NEW v \in ViewsHere
  PROVE  /\ v.messages \in Seq(1..MaxMessages) /\ v.live \in Nat /\ v.requests \in SUBSET Requests
         /\ v.streaming \in BOOLEAN
         /\ v.transport \in {"starting", "ready", "exited", "failed"}
         /\ v.parity \in {"pending", "passed", "failed"}
BY DEF ViewsHere, Views

\* n is what f makes of v.
Reduced(v, n, f) ==
  /\ Placing(n) /\ n.transport = v.transport /\ n.parity = v.parity
  /\ f \in MessageFrames =>
       /\ n.requests = v.requests /\ n.streaming = v.streaming
       /\ f.phase = "start" \/ v.live = 0 =>
            /\ n.messages = Append(v.messages, f.message)
            /\ n.live = IF f.phase = "end" THEN 0 ELSE Len(v.messages) + 1
       /\ f.phase = "end" /\ v.live # 0 =>
            n.messages = [v.messages EXCEPT ![v.live] = f.message] /\ n.live = 0
  /\ f \notin MessageFrames =>
       /\ n.requests = IF f \in AskFrames THEN v.requests \cup {f.id}
                       ELSE IF f \in CancelFrames THEN v.requests \ {f.id} ELSE v.requests
       /\ n.streaming = IF f \in {AgentStarts, TurnStarts} THEN TRUE
                        ELSE IF f \in TurnOver THEN FALSE
                        ELSE IF f \in StateFrames THEN f.isStreaming ELSE v.streaming
       /\ \/ n.messages = v.messages /\ n.live = v.live
          \/ f \in HistoryFrames /\ n.messages = f.messages /\ n.live = 0

\* What a frame of a message changes of the view.
LEMMA ReducedMessage ==
  ASSUME NEW v, Placing(v), NEW f \in MessageFrames, NEW n, n = ReduceRpcFrame(v, f)
  PROVE  /\ Placing(n)
         /\ n.requests = v.requests /\ n.streaming = v.streaming
         /\ n.transport = v.transport /\ n.parity = v.parity
         /\ f.phase = "start" \/ v.live = 0 =>
              /\ n.messages = Append(v.messages, f.message)
              /\ n.live = IF f.phase = "end" THEN 0 ELSE Len(v.messages) + 1
         /\ f.phase = "end" /\ v.live # 0 =>
              n.messages = [v.messages EXCEPT ![v.live] = f.message] /\ n.live = 0
<1>1. /\ f.type = "message" /\ f.message \in 1..MaxMessages /\ f.phase \in {"start", "end"}
  BY MessageFrame
<1>2. /\ v.messages \in Seq(1..MaxMessages) /\ v.live \in Nat /\ v \in ViewsHere
      /\ v.live \in 0..Len(v.messages) /\ v.live <= Len(v.messages) /\ Len(v.messages) \in Nat
  BY ViewFields DEF Placing
<1> DEFINE opens == f.phase = "start" \/ v.live = 0
           ms == IF opens THEN Append(v.messages, f.message)
                 ELSE [v.messages EXCEPT ![v.live] = f.message]
           l == IF f.phase = "end" THEN 0 ELSE IF opens THEN Len(ms) ELSE v.live
<1>3. n = [v EXCEPT !.messages = ms, !.live = l]
  <2>1. n = ReduceMessage(v, f.message, f.phase)
    BY <1>1 DEF ReduceRpcFrame
  <2>2. QED
    BY <2>1 DEF ReduceMessage
<1>4. /\ ms \in Seq(1..MaxMessages) /\ l \in Nat /\ l <= Len(ms)
      /\ opens => ms = Append(v.messages, f.message) /\ Len(ms) = Len(v.messages) + 1
      /\ ~opens => ms = [v.messages EXCEPT ![v.live] = f.message]
      /\ f.phase = "end" => l = 0
      /\ f.phase = "start" => l = Len(v.messages) + 1
  <2>1. CASE opens
    <3>1. ms = Append(v.messages, f.message)
      BY <2>1
    <3> HIDE DEF ms
    <3>4. /\ Append(v.messages, f.message) \in Seq(1..MaxMessages)
          /\ Len(Append(v.messages, f.message)) = Len(v.messages) + 1
      BY <1>1, <1>2, Appended
    <3>2. ms \in Seq(1..MaxMessages) /\ Len(ms) = Len(v.messages) + 1
      BY <3>1, <3>4
    <3>3. QED
      BY <1>1, <1>2, <2>1, <3>1, <3>2
  <2>2. CASE ~opens
    <3>1. ms = [v.messages EXCEPT ![v.live] = f.message]
      BY <2>2
    <3>2. v.live \in 1..Len(v.messages)
      BY <1>2, <2>2
    <3>4. f.phase = "end"
      BY <1>1, <2>2
    <3> HIDE DEF ms
    <3>6. /\ [v.messages EXCEPT ![v.live] = f.message] \in Seq(1..MaxMessages)
          /\ Len([v.messages EXCEPT ![v.live] = f.message]) = Len(v.messages)
      BY <1>1, <1>2, <3>2, ExceptSeq
    <3>3. ms \in Seq(1..MaxMessages) /\ Len(ms) = Len(v.messages)
      BY <3>1, <3>6
    <3>5. QED
      BY <1>1, <1>2, <2>2, <3>1, <3>3, <3>4
  <2>3. QED
    BY <2>1, <2>2
<1> HIDE DEF ms, l
<1>5. n \in ViewsHere /\ n.messages = ms /\ n.live = l
  BY <1>2, <1>3, <1>4 DEF ViewsHere, Views
<1>6. /\ n.requests = v.requests /\ n.streaming = v.streaming
      /\ n.transport = v.transport /\ n.parity = v.parity
  BY <1>2, <1>3 DEF ViewsHere, Views
<1>7. Placing(n)
  BY <1>4, <1>5 DEF Placing
<1>8. QED
  BY <1>1, <1>4, <1>5, <1>6, <1>7

\* What any other frame changes of it.
LEMMA ReducedOther ==
  ASSUME NEW v, Placing(v), NEW f \in ViewFrames, f \notin MessageFrames, NEW n,
         n = ReduceRpcFrame(v, f)
  PROVE  Reduced(v, n, f)
<1>0. SUFFICES /\ Placing(n)
               /\ n.transport = v.transport /\ n.parity = v.parity
               /\ n.requests = IF f \in AskFrames THEN v.requests \cup {f.id}
                               ELSE IF f \in CancelFrames THEN v.requests \ {f.id} ELSE v.requests
               /\ n.streaming = IF f \in {AgentStarts, TurnStarts} THEN TRUE
                                ELSE IF f \in TurnOver THEN FALSE
                                ELSE IF f \in StateFrames THEN f.isStreaming ELSE v.streaming
               /\ \/ n.messages = v.messages /\ n.live = v.live
                  \/ f \in HistoryFrames /\ n.messages = f.messages /\ n.live = 0
  BY DEF Reduced
<1>1. /\ v.messages \in Seq(1..MaxMessages) /\ v.live \in Nat /\ v \in ViewsHere
      /\ v.live \in 0..Len(v.messages) /\ v.requests \in SUBSET Requests
  BY ViewFields DEF Placing
<1>2. CASE f \in {AgentStarts, TurnStarts} \/ f \in TurnOver
  <2>1. f.type \in {"agent_start", "turn_start"} <=> f \in {AgentStarts, TurnStarts}
    BY FrameKinds
  <2>2. f.type \in {"agent_end", "prompt_result"} <=> f \in TurnOver
    BY FrameKinds
  <2>3. f \notin AskFrames /\ f \notin CancelFrames /\ f \notin StateFrames
    BY <1>2, <2>1, <2>2, FrameKinds, RequestFrame, StateFrame
  <2> DEFINE on == f \in {AgentStarts, TurnStarts}
  <2>4. n = [v EXCEPT !.streaming = on]
    <3>1. CASE on
      BY <2>1, <3>1 DEF ReduceRpcFrame
    <3>2. CASE f \in TurnOver
      <4>1. on = FALSE
        BY <3>2, TurnKinds
      <4>2. n = [v EXCEPT !.streaming = FALSE]
        BY <2>1, <2>2, <3>2, <4>1 DEF ReduceRpcFrame
      <4>3. QED
        BY <4>1, <4>2
    <3>3. QED
      BY <1>2, <3>1, <3>2
  <2>8. on \in BOOLEAN /\ (f \in TurnOver => ~on) /\ on = (f \in {AgentStarts, TurnStarts})
    BY TurnKinds
  <2> HIDE DEF on
  <2>5. /\ n \in ViewsHere /\ n.streaming = on /\ n.messages = v.messages
        /\ n.live = v.live /\ n.requests = v.requests
        /\ n.transport = v.transport /\ n.parity = v.parity
    BY <1>1, <2>4, <2>8 DEF ViewsHere, Views
  <2>6. Placing(n)
    BY <1>1, <2>5 DEF Placing
  <2>7. QED
    BY <1>2, <2>3, <2>5, <2>6, <2>8
<1>3. CASE f \in AskFrames \/ f \in CancelFrames
  <2>1. f.type = "extension_ui_request"
    BY <1>3, FrameKinds
  <2>2. f \notin {AgentStarts, TurnStarts} /\ f \notin TurnOver /\ f \notin StateFrames
    BY <2>1, FrameKinds, StateFrame
  <2>3. f.id \in Requests
    BY <1>3, RequestFrame
  <2>4. n = ReduceUiRequest(v, f)
    BY <2>1 DEF ReduceRpcFrame
  <2> DEFINE rs == IF f \in AskFrames THEN v.requests \cup {f.id} ELSE v.requests \ {f.id}
  <2>5. n = [v EXCEPT !.requests = rs]
    <3>1. f \in AskFrames <=> f.method # "cancel"
      BY <1>3, FrameKinds
    <3>2. QED
      BY <2>4, <3>1 DEF ReduceUiRequest
  <2>6. rs \in SUBSET Requests
    BY <1>1, <2>3
  <2>7. rs = IF f \in AskFrames THEN v.requests \cup {f.id}
             ELSE IF f \in CancelFrames THEN v.requests \ {f.id} ELSE v.requests
    BY <1>3
  <2> HIDE DEF rs
  <2>8. /\ n \in ViewsHere /\ n.streaming = v.streaming /\ n.messages = v.messages
        /\ n.live = v.live /\ n.requests = rs
        /\ n.transport = v.transport /\ n.parity = v.parity
    BY <1>1, <2>5, <2>6 DEF ViewsHere, Views
  <2>9. Placing(n)
    BY <1>1, <2>8 DEF Placing
  <2>10. QED
    BY <2>2, <2>7, <2>8, <2>9
<1>4. CASE f \in ResponseFrames
  <2>1. f.type = "response"
    BY <1>4, ResponseKinds
  <2>2. /\ f \notin {AgentStarts, TurnStarts} /\ f \notin TurnOver
        /\ f \notin AskFrames /\ f \notin CancelFrames
    BY <2>1, FrameKinds
  <2>3. n = ReduceResponse(v, f)
    BY <2>1 DEF ReduceRpcFrame
  <2>4. CASE f \in StateFrames
    <3>1. f.command = "get_state" /\ f.isStreaming \in BOOLEAN
      BY <2>4, StateFrame
    <3>2. n = [v EXCEPT !.streaming = f.isStreaming]
      BY <2>3, <3>1 DEF ReduceResponse
    <3>3. /\ n \in ViewsHere /\ n.streaming = f.isStreaming /\ n.messages = v.messages
          /\ n.live = v.live /\ n.requests = v.requests
          /\ n.transport = v.transport /\ n.parity = v.parity
      BY <1>1, <3>1, <3>2 DEF ViewsHere, Views
    <3>4. Placing(n)
      BY <1>1, <3>3 DEF Placing
    <3>5. QED
      BY <2>2, <2>4, <3>3, <3>4
  <2>5. CASE f \notin StateFrames
    <3>1. f.command # "get_state"
      BY <1>4, <2>5, ResponseKinds
    <3>2. CASE f.command = "get_messages"
      <4>1. f \in HistoryFrames
        BY <1>4, <3>2, ResponseKinds
      <4>2. PICK k \in 0..MaxMessages : f.messages = Upto(k)
        BY <1>4, <4>1, ResponseKinds
      <4>3. k \in Nat /\ k <= MaxMessages /\ MaxMessages \in Nat
        BY <4>2, ViewAssumption
      <4>4. f.messages \in Seq(1..MaxMessages)
        BY <4>2, <4>3, UptoFacts
      <4>5. n = [v EXCEPT !.messages = f.messages, !.live = 0]
        BY <2>3, <3>2 DEF ReduceResponse
      <4>6. n \in ViewsHere /\ n.messages = f.messages /\ n.live = 0
        <5> DEFINE ms == f.messages
        <5>1. n = [v EXCEPT !.messages = ms, !.live = 0] /\ ms \in Seq(1..MaxMessages) /\ 0 \in Nat
          BY <4>4, <4>5
        <5> HIDE DEF ms
        <5>2. n \in ViewsHere /\ n.messages = ms /\ n.live = 0
          BY <1>1, <5>1 DEF ViewsHere, Views
        <5>3. QED
          BY <5>2 DEF ms
      <4>7. /\ n.streaming = v.streaming /\ n.requests = v.requests
            /\ n.transport = v.transport /\ n.parity = v.parity
        BY <1>1, <4>5 DEF ViewsHere, Views
      <4>8. Placing(n)
        BY <4>4, <4>6 DEF Placing
      <4>9. QED
        BY <2>2, <2>5, <4>1, <4>6, <4>7, <4>8
    <3>3. CASE f.command # "get_messages"
      <4>1. n = v
        BY <2>3, <3>1, <3>3 DEF ReduceResponse
      <4>2. QED
        BY <2>2, <2>5, <4>1
    <3>4. QED
      BY <3>2, <3>3
  <2>6. QED
    BY <2>4, <2>5
<1>5. QED
  BY <1>2, <1>3, <1>4, FrameKinds

\* What a frame changes of the view.
LEMMA ReducedFrame ==
  ASSUME NEW v, Placing(v), NEW f \in ViewFrames, NEW n, n = ReduceRpcFrame(v, f)
  PROVE  Reduced(v, n, f)
<1>1. CASE f \in MessageFrames
  <2>1. /\ Placing(n)
        /\ n.requests = v.requests /\ n.streaming = v.streaming
        /\ n.transport = v.transport /\ n.parity = v.parity
        /\ f.phase = "start" \/ v.live = 0 =>
              /\ n.messages = Append(v.messages, f.message)
              /\ n.live = IF f.phase = "end" THEN 0 ELSE Len(v.messages) + 1
        /\ f.phase = "end" /\ v.live # 0 =>
              n.messages = [v.messages EXCEPT ![v.live] = f.message] /\ n.live = 0
    BY <1>1, ReducedMessage
  <2>2. QED
    BY <1>1, <2>1 DEF Reduced
<1>2. QED
  BY <1>1, ReducedOther

-----------------------------------------------------------------------------
(* What the view shows of the messages. *)

\* It does not depend on the rest of the view.
LEMMA FinishesSame ==
  ASSUME NEW v, NEW n, n.messages = v.messages, n.live = v.live, NEW s, NEW lostOf, NEW e,
         Finishes(v, s, lostOf, e)
  PROVE  Finishes(n, s, lostOf, e)
BY DEF Finishes

\* OMP goes on.
LEMMA FinishesAppend ==
  ASSUME NEW v, Placing(v), NEW s \in Seq(ViewFrames), NEW lostOf, NEW e, Possible(e), NEW e2,
         NEW f, Tells(e, e2, f), Finishes(v, s, lostOf, e)
  PROVE  Finishes(v, Append(s, f), lostOf, e2)
<1> DEFINE t == Append(s, f)
           ms == v.messages
<1>1. /\ e2 \in Agents /\ f \in ViewFrames
      /\ e.done \in 0..MaxMessages /\ e.live \in 0..MaxMessages
      /\ e.live \in {0, e.done + 1} /\ MaxMessages \in Nat
      /\ e2.done \in 0..MaxMessages /\ e2.live \in 0..MaxMessages
  BY Speaking
<1>2. /\ \/ e2.done = e.done /\ \A m \in 1..MaxMessages : f # Message(m, "end")
         \/ /\ e.live = e.done + 1 /\ e2.done = e.done + 1 /\ e2.live = 0
            /\ f = Message(e.live, "end")
      /\ e2.live = e.live \/ e.live = 0 \/ f = Message(e.live, "end")
      /\ f \in MessageFrames => \/ f = Message(e.done + 1, "start") /\ e.live = 0
                                \/ f = Message(e.done + 1, "end") /\ e.live = e.done + 1
  BY Speaking
<1>3. Range(t) = Range(s) \cup {f}
  BY <1>1, Appended
<1> HIDE DEF t
<1>4. /\ ms \in Seq(1..MaxMessages) /\ DOMAIN ms = 1..Len(ms)
      /\ \A q \in DOMAIN ms : ms[q] \in 1..MaxMessages
  <2>1. ms \in Seq(1..MaxMessages)
    BY ViewFields DEF Placing
  <2> HIDE DEF ms
  <2>2. QED
    BY <2>1, Numbered
<1>5. \A m \in (1..e2.done) \ lostOf : m \in Range(ms) \/ Message(m, "end") \in Range(t)
  <2>1. TAKE m \in (1..e2.done) \ lostOf
  <2>2. CASE m \in 1..e.done
    <3>1. m \in Range(ms) \/ Message(m, "end") \in Range(s)
      BY <2>2 DEF Finishes
    <3>2. QED
      BY <1>3, <3>1
  <2>3. CASE m \notin 1..e.done
    <3>1. e2.done = e.done + 1 /\ e.live = e.done + 1 /\ f = Message(e.live, "end")
      BY <1>1, <1>2, <2>3
    <3>2. m = e.live
      BY <1>1, <2>3, <3>1
    <3>3. QED
      BY <1>3, <3>1, <3>2
  <2>4. QED
    BY <2>2, <2>3
<1>6. \A q \in DOMAIN ms : ms[q] <= e2.done \/ ms[q] = e2.live
  <2>1. TAKE q \in DOMAIN ms
  <2>2. ms[q] <= e.done \/ ms[q] = e.live
    BY DEF Finishes
  <2>3. e.done <= e2.done
    BY <1>1, <1>2
  <2>4. CASE ms[q] <= e.done
    BY <1>1, <1>4, <2>3, <2>4
  <2>5. CASE ms[q] = e.live
    <3>1. e.live # 0 /\ e.live \in 1..MaxMessages
      BY <1>1, <1>4, <2>5
    <3>2. CASE f = Message(e.live, "end")
      <4>1. e2.done = e.done + 1 /\ e.live = e.done + 1
        BY <1>2, <3>1, <3>2
      <4>2. QED
        BY <1>1, <2>5, <4>1
    <3>3. QED
      BY <1>2, <2>5, <3>1, <3>2
  <2>6. QED
    BY <2>2, <2>4, <2>5
<1>7. ASSUME v.live # 0
      PROVE  /\ ms[v.live] = e2.live \/ Message(ms[v.live], "end") \in Range(t)
             /\ \A g \in Range(t) \cap MessageFrames : Precedes(Message(ms[v.live], "start"), g)
  <2> DEFINE m == ms[v.live]
  <2>1. v.live \in DOMAIN ms
    BY <1>4, <1>7 DEF Placing
  <2>2. m \in 1..MaxMessages /\ (m <= e.done \/ m = e.live)
    BY <1>4, <2>1 DEF Finishes
  <2>3. /\ m = e.live \/ Message(m, "end") \in Range(s)
        /\ \A g \in Range(s) \cap MessageFrames : Precedes(Message(m, "start"), g)
    BY <1>7 DEF Finishes
  <2> HIDE DEF m
  <2>4. m = e2.live \/ Message(m, "end") \in Range(t)
    <3>1. e.live = m => e.live # 0
      BY <2>2
    <3>2. QED
      BY <1>2, <1>3, <2>3, <3>1
  <2>5. f \in MessageFrames => Precedes(Message(m, "start"), f)
    <3>1. \A k, p : Message(k, p).message = k /\ Message(k, p).phase = p
      BY MessageSame
    <3>2. CASE f = Message(e.done + 1, "start") /\ e.live = 0
      BY <1>1, <2>2, <3>1, <3>2 DEF Precedes
    <3>3. CASE f = Message(e.done + 1, "end") /\ e.live = e.done + 1
      <4>1. m < e.done + 1 \/ m = e.done + 1
        BY <1>1, <2>2, <3>3
      <4>2. QED
        BY <3>1, <3>3, <4>1 DEF Precedes
    <3>4. QED
      BY <1>2, <3>2, <3>3
  <2>6. QED
    BY <1>3, <2>3, <2>4, <2>5 DEF m
<1>8. \A q \in DOMAIN ms : \A m \in (1..(ms[q] - 1)) \ lostOf : \E p \in 1..(q - 1) : ms[p] = m
  BY DEF Finishes
<1>9. QED
  BY <1>5, <1>6, <1>7, <1>8 DEF Finishes, t

\* A history that has just come, and what is to come after it.
LEMMA FinishesHistory ==
  ASSUME NEW e \in Agents, NEW k \in Nat, k <= e.done, NEW v, v.messages = Upto(k), v.live = 0,
         NEW s, NEW lostOf,
         \A m \in ((k + 1)..e.done) \ lostOf : Message(m, "end") \in Range(s)
  PROVE  Finishes(v, s, lostOf, e)
<1>1. e.done \in Nat
  BY ViewAssumption DEF Agents
<1>2. DOMAIN Upto(k) = 1..k /\ Range(Upto(k)) = 1..k /\ \A i \in 1..k : Upto(k)[i] = i
  BY UptoFacts
<1>3. \A m \in (1..e.done) \ lostOf : m \in Range(v.messages) \/ Message(m, "end") \in Range(s)
  <2>1. \A m \in 1..e.done : m \in 1..k \/ m \in (k + 1)..e.done
    BY <1>1
  <2>2. QED
    BY <1>2, <2>1
<1>4. \A q \in 1..k : \A m \in (1..(q - 1)) \ lostOf : m \in 1..(q - 1) /\ m \in 1..k
  OBVIOUS
<1>5. \A q \in 1..k : q <= e.done
  BY <1>1
<1>6. QED
  BY <1>2, <1>3, <1>4, <1>5 DEF Finishes

\* What is to come after a frame of a message, in a sequence in order.
LEMMA MessageFirst ==
  ASSUME NEW v, Placing(v), NEW s \in Seq(ViewFrames), s # <<>>, NEW e, Possible(e),
         Orderly(s, e), NEW lostOf, Finishes(v, s, lostOf, e),
         NEW m \in 1..MaxMessages, NEW phase \in {"start", "end"}, s[1] = Message(m, phase)
  PROVE  /\ phase = "end" => m <= e.done
         /\ m <= e.done \/ m = e.live
         /\ \A g \in Range(Tail(s)) \cap MessageFrames : Precedes(Message(m, phase), g)
         /\ phase = "start" => m = e.live \/ Message(m, "end") \in Range(Tail(s))
         /\ \A k \in (1..(m - 1)) \ lostOf : k \in Range(v.messages)
<1>1. /\ Len(s) \in Nat /\ Len(s) >= 1 /\ DOMAIN s = 1..Len(s)
      /\ Tail(s) \in Seq(ViewFrames) /\ DOMAIN Tail(s) = 1..(Len(s) - 1)
      /\ \A i \in 1..(Len(s) - 1) : Tail(s)[i] = s[i + 1]
      /\ Head(s) = s[1] /\ Range(s) = {Head(s)} \cup Range(Tail(s))
  BY HeadAndTail
<1>2. /\ e.done \in 0..MaxMessages /\ e.live \in {0, e.done + 1} /\ MaxMessages \in Nat
  BY ViewAssumption DEF Possible, Agents
<1>3. Message(m, phase) \in Range(s) /\ Message(m, phase) \in MessageFrames /\ 1 \in DOMAIN s
  BY <1>1 DEF MessageFrames
<1>4. (phase = "end" => m <= e.done) /\ (m <= e.done \/ m = e.live)
  BY <1>3 DEF Orderly, Spoken
<1>5. \A g \in Range(Tail(s)) \cap MessageFrames : Precedes(Message(m, phase), g)
  <2>1. TAKE g \in Range(Tail(s)) \cap MessageFrames
  <2>2. PICK i \in DOMAIN Tail(s) : Tail(s)[i] = g
    BY <1>1, Placed
  <2>3. i + 1 \in DOMAIN s /\ s[i + 1] = g /\ 1 < i + 1
    BY <1>1, <2>2
  <2>4. s[1] \in MessageFrames /\ s[i + 1] \in MessageFrames
    BY <1>3, <2>3
  <2>5. Precedes(s[1], s[i + 1])
    BY <1>3, <2>3, <2>4 DEF Orderly, InOrder
  <2>6. QED
    BY <2>3, <2>5
<1>6. phase = "start" => m = e.live \/ Message(m, "end") \in Range(Tail(s))
  <2>1. SUFFICES ASSUME phase = "start", m # e.live PROVE Message(m, "end") \in Range(Tail(s))
    OBVIOUS
  <2>2. EndsAfter(s, 1, m)
    BY <1>3, <2>1 DEF Orderly, Ended
  <2>3. PICK j \in DOMAIN s : j > 1 /\ s[j] = Message(m, "end")
    BY <2>2 DEF EndsAfter
  <2>4. j - 1 \in 1..(Len(s) - 1) /\ (j - 1) + 1 = j
    BY <1>1, <2>3
  <2>5. Tail(s)[j - 1] = Message(m, "end")
    BY <1>1, <2>3, <2>4
  <2>6. QED
    BY <1>1, <2>4, <2>5 DEF Range
<1>7. \A k \in (1..(m - 1)) \ lostOf : k \in Range(v.messages)
  <2>1. TAKE k \in (1..(m - 1)) \ lostOf
  <2>2. k \in 1..e.done /\ k \in 1..MaxMessages /\ ~(m < k) /\ k # m
    BY <1>2, <1>4
  <2>3. k \in Range(v.messages) \/ Message(k, "end") \in Range(s)
    BY <2>2 DEF Finishes
  <2>4. \A x, p : Message(x, p).message = x /\ Message(x, p).phase = p
    BY MessageSame
  <2>5. Message(k, "end") # Message(m, phase)
    BY <2>2, MessageSame
  <2>6. Message(k, "end") \in MessageFrames
    BY <2>2 DEF MessageFrames
  <2>7. Message(k, "end") \notin Range(Tail(s))
    <3>1. ~Precedes(Message(m, phase), Message(k, "end"))
      BY <2>2, <2>4 DEF Precedes
    <3>2. QED
      BY <1>5, <2>6, <3>1
  <2>8. QED
    BY <1>1, <2>3, <2>5, <2>7
<1>8. QED
  BY <1>4, <1>5, <1>6, <1>7

\* The view handles the start of a message.
LEMMA FinishesStart ==
  ASSUME NEW v, Placing(v), NEW s \in Seq(ViewFrames), s # <<>>, NEW e, Possible(e),
         Orderly(s, e), NEW lostOf, Finishes(v, s, lostOf, e),
         NEW m \in 1..MaxMessages, s[1] = Message(m, "start"),
         NEW n, n.messages = Append(v.messages, m), n.live = Len(v.messages) + 1
  PROVE  Finishes(n, Tail(s), lostOf, e)
<1> DEFINE t == Tail(s)
           ms == v.messages
           ns == n.messages
<1>1. Range(s) = {Message(m, "start")} \cup Range(t)
  BY HeadAndTail
<1>2. /\ ms \in Seq(1..MaxMessages)
      /\ Len(ms) \in Nat /\ DOMAIN ms = 1..Len(ms) /\ DOMAIN ns = 1..(Len(ms) + 1)
      /\ ns[Len(ms) + 1] = m /\ \A i \in 1..Len(ms) : ns[i] = ms[i]
      /\ Range(ns) = Range(ms) \cup {m}
  <2>1. ms \in Seq(1..MaxMessages) /\ ns = Append(ms, m)
    BY ViewFields DEF Placing
  <2> HIDE DEF ms, ns
  <2>2. Extends(Append(ms, m), ms, m)
    BY <2>1, NumberedAppend, Zenon
  <2>3. QED
    BY <2>1, <2>2 DEF Extends
<1>3. /\ m <= e.done \/ m = e.live
      /\ \A g \in Range(t) \cap MessageFrames : Precedes(Message(m, "start"), g)
      /\ m = e.live \/ Message(m, "end") \in Range(t)
      /\ \A k \in (1..(m - 1)) \ lostOf : k \in Range(ms)
  BY MessageFirst
<1>4. /\ \A k \in (1..e.done) \ lostOf : k \in Range(ms) \/ Message(k, "end") \in Range(s)
      /\ \A q \in DOMAIN ms : \A k \in (1..(ms[q] - 1)) \ lostOf :
           \E p \in 1..(q - 1) : ms[p] = k
      /\ \A q \in DOMAIN ms : ms[q] <= e.done \/ ms[q] = e.live
  BY DEF Finishes
<1> HIDE DEF t, ms, ns
<1>5. \A k \in (1..e.done) \ lostOf : k \in Range(ns) \/ Message(k, "end") \in Range(t)
  <2>1. \A k : Message(k, "end") # Message(m, "start")
    BY MessageSame
  <2>2. QED
    BY <1>1, <1>2, <1>4, <2>1
<1>6. \A q \in DOMAIN ns : q = Len(ms) + 1 \/ q \in 1..Len(ms)
  BY <1>2
<1>7. \A q \in DOMAIN ns : \A k \in (1..(ns[q] - 1)) \ lostOf : \E p \in 1..(q - 1) : ns[p] = k
  <2>1. TAKE q \in DOMAIN ns
  <2>2. TAKE k \in (1..(ns[q] - 1)) \ lostOf
  <2>3. CASE q = Len(ms) + 1
    <3>1. k \in Range(ms) /\ q - 1 = Len(ms)
      BY <1>2, <1>3, <2>3
    <3>2. PICK p \in DOMAIN ms : ms[p] = k
      BY <1>2, <3>1, Placed
    <3>3. QED
      BY <1>2, <3>1, <3>2
  <2>4. CASE q \in 1..Len(ms)
    <3>1. PICK p \in 1..(q - 1) : ms[p] = k
      BY <1>2, <1>4, <2>4
    <3>2. p \in 1..Len(ms)
      BY <1>2, <2>4
    <3>3. QED
      BY <1>2, <3>1, <3>2
  <2>5. QED
    BY <1>6, <2>3, <2>4
<1>8. \A q \in DOMAIN ns : ns[q] <= e.done \/ ns[q] = e.live
  BY <1>2, <1>3, <1>4, <1>6
<1>9. ns[n.live] = m
  BY <1>2 DEF ms
<1>10. QED
  BY <1>3, <1>5, <1>7, <1>8, <1>9 DEF Finishes, t, ns

\* The view handles the end of a message.
LEMMA FinishesEnd ==
  ASSUME NEW v, Placing(v), NEW s \in Seq(ViewFrames), s # <<>>, NEW e, Possible(e),
         Orderly(s, e), NEW lostOf, Finishes(v, s, lostOf, e),
         NEW m \in 1..MaxMessages, s[1] = Message(m, "end"),
         NEW n, n.live = 0,
         v.live = 0 => n.messages = Append(v.messages, m),
         v.live # 0 => n.messages = [v.messages EXCEPT ![v.live] = m]
  PROVE  Finishes(n, Tail(s), lostOf, e)
<1> DEFINE t == Tail(s)
           ms == v.messages
           ns == n.messages
<1>1. Range(s) = {Message(m, "end")} \cup Range(t)
  BY HeadAndTail
<1>2. ms \in Seq(1..MaxMessages) /\ v.live \in 0..Len(ms)
  BY ViewFields DEF Placing
<1>3. /\ m <= e.done
      /\ \A g \in Range(t) \cap MessageFrames : Precedes(Message(m, "end"), g)
      /\ \A k \in (1..(m - 1)) \ lostOf : k \in Range(ms)
  BY MessageFirst
<1>4. /\ \A k \in (1..e.done) \ lostOf : k \in Range(ms) \/ Message(k, "end") \in Range(s)
      /\ \A q \in DOMAIN ms : \A k \in (1..(ms[q] - 1)) \ lostOf :
           \E p \in 1..(q - 1) : ms[p] = k
      /\ \A q \in DOMAIN ms : ms[q] <= e.done \/ ms[q] = e.live
  BY DEF Finishes
<1>5. /\ e.done \in 0..MaxMessages /\ e.live \in {0, e.done + 1} /\ MaxMessages \in Nat
  BY ViewAssumption DEF Possible, Agents
<1>6. \A k, p : Message(k, p).message = k /\ Message(k, p).phase = p
  BY MessageSame
<1>7. CASE v.live = 0
  <2> HIDE DEF t
  <2>1. /\ Len(ms) \in Nat /\ DOMAIN ms = 1..Len(ms) /\ DOMAIN ns = 1..(Len(ms) + 1)
        /\ ns[Len(ms) + 1] = m /\ \A i \in 1..Len(ms) : ns[i] = ms[i]
        /\ Range(ns) = Range(ms) \cup {m}
    <3>1. ns = Append(ms, m) /\ m \in 1..MaxMessages
      BY <1>7
    <3> HIDE DEF ms, ns
    <3>2. Extends(Append(ms, m), ms, m)
      BY <1>2, <3>1, NumberedAppend, Zenon
    <3>3. QED
      BY <3>1, <3>2 DEF Extends
  <2> HIDE DEF ms, ns
  <2>2. \A k \in (1..e.done) \ lostOf : k \in Range(ns) \/ Message(k, "end") \in Range(t)
    <3>1. \A k : Message(k, "end") = Message(m, "end") => k = m
      BY MessageSame
    <3>2. QED
      BY <1>1, <1>4, <2>1, <3>1
  <2>3. \A q \in DOMAIN ns : q = Len(ms) + 1 \/ q \in 1..Len(ms)
    BY <2>1
  <2>4. \A q \in DOMAIN ns : \A k \in (1..(ns[q] - 1)) \ lostOf :
          \E p \in 1..(q - 1) : ns[p] = k
    <3>1. TAKE q \in DOMAIN ns
    <3>2. TAKE k \in (1..(ns[q] - 1)) \ lostOf
    <3>3. CASE q = Len(ms) + 1
      <4>1. k \in Range(ms) /\ q - 1 = Len(ms)
        BY <1>3, <2>1, <3>3
      <4>2. PICK p \in DOMAIN ms : ms[p] = k
        BY <1>2, <4>1, Placed
      <4>3. QED
        BY <2>1, <4>1, <4>2
    <3>4. CASE q \in 1..Len(ms)
      <4>1. PICK p \in 1..(q - 1) : ms[p] = k
        BY <1>4, <2>1, <3>4
      <4>2. p \in 1..Len(ms)
        BY <2>1, <3>4
      <4>3. QED
        BY <2>1, <4>1, <4>2
    <3>5. QED
      BY <2>3, <3>3, <3>4
  <2>5. \A q \in DOMAIN ns : ns[q] <= e.done \/ ns[q] = e.live
    BY <1>3, <1>4, <2>1, <2>3
  <2>6. QED
    BY <2>2, <2>4, <2>5 DEF Finishes, t, ns
<1>8. CASE v.live # 0
  <2> DEFINE k == ms[v.live]
  <2>1. v.live \in DOMAIN ms /\ k \in 1..MaxMessages
    <3>1. Len(ms) \in Nat /\ DOMAIN ms = 1..Len(ms)
      BY <1>2
    <3>2. v.live \in DOMAIN ms
      BY <1>2, <1>8, <3>1
    <3>3. QED
      BY <1>2, <3>2, Numbered
  <2>2. /\ k = e.live \/ Message(k, "end") \in Range(s)
        /\ \A g \in Range(s) \cap MessageFrames : Precedes(Message(k, "start"), g)
    BY <1>8 DEF Finishes
  <2> HIDE DEF k, t, ns
  <2>3. Message(m, "end") \in MessageFrames /\ Message(k, "end") \in MessageFrames
    BY <2>1 DEF MessageFrames
  <2>4. k < m \/ k = m
    <3>1. Precedes(Message(k, "start"), Message(m, "end"))
      BY <1>1, <2>2, <2>3
    <3>2. QED
      BY <1>6, <3>1 DEF Precedes
  <2>5. k = m
    <3>1. CASE k = e.live
      BY <1>3, <1>5, <2>1, <2>4, <3>1
    <3>2. CASE Message(k, "end") = Message(m, "end")
      BY <3>2, MessageSame
    <3>3. CASE Message(k, "end") \in Range(t)
      <4>1. Precedes(Message(m, "end"), Message(k, "end"))
        BY <1>3, <2>3, <3>3
      <4>2. m < k
        BY <1>6, <4>1 DEF Precedes
      <4>3. QED
        BY <2>1, <2>4, <4>2
    <3>4. QED
      BY <1>1, <2>2, <3>1, <3>2, <3>3
  <2>6. ns = ms
    <3>1. ns = [ms EXCEPT ![v.live] = ms[v.live]]
      BY <1>8, <2>5 DEF k, ns
    <3>2. ms = [i \in 1..Len(ms) |-> ms[i]]
      BY <1>2
    <3> HIDE DEF ms, ns
    <3>3. QED
      BY <1>2, <3>1, <3>2
  <2>7. m \in Range(ms)
    BY <2>1, <2>5 DEF Range, k
  <2>8. \A x \in (1..e.done) \ lostOf : x \in Range(ns) \/ Message(x, "end") \in Range(t)
    <3>1. \A x : Message(x, "end") = Message(m, "end") => x = m
      BY MessageSame
    <3>2. QED
      BY <1>1, <1>4, <2>6, <2>7, <3>1
  <2>9. QED
    BY <1>4, <2>6, <2>8 DEF Finishes, t, ns
<1>9. QED
  BY <1>7, <1>8

\* The view handles what is no frame of a message.
LEMMA FinishesOther ==
  ASSUME NEW v, Placing(v), NEW s \in Seq(ViewFrames), s # <<>>, NEW e, Possible(e),
         Orderly(s, e), NEW lostOf, Finishes(v, s, lostOf, e), s[1] \notin MessageFrames,
         NEW n,
         \/ n.messages = v.messages /\ n.live = v.live
         \/ s[1] \in HistoryFrames /\ n.messages = s[1].messages /\ n.live = 0
  PROVE  Finishes(n, Tail(s), lostOf, e)
<1>1. /\ Len(s) \in Nat /\ Len(s) >= 1 /\ DOMAIN s = 1..Len(s)
      /\ Tail(s) \in Seq(ViewFrames) /\ DOMAIN Tail(s) = 1..(Len(s) - 1)
      /\ \A i \in 1..(Len(s) - 1) : Tail(s)[i] = s[i + 1]
      /\ Range(s) = {s[1]} \cup Range(Tail(s))
  BY HeadAndTail
<1>2. /\ e \in Agents /\ MaxMessages \in Nat
      /\ e.done \in 0..MaxMessages /\ e.live \in 0..MaxMessages
  BY ViewAssumption DEF Possible, Agents
<1>3. CASE n.messages = v.messages /\ n.live = v.live
  <2>1. \A m \in 1..e.done : Message(m, "end") # s[1]
    BY <1>2 DEF MessageFrames
  <2>2. \A m \in (1..e.done) \ lostOf :
          m \in Range(v.messages) \/ Message(m, "end") \in Range(Tail(s))
    BY <1>1, <2>1 DEF Finishes
  <2>3. ASSUME v.live # 0
        PROVE  \/ v.messages[v.live] = e.live
               \/ Message(v.messages[v.live], "end") \in Range(Tail(s))
    <3>1. /\ v.messages[v.live] = e.live \/ Message(v.messages[v.live], "end") \in Range(s)
      BY <2>3 DEF Finishes
    <3>2. v.messages[v.live] \in 1..MaxMessages
      <4>1. v.messages \in Seq(1..MaxMessages) /\ v.live \in 0..Len(v.messages)
        BY ViewFields DEF Placing
      <4>2. Len(v.messages) \in Nat /\ DOMAIN v.messages = 1..Len(v.messages)
        BY <4>1, Numbered
      <4>3. v.live \in DOMAIN v.messages
        BY <2>3, <4>1, <4>2
      <4>4. QED
        BY <4>1, <4>3, Numbered
    <3>3. Message(v.messages[v.live], "end") # s[1]
      BY <3>2 DEF MessageFrames
    <3>4. QED
      BY <1>1, <3>1, <3>3
  <2>4. v.live # 0 => \A f \in Range(Tail(s)) \cap MessageFrames :
                        Precedes(Message(v.messages[v.live], "start"), f)
    BY <1>1 DEF Finishes
  <2>5. QED
    BY <1>3, <2>2, <2>3, <2>4 DEF Finishes
<1>4. CASE s[1] \in HistoryFrames /\ n.messages = s[1].messages /\ n.live = 0
  <2>1. PICK k \in 0..MaxMessages : s[1] \in Histories(k)
    BY <1>4 DEF HistoryFrames
  <2>2. s[1].messages = Upto(k)
    BY <2>1, HistoryFrame
  <2>3. k <= e.done /\ \A m \in (k + 1)..e.done : EndsAfter(s, 1, m)
    <3>1. 1 \in DOMAIN s
      BY <1>1
    <3>2. QED
      BY <2>1, <3>1 DEF Orderly, Told
  <2>4. \A m \in (k + 1)..e.done : Message(m, "end") \in Range(Tail(s))
    <3>1. TAKE m \in (k + 1)..e.done
    <3>2. PICK j \in DOMAIN s : j > 1 /\ s[j] = Message(m, "end")
      BY <2>3 DEF EndsAfter
    <3>3. j - 1 \in 1..(Len(s) - 1) /\ (j - 1) + 1 = j
      BY <1>1, <3>2
    <3>4. Tail(s)[j - 1] = Message(m, "end")
      BY <1>1, <3>2, <3>3
    <3>5. QED
      BY <1>1, <3>3, <3>4 DEF Range
  <2>5. k \in Nat /\ \A m \in ((k + 1)..e.done) \ lostOf : Message(m, "end") \in Range(Tail(s))
    BY <2>4
  <2>6. QED
    BY <1>2, <1>4, <2>2, <2>3, <2>5, FinishesHistory
<1>5. QED
  BY <1>3, <1>4

-----------------------------------------------------------------------------
(* What brings the view up to date. *)

\* The view handles the next frame.
LEMMA FollowsTail ==
  ASSUME NEW v, Placing(v), NEW s \in Seq(ViewFrames), s # <<>>, NEW e, Possible(e),
         NEW commands, NEW lostOf, NEW cover, Follows(v, s, commands, lostOf, e, cover),
         NEW n, n = ReduceRpcFrame(v, s[1])
  PROVE  /\ Placing(n) /\ Follows(n, Tail(s), commands, lostOf, e, cover)
         /\ n.transport = v.transport /\ n.parity = v.parity
<1> DEFINE f == s[1]
           t == Tail(s)
<1>1. f \in ViewFrames /\ t \in Seq(ViewFrames) /\ Range(s) = {f} \cup Range(t)
  BY HeadAndTail
<1>2. Orderly(s, e) /\ Finishes(v, s, lostOf, e) /\ Requested(v, s, commands, e)
  BY DEF Follows
<1>3. e \in Agents /\ e.asked \in SUBSET Requests
  BY DEF Possible, Agents
<1>4. Orderly(t, e)
  BY <1>2, <1>3, OrderlyTail DEF t
<1>0. Reduced(v, n, f)
  BY <1>1, ReducedFrame
<1> HIDE DEF f, t
<1>5. Placing(n) /\ n.transport = v.transport /\ n.parity = v.parity
  BY <1>0 DEF Reduced
<1>6. Finishes(n, t, lostOf, e)
  <2>1. CASE f \in MessageFrames
    <3> DEFINE m == f.message
    <3>1. m \in 1..MaxMessages /\ f.phase \in {"start", "end"} /\ f = Message(m, f.phase)
      BY <2>1, MessageFrame
    <3>2. /\ f.phase = "start" \/ v.live = 0 =>
               /\ n.messages = Append(v.messages, m)
               /\ n.live = IF f.phase = "end" THEN 0 ELSE Len(v.messages) + 1
          /\ f.phase = "end" /\ v.live # 0 =>
               n.messages = [v.messages EXCEPT ![v.live] = m] /\ n.live = 0
      BY <1>0, <2>1 DEF Reduced
    <3> HIDE DEF m
    <3>3. CASE f.phase = "start"
      <4>1. n.messages = Append(v.messages, m) /\ n.live = Len(v.messages) + 1
        BY <3>2, <3>3
      <4>2. s[1] = Message(m, "start")
        BY <3>1, <3>3 DEF f
      <4>3. QED
        BY <1>2, <3>1, <4>1, <4>2, FinishesStart DEF t
    <3>4. CASE f.phase = "end"
      <4>1. n.live = 0 /\ (v.live = 0 => n.messages = Append(v.messages, m))
            /\ (v.live # 0 => n.messages = [v.messages EXCEPT ![v.live] = m])
        BY <3>2, <3>4
      <4>2. s[1] = Message(m, "end")
        BY <3>1, <3>4 DEF f
      <4>3. QED
        BY <1>2, <3>1, <4>1, <4>2, FinishesEnd DEF t
    <3>5. QED
      BY <3>1, <3>3, <3>4
  <2>2. CASE f \notin MessageFrames
    <3>1. \/ n.messages = v.messages /\ n.live = v.live
          \/ s[1] \in HistoryFrames /\ n.messages = s[1].messages /\ n.live = 0
      BY <1>0, <2>2 DEF Reduced, f
    <3>2. QED
      BY <1>2, <2>2, <3>1, FinishesOther DEF f, t
  <2>3. QED
    BY <2>1, <2>2
<1>7. n.requests = IF f \in AskFrames THEN v.requests \cup {f.id}
                   ELSE IF f \in CancelFrames THEN v.requests \ {f.id} ELSE v.requests
  <2>1. CASE f \in MessageFrames
    <3>1. f \notin AskFrames /\ f \notin CancelFrames
      BY <1>1, <2>1, FrameKinds
    <3>2. QED
      BY <1>0, <2>1, <3>1 DEF Reduced
  <2>2. QED
    BY <1>0, <2>1 DEF Reduced
<1>8. Requested(n, t, commands, e)
  <2>1. SUFFICES ASSUME NEW r \in e.asked
                 PROVE  \/ UiResponse(r) \in Range(commands) \/ r \in n.requests
                        \/ Asks(r) \in Range(t)
    BY DEF Requested
  <2>2. r \in Requests
    BY <1>3
  <2>3. UiResponse(r) \in Range(commands) \/ r \in v.requests \/ Asks(r) \in Range(s)
    BY <1>2 DEF Requested
  <2>4. CASE Asks(r) = f
    <3>1. f \in AskFrames /\ f.id = r
      BY <2>2, <2>4, RequestFrame
    <3>2. QED
      BY <1>7, <3>1
  <2>5. CASE r \in v.requests
    <3>1. f \in CancelFrames => f.id # r
      <4>1. SUFFICES ASSUME f \in CancelFrames, f.id = r PROVE FALSE
        OBVIOUS
      <4>2. Cancels(r) \in Range(s)
        BY <1>1, <4>1, RequestFrame
      <4>3. QED
        BY <1>2, <2>2, <4>2 DEF Orderly, Settled
    <3>2. QED
      BY <1>7, <2>5, <3>1
  <2>6. QED
    BY <1>1, <2>3, <2>4, <2>5
<1>9. ASSUME e.busy, ~cover PROVE Runs(n.streaming, t)
  <2>1. Runs(v.streaming, s)
    BY <1>9 DEF Follows
  <2>2. f = AgentStarts => n.streaming
    <3>1. f = AgentStarts => f \notin MessageFrames
      BY <1>1, FrameKinds
    <3>2. QED
      BY <1>0, <3>1 DEF Reduced
  <2>3. v.streaming /\ f \notin Stops => n.streaming
    <3>1. CASE f \in MessageFrames
      BY <1>0, <3>1 DEF Reduced
    <3>2. CASE f \notin MessageFrames
      <4>1. n.streaming = IF f \in {AgentStarts, TurnStarts} THEN TRUE
                          ELSE IF f \in TurnOver THEN FALSE
                          ELSE IF f \in StateFrames THEN f.isStreaming ELSE v.streaming
        BY <1>0, <3>2 DEF Reduced
      <4>2. ASSUME f \notin Stops
            PROVE  f \notin TurnOver /\ (f \in StateFrames => f.isStreaming = TRUE)
        <5>1. f \in StateFrames => /\ f = State(f.isStreaming, f.rev) /\ f.isStreaming \in BOOLEAN
                                   /\ f.rev \in Revisions
          BY StateFrame
        <5>2. QED
          BY <4>2, <5>1 DEF Stops
      <4>3. v.streaming \in BOOLEAN
        BY ViewFields DEF Placing
      <4>4. QED
        BY <4>1, <4>2, <4>3
    <3>3. QED
      BY <3>1, <3>2
  <2>4. QED
    BY <2>1, <2>2, <2>3, RunsTail DEF f, t
<1>10. QED
  BY <1>4, <1>5, <1>6, <1>8, <1>9 DEF Follows, t

\* OMP goes on.
LEMMA FollowsAppend ==
  ASSUME NEW v, Placing(v), NEW s \in Seq(ViewFrames), NEW e, Possible(e), NEW e2, NEW f,
         Tells(e, e2, f), NEW commands, NEW others, NEW lostOf, NEW cover, NEW covers,
         Follows(v, s, commands, lostOf, e, cover),
         \A r \in Requests : UiResponse(r) \in Range(commands) => UiResponse(r) \in Range(others),
         e2.busy /\ cover => covers
  PROVE  Follows(v, Append(s, f), others, lostOf, e2, covers)
<1>1. Orderly(s, e) /\ Finishes(v, s, lostOf, e) /\ Requested(v, s, commands, e)
  BY DEF Follows
<1>2. e2 \in Agents /\ f \in ViewFrames /\ e2.asked \in SUBSET Requests
  BY Telling DEF Agents
<1>3. Orderly(Append(s, f), e2)
  BY <1>1, OrderlyAppend
<1>4. Finishes(v, Append(s, f), lostOf, e2)
  BY <1>1, FinishesAppend
<1>5. Range(Append(s, f)) = Range(s) \cup {f}
  BY <1>2, Appended
<1>6. Requested(v, Append(s, f), others, e2)
  <2>1. \A r \in e2.asked : r \in e.asked \/ f = Asks(r)
    BY Turning
  <2>2. QED
    BY <1>1, <1>2, <1>5, <2>1 DEF Requested
<1>7. e2.busy => Runs(v.streaming, Append(s, f)) \/ covers
  <2>1. e2.busy => f = AgentStarts \/ (e.busy /\ f \notin Stops)
    BY Turning
  <2>2. e.busy => Runs(v.streaming, s) \/ cover
    BY DEF Follows
  <2>3. QED
    BY <1>2, <2>1, <2>2, RunsAppend
<1>8. QED
  BY <1>3, <1>4, <1>6, <1>7 DEF Follows

\* What else may change.
LEMMA FollowsSame ==
  ASSUME NEW v, NEW n, n.messages = v.messages, n.live = v.live, n.streaming = v.streaming,
         NEW s, NEW e, NEW commands, NEW others, NEW lostOf, NEW cover, NEW covers,
         Follows(v, s, commands, lostOf, e, cover),
         \A r \in e.asked : UiResponse(r) \in Range(commands) \/ r \in v.requests =>
                            UiResponse(r) \in Range(others) \/ r \in n.requests,
         e.busy /\ cover => covers
  PROVE  Follows(n, s, others, lostOf, e, covers)
<1>1. Finishes(n, s, lostOf, e)
  BY FinishesSame DEF Follows
<1>2. Requested(n, s, others, e)
  BY DEF Follows, Requested
<1>3. e.busy => Runs(n.streaming, s) \/ covers
  BY DEF Follows
<1>4. QED
  BY <1>1, <1>2, <1>3 DEF Follows

-----------------------------------------------------------------------------
(* Commands of rehydrations and their answers. *)

\* The revision of each command and of each answer, and where its rehydration stands.
LEMMA RevsCommand ==
  /\ \A type \in CallKinds : \A r :
       /\ Revs(Command(type, r)) = {r}
       /\ Waits(Command(type, r)) = IF type = "get_state" THEN "state"
                                   ELSE IF type = "get_messages" THEN "messages" ELSE "page"
  /\ \A r : Revs(UiResponse(r)) = {}
  /\ \A c \in ViewCommands : \/ \E type \in CallKinds, r \in Revisions : c = Command(type, r)
                             \/ \E r \in Requests : c = UiResponse(r)
<1>1. ASSUME NEW type \in CallKinds, NEW r
      PROVE  /\ Revs(Command(type, r)) = {r}
             /\ Waits(Command(type, r)) =
                  IF type = "get_state" THEN "state"
                  ELSE IF type = "get_messages" THEN "messages" ELSE "page"
  <2>1. Command(type, r).type = type /\ Command(type, r).rev = r
    BY DEF Command
  <2>2. Kind(Command(type, r)) = type
    BY <2>1 DEF Kind, CallKinds
  <2>3. QED
    BY <2>1, <2>2 DEF Revs, Waits, CallKinds
<1>2. ASSUME NEW r PROVE Revs(UiResponse(r)) = {}
  BY DEF Revs, UiResponse, CallKinds
<1>3. \A c \in ViewCommands : \/ \E type \in CallKinds, r \in Revisions : c = Command(type, r)
                              \/ \E r \in Requests : c = UiResponse(r)
  BY DEF ViewCommands, Calls
<1>4. QED
  BY <1>1, <1>2, <1>3

\* Likewise of the frames.
LEMMA RevsFrame ==
  ASSUME NEW f \in ViewFrames
  PROVE  /\ f \in ResponseFrames => /\ Revs(f) = {f.rev} /\ f.rev \in Revisions
                                    /\ f \in StateFrames => Waits(f) = "state"
                                    /\ f \in BusyFrames => Waits(f) = "page"
                                    /\ f \in HistoryFrames => Waits(f) \in {"page", "messages"}
         /\ f \notin ResponseFrames => Revs(f) = {}
<1>1. ASSUME f \in ResponseFrames
      PROVE  /\ Revs(f) = {f.rev} /\ f.rev \in Revisions
             /\ f \in StateFrames => Waits(f) = "state"
             /\ f \in BusyFrames => Waits(f) = "page"
             /\ f \in HistoryFrames => Waits(f) \in {"page", "messages"}
  <2>1. /\ f.rev \in Revisions /\ f.type = "response"
        /\ f \in StateFrames <=> f.command = "get_state"
        /\ f \in BusyFrames <=> f.command = "get_messages_page" /\ f.busy
        /\ f \in HistoryFrames <=> \/ f.command = "get_messages"
                                   \/ f.command = "get_messages_page" /\ ~f.busy
    BY <1>1, ResponseKinds
  <2>2. Kind(f) = f.command
    BY <2>1 DEF Kind
  <2>3. QED
    BY <2>1, <2>2 DEF Revs, Waits, CallKinds
<1>2. ASSUME f \notin ResponseFrames PROVE Revs(f) = {}
  <2>1. f.type \notin CallKinds \cup {"response"}
    BY <1>2, FrameKinds, MessageFrame, RequestFrame, TurnKinds DEF CallKinds
  <2>2. QED
    BY <2>1 DEF Revs
<1>3. QED
  BY <1>1, <1>2

\* What is left of a sequence, and what is added to one.
LEMMA ApartTail ==
  ASSUME NEW S, NEW s \in Seq(S), s # <<>>, Apart(s)
  PROVE  /\ Apart(Tail(s)) /\ RevsOf(s) = Revs(s[1]) \cup RevsOf(Tail(s))
         /\ Revs(s[1]) \cap RevsOf(Tail(s)) = {}
<1> DEFINE t == Tail(s)
<1>1. /\ Len(s) \in Nat /\ Len(s) >= 1 /\ DOMAIN s = 1..Len(s) /\ DOMAIN t = 1..(Len(s) - 1)
      /\ \A i \in 1..(Len(s) - 1) : t[i] = s[i + 1]
      /\ Range(s) = {s[1]} \cup Range(t)
  BY HeadAndTail
<1> HIDE DEF t
<1>2. Apart(t)
  <2>1. SUFFICES ASSUME NEW i \in DOMAIN t, NEW j \in DOMAIN t, i < j
                 PROVE  Revs(t[i]) \cap Revs(t[j]) = {}
    BY DEF Apart
  <2>2. i + 1 \in DOMAIN s /\ j + 1 \in DOMAIN s /\ i + 1 < j + 1
    BY <1>1, <2>1
  <2>3. Revs(s[i + 1]) \cap Revs(s[j + 1]) = {}
    BY <2>2 DEF Apart
  <2>4. t[i] = s[i + 1] /\ t[j] = s[j + 1]
    BY <1>1
  <2>5. QED
    BY <2>3, <2>4
<1>3. RevsOf(s) = Revs(s[1]) \cup RevsOf(t)
  BY <1>1 DEF RevsOf
<1>4. Revs(s[1]) \cap RevsOf(t) = {}
  <2>1. SUFFICES ASSUME NEW x \in Range(t) PROVE Revs(s[1]) \cap Revs(x) = {}
    BY DEF RevsOf
  <2>2. PICK i \in DOMAIN t : t[i] = x
    BY DEF Range
  <2>3. 1 \in DOMAIN s /\ i + 1 \in DOMAIN s /\ 1 < i + 1 /\ s[i + 1] = x
    BY <1>1, <2>2
  <2>4. QED
    BY <2>3 DEF Apart
<1>5. QED
  BY <1>2, <1>3, <1>4 DEF t

\* What is added belongs to no rehydration of the others.
LEMMA ApartAppend ==
  ASSUME NEW S, NEW s \in Seq(S), NEW x \in S, Apart(s), Revs(x) \cap RevsOf(s) = {}
  PROVE  Apart(Append(s, x)) /\ RevsOf(Append(s, x)) = RevsOf(s) \cup Revs(x)
<1> DEFINE t == Append(s, x)
<1>1. /\ Len(s) \in Nat /\ DOMAIN s = 1..Len(s) /\ DOMAIN t = 1..(Len(s) + 1)
      /\ t[Len(s) + 1] = x /\ \A i \in 1..Len(s) : t[i] = s[i]
      /\ Range(t) = Range(s) \cup {x}
  BY Appended
<1> HIDE DEF t
<1>2. Apart(t)
  <2>1. SUFFICES ASSUME NEW i \in DOMAIN t, NEW j \in DOMAIN t, i < j
                 PROVE  Revs(t[i]) \cap Revs(t[j]) = {}
    BY DEF Apart
  <2>2. i \in 1..Len(s) /\ t[i] = s[i] /\ s[i] \in Range(s)
    BY <1>1, <2>1 DEF Range
  <2>3. CASE j = Len(s) + 1
    BY <1>1, <2>2, <2>3 DEF RevsOf
  <2>4. CASE j # Len(s) + 1
    <3>1. j \in DOMAIN s /\ i \in DOMAIN s /\ t[j] = s[j]
      BY <1>1, <2>2, <2>4
    <3>2. Revs(s[i]) \cap Revs(s[j]) = {}
      BY <2>1, <3>1 DEF Apart
    <3>3. QED
      BY <2>2, <3>1, <3>2
  <2>5. QED
    BY <2>3, <2>4
<1>3. RevsOf(t) = RevsOf(s) \cup Revs(x)
  BY <1>1 DEF RevsOf
<1>4. QED
  BY <1>2, <1>3 DEF t

\* Whom no command and no answer belongs to.
LEMMA NotWaiting ==
  ASSUME NEW jobsOf, NEW s, Waited(jobsOf, s), NEW r,
         jobsOf[r] \notin {"state", "page", "messages"},
         Range(s) \subseteq ViewFrames \cup ViewCommands
  PROVE  r \notin RevsOf(s)
<1>1. SUFFICES ASSUME NEW x \in Range(s), r \in Revs(x) PROVE FALSE
  BY DEF RevsOf
<1>2. jobsOf[r] = Waits(x)
  BY <1>1 DEF Waited
<1>3. Waits(x) \in {"state", "page", "messages"}
  <2>1. CASE x \in ViewCommands
    BY <1>1, <2>1, RevsCommand
  <2>2. CASE x \in ViewFrames
    <3>1. x \in ResponseFrames
      BY <1>1, <2>2, RevsFrame
    <3>2. QED
      BY <2>2, <3>1, RevsFrame DEF ResponseFrames
  <2>3. QED
    BY <2>1, <2>2
<1>4. QED
  BY <1>2, <1>3

\* A rehydration goes on.
LEMMA WaitedOther ==
  ASSUME NEW jobsOf \in [Revisions -> Phases], NEW s, Waited(jobsOf, s), NEW r, r \notin RevsOf(s),
         NEW j
  PROVE  Waited([jobsOf EXCEPT ![r] = j], s)
<1>1. SUFFICES ASSUME NEW x \in Range(s), NEW q \in Revs(x)
               PROVE  [jobsOf EXCEPT ![r] = j][q] = Waits(x)
  BY DEF Waited
<1>2. q # r /\ jobsOf[q] = Waits(x)
  BY DEF Waited, RevsOf
<1>3. QED
  BY <1>2

\* The host receives a frame.
LEMMA CalledReceived ==
  ASSUME NEW h, NEW rest \in Seq(ViewFrames), rest # <<>>, NEW answers \in Seq(ResponseFrames),
         NEW rev, Called(h, rest, answers, rev), NEW n, n.in = h.in, n.jobs = h.jobs,
         Range(h.replay.frames) \subseteq Range(n.replay.frames),
         rest[1] \in HistoryFrames /\ rest[1].rev = rev => rest[1] \in Range(n.replay.frames)
  PROVE  Called(n, Tail(rest),
                IF rest[1] \in ResponseFrames THEN Append(answers, rest[1]) ELSE answers, rev)
<1> DEFINE f == rest[1]
           t == Tail(rest)
           later == IF f \in ResponseFrames THEN Append(answers, f) ELSE answers
<1>1. f \in ViewFrames /\ t \in Seq(ViewFrames) /\ Range(rest) = {f} \cup Range(t)
  BY HeadAndTail
<1>2. Apart(t) /\ RevsOf(rest) = Revs(f) \cup RevsOf(t) /\ Revs(f) \cap RevsOf(t) = {}
  BY ApartTail DEF Called
<1>3. /\ Apart(later) /\ RevsOf(later) = RevsOf(answers) \cup Revs(f)
      /\ Range(later) \subseteq Range(answers) \cup {f}
  <2>1. CASE f \in ResponseFrames
    <3>1. later = Append(answers, f)
      BY <2>1
    <3>2. Revs(f) \cap RevsOf(answers) = {} /\ Apart(answers)
      BY <1>2 DEF Called
    <3>3. Apart(Append(answers, f)) /\ RevsOf(Append(answers, f)) = RevsOf(answers) \cup Revs(f)
      BY <2>1, <3>2, ApartAppend
    <3>4. Range(Append(answers, f)) = Range(answers) \cup {f}
      BY <2>1, Appended
    <3> HIDE DEF later, f
    <3>5. QED
      BY <3>1, <3>3, <3>4
  <2>2. CASE f \notin ResponseFrames
    <3>1. later = answers /\ Revs(f) = {}
      BY <1>1, <2>2, RevsFrame
    <3> HIDE DEF later, f
    <3>2. QED
      BY <3>1 DEF Called
  <2> HIDE DEF later, f
  <2>3. QED
    BY <2>1, <2>2
<1> HIDE DEF f, t, later
<1>4. RevsOf(n.in) \cap RevsOf(t) = {} /\ RevsOf(n.in) \cap RevsOf(later) = {}
      /\ RevsOf(t) \cap RevsOf(later) = {}
  BY <1>2, <1>3 DEF Called
<1>5. Waited(n.jobs, n.in) /\ Waited(n.jobs, t) /\ Waited(n.jobs, later)
  BY <1>1, <1>3 DEF Called, Waited
<1>6. \A g \in Range(later) :
        g \in HistoryFrames /\ g.rev = rev => g \in Range(n.replay.frames)
  BY <1>3 DEF Called, f
<1>7. QED
  BY <1>2, <1>3, <1>4, <1>5, <1>6 DEF Called, f, t, later

\* n has captured what h has.
KeepsFrames(h, n) == Range(h.replay.frames) \subseteq Range(n.replay.frames)

\* The rehydration r goes on to j, and asks OMP, or not.
MayAsk(h, n, r, j) ==
  \/ n.in = h.in
  \/ \E type \in CallKinds : n.in = Append(h.in, Command(type, r)) /\ j = Waits(Command(type, r))

\* What awaited the first answer goes on, and may ask again.
LEMMA CalledAnswered ==
  ASSUME NEW h, h.jobs \in [Revisions -> Phases], h.in \in Seq(ViewCommands),
         NEW rest \in Seq(ViewFrames), NEW answers \in Seq(ResponseFrames), answers # <<>>,
         NEW rev, Called(h, rest, answers, rev), NEW r, r = answers[1].rev, NEW n, NEW j,
         n.jobs = [h.jobs EXCEPT ![r] = j],
         MayAsk(h, n, r, j),
         KeepsFrames(h, n) \/ r = rev,
         NEW t, t = Tail(answers)
  PROVE  Called(n, rest, t, rev)
<1> DEFINE f == answers[1]
<1>0. r = f.rev
  OBVIOUS
<1>1. f \in ResponseFrames /\ t \in Seq(ResponseFrames) /\ Range(answers) = {f} \cup Range(t)
  BY HeadAndTail
<1>2. ResponseFrames \subseteq ViewFrames
  BY DEF ViewFrames
<1>3. Revs(f) = {r} /\ r \in Revisions
  BY <1>1, <1>2, RevsFrame
<1>4. Apart(t) /\ RevsOf(answers) = {r} \cup RevsOf(t) /\ r \notin RevsOf(t)
  <2>1. Apart(t) /\ RevsOf(answers) = Revs(f) \cup RevsOf(t) /\ Revs(f) \cap RevsOf(t) = {}
    BY ApartTail DEF Called
  <2>2. QED
    BY <1>3, <2>1
<1>5. r \notin RevsOf(h.in) /\ r \notin RevsOf(rest)
  BY <1>4 DEF Called
<1>6. Waited(n.jobs, rest) /\ Waited(n.jobs, t)
  <2>1. Waited(h.jobs, rest) /\ Waited(h.jobs, t)
    BY <1>1 DEF Called, Waited
  <2> HIDE DEF f
  <2>2. n.jobs = [h.jobs EXCEPT ![r] = j]
    OBVIOUS
  <2>3. Waited([h.jobs EXCEPT ![r] = j], rest) /\ Waited([h.jobs EXCEPT ![r] = j], t)
    BY <1>4, <1>5, <2>1, WaitedOther
  <2>4. QED
    BY <2>2, <2>3
<1>7. /\ Apart(n.in) /\ RevsOf(n.in) \subseteq RevsOf(h.in) \cup {r} /\ Waited(n.jobs, n.in)
  <2>1. n.jobs = [h.jobs EXCEPT ![r] = j] /\ r \in Revisions
    BY <1>3
  <2> HIDE DEF f
  <2>2. Waited(n.jobs, h.in)
    <3>1. Waited([h.jobs EXCEPT ![r] = j], h.in)
      BY <1>5, WaitedOther DEF Called
    <3>2. QED
      BY <2>1, <3>1
  <2>3. CASE n.in = h.in
    BY <2>2, <2>3 DEF Called
  <2>4. CASE \E type \in CallKinds : n.in = Append(h.in, Command(type, r))
                                     /\ j = Waits(Command(type, r))
    <3>1. PICK type \in CallKinds : n.in = Append(h.in, Command(type, r))
                                    /\ j = Waits(Command(type, r))
      BY <2>4
    <3> DEFINE c == Command(type, r)
    <3>2. Revs(c) = {r} /\ c \in ViewCommands
      BY <2>1, <3>1, RevsCommand DEF ViewCommands, Calls
    <3>3. n.in = Append(h.in, c) /\ j = Waits(c)
      BY <3>1
    <3> HIDE DEF c
    <3>4. Apart(Append(h.in, c)) /\ RevsOf(Append(h.in, c)) = RevsOf(h.in) \cup Revs(c)
      BY <1>5, <3>2, ApartAppend DEF Called
    <3>5. Range(Append(h.in, c)) = Range(h.in) \cup {c}
      BY <3>2, Appended
    <3>6. n.jobs[r] = j
      BY <2>1
    <3>7. Waited(n.jobs, n.in)
      BY <2>2, <3>2, <3>3, <3>5, <3>6 DEF Waited
    <3>8. QED
      BY <3>2, <3>3, <3>4, <3>7
  <2>5. QED
    BY <2>3, <2>4 DEF MayAsk
<1>8. \A g \in Range(t) : g \in HistoryFrames /\ g.rev = rev => g \in Range(n.replay.frames)
  <2>1. SUFFICES ASSUME NEW g \in Range(t), g \in HistoryFrames, g.rev = rev
                 PROVE  g \in Range(n.replay.frames)
    OBVIOUS
  <2>2. g \in Range(h.replay.frames)
    BY <1>1, <2>1 DEF Called
  <2>3. CASE f.rev = rev
    <3>1. g \in ResponseFrames
      BY <2>1 DEF ResponseFrames
    <3>2. Revs(g) = {rev}
      BY <1>2, <2>1, <3>1, RevsFrame
    <3>3. QED
      BY <1>4, <2>1, <2>3, <3>2 DEF RevsOf
  <2>4. QED
    BY <2>2, <2>3 DEF KeepsFrames
<1>9. RevsOf(n.in) \cap RevsOf(rest) = {} /\ RevsOf(n.in) \cap RevsOf(t) = {}
      /\ RevsOf(rest) \cap RevsOf(t) = {} /\ Apart(rest)
  BY <1>4, <1>5, <1>7 DEF Called
<1>10. QED
  BY <1>4, <1>6, <1>7, <1>8, <1>9 DEF Called

\* A rehydration goes on that awaits no answer, and may ask.
LEMMA CalledJob ==
  ASSUME NEW h, h.jobs \in [Revisions -> Phases], h.in \in Seq(ViewCommands),
         NEW rest \in Seq(ViewFrames), NEW rev, Called(h, rest, <<>>, rev),
         NEW r \in Revisions, h.jobs[r] \notin {"state", "page", "messages"}, NEW n, NEW j,
         n.jobs = [h.jobs EXCEPT ![r] = j],
         MayAsk(h, n, r, j)
  PROVE  Called(n, rest, <<>>, rev)
<1>1. r \notin RevsOf(h.in) /\ r \notin RevsOf(rest)
  <2>1. Range(h.in) \subseteq ViewCommands /\ Range(rest) \subseteq ViewFrames
    BY DEF Range
  <2>2. QED
    BY <2>1, NotWaiting DEF Called
<1>2. Waited(n.jobs, rest) /\ Waited(n.jobs, h.in)
  <2>1. Waited([h.jobs EXCEPT ![r] = j], rest) /\ Waited([h.jobs EXCEPT ![r] = j], h.in)
    BY <1>1, WaitedOther DEF Called
  <2>2. QED
    BY <2>1
<1>3. /\ Apart(n.in) /\ RevsOf(n.in) \subseteq RevsOf(h.in) \cup {r} /\ Waited(n.jobs, n.in)
  <2>1. CASE n.in = h.in
    BY <1>2, <2>1 DEF Called
  <2>2. CASE \E type \in CallKinds : n.in = Append(h.in, Command(type, r))
                                     /\ j = Waits(Command(type, r))
    <3>1. PICK type \in CallKinds : n.in = Append(h.in, Command(type, r))
                                    /\ j = Waits(Command(type, r))
      BY <2>2
    <3> DEFINE c == Command(type, r)
    <3>2. Revs(c) = {r} /\ c \in ViewCommands
      BY <3>1, RevsCommand DEF ViewCommands, Calls
    <3>3. n.in = Append(h.in, c) /\ j = Waits(c)
      BY <3>1
    <3> HIDE DEF c
    <3>4. Apart(Append(h.in, c)) /\ RevsOf(Append(h.in, c)) = RevsOf(h.in) \cup Revs(c)
      BY <1>1, <3>2, ApartAppend DEF Called
    <3>5. Range(Append(h.in, c)) = Range(h.in) \cup {c}
      BY <3>2, Appended
    <3>6. n.jobs[r] = j
      OBVIOUS
    <3>7. Waited(n.jobs, n.in)
      BY <1>2, <3>2, <3>3, <3>5, <3>6 DEF Waited
    <3>8. QED
      BY <3>2, <3>3, <3>4, <3>7
  <2>3. QED
    BY <2>1, <2>2 DEF MayAsk
<1>4. RevsOf(n.in) \cap RevsOf(rest) = {} /\ Apart(rest)
  BY <1>1, <1>3 DEF Called
<1>5. Range(<<>>) = {} /\ RevsOf(<<>>) = {} /\ Apart(<<>>) /\ Waited(n.jobs, <<>>)
  <2>1. Range(<<>>) = {}
    BY DEF Range
  <2>2. QED
    BY <2>1 DEF RevsOf, Apart, Waited
<1>6. QED
  BY <1>2, <1>3, <1>4, <1>5 DEF Called

-----------------------------------------------------------------------------
(* Sequences with some members left out. *)

\* g is what there is of t, after each member, when only those in S are kept.
Picks(g, t, S) ==
  /\ g[0] = <<>>
  /\ \A i \in 1..Len(t) : g[i] = IF t[i] \in S THEN Append(g[i - 1], t[i]) ELSE g[i - 1]
  /\ Only(t, S) = g[Len(t)]

\* There are such values.
LEMMA OnlyTrace ==
  ASSUME NEW T, NEW t \in Seq(T), NEW S
  PROVE  \E g : Picks(g, t, S)
<1> DEFINE n == Len(t)
           A == Seq(T)
           Step(kept, x) == IF x \in S THEN Append(kept, x) ELSE kept
           step == [i \in 1..n |-> [kept \in A |-> Step(kept, t[i])]]
           Body(it) == [s \in SUBSET DOMAIN t |->
                          IF s = {} THEN <<>> ELSE Step(it[s \ {Max(s)}], t[Max(s)])]
           iter == CHOOSE it : it = Body(it)
<1>1. n \in Nat /\ DOMAIN t = 1..n /\ \A i \in 1..n : t[i] \in T
  OBVIOUS
<1>2. Only(t, S) = iter[DOMAIN t]
  BY DEF Only, FoldLeft, MapThenFoldSet
<1>3. iter = Body(iter)
  <2>1. step \in [1..n -> [A -> A]]
    <3>1. \A i \in 1..n, kept \in A : Step(kept, t[i]) \in A
      BY <1>1
    <3> HIDE DEF Step, A
    <3>2. QED
      BY <3>1
  <2>2. PICK it \in [SUBSET (1..n) -> A] : Iterates(it, n, <<>>, step)
    <3>1. <<>> \in A
      OBVIOUS
    <3> HIDE DEF step, A, n
    <3>2. QED
      BY <1>1, <2>1, <3>1, IterExists
  <2>3. it = Body(it)
    <3>1. ASSUME NEW s \in SUBSET (1..n), s # {}
          PROVE  Max(s) \in 1..n
      BY <1>1, <3>1, MaxIn
    <3>2. \A s \in SUBSET (1..n) : s # {} =>
            step[Max(s)][it[s \ {Max(s)}]] = Step(it[s \ {Max(s)}], t[Max(s)])
      <4>1. \A s \in SUBSET (1..n) : it[s \ {Max(s)}] \in A
        BY <2>2
      <4> HIDE DEF Step, A
      <4>2. QED
        BY <3>1, <4>1
    <3> HIDE DEF step, Step, A
    <3>3. QED
      BY <1>1, <2>2, <3>2 DEF Iterates
  <2> HIDE DEF Body
  <2>4. QED
    BY <2>3, Zenon
<1>4. iter[{}] = <<>> /\ \A i \in 1..n : iter[1..i] = Step(iter[1..(i - 1)], t[i])
  <2> HIDE DEF iter, Step
  <2>1. \A s \in SUBSET (1..n) :
          iter[s] = IF s = {} THEN <<>> ELSE Step(iter[s \ {Max(s)}], t[Max(s)])
    BY <1>1, <1>3
  <2> HIDE DEF n
  <2>2. QED
    BY <1>1, <2>1, Initial
<1> DEFINE g == [i \in 0..n |-> iter[1..i]]
<1>5. QED
  <2> HIDE DEF iter, n
  <2>1. g[0] = <<>>
    BY <1>1, <1>4
  <2>2. \A i \in 1..n : g[i] = Step(g[i - 1], t[i])
    BY <1>1, <1>4
  <2>3. Only(t, S) = g[n]
    BY <1>1, <1>2
  <2> HIDE DEF g
  <2>4. Picks(g, t, S)
    BY <2>1, <2>2, <2>3 DEF Picks, n
  <2>5. QED
    BY <2>4

\* k keeps of the first i members of t those in S, in their order: place says where
\* each of them was.
KeepsOf(k, t, i, S) ==
  /\ \A x : x \in Range(k) <=> x \in S /\ \E j \in 1..i : t[j] = x
  /\ \E place : /\ \A a \in DOMAIN k : place[a] \in 1..i /\ k[a] = t[place[a]]
                /\ \A a, b \in DOMAIN k : a < b => place[a] < place[b]

\* What is left keeps its order and has every member of S.
LEMMA OnlyFacts ==
  ASSUME NEW T, NEW t \in Seq(T), NEW S
  PROVE  /\ Only(t, S) \in Seq(T) /\ Range(Only(t, S)) = Range(t) \cap S
         /\ KeepsOf(Only(t, S), t, Len(t), S)
<1> DEFINE n == Len(t)
<1>1. PICK g : /\ g[0] = <<>>
               /\ \A i \in 1..n :
                    g[i] = IF t[i] \in S THEN Append(g[i - 1], t[i]) ELSE g[i - 1]
               /\ Only(t, S) = g[n]
  <2>1. PICK g : Picks(g, t, S)
    BY OnlyTrace
  <2>2. QED
    BY <2>1 DEF Picks
<1>2. n \in Nat /\ DOMAIN t = 1..n /\ \A i \in 1..n : t[i] \in T
  OBVIOUS
<1> HIDE DEF n
<1> DEFINE U == [i \in 0..n |-> {k \in Seq(T) : KeepsOf(k, t, i, S)}]
<1>3. g[0] \in U[0]
  <2>1. Range(<<>>) = {} /\ DOMAIN <<>> = {} /\ <<>> \in Seq(T) /\ 1..0 = {}
    BY DEF Range
  <2>2. KeepsOf(<<>>, t, 0, S)
    BY <2>1 DEF KeepsOf
  <2>3. QED
    BY <1>1, <1>2, <2>1, <2>2
<1>4. ASSUME NEW i \in 1..n, g[i - 1] \in U[i - 1] PROVE g[i] \in U[i]
  <2> DEFINE k == g[i - 1]
             x == t[i]
             new == Append(k, x)
  <2>1. i \in 0..n /\ i - 1 \in 0..n /\ x \in T
    BY <1>2
  <2>2. k \in Seq(T) /\ KeepsOf(k, t, i - 1, S)
    BY <1>4, <2>1
  <2>3. (\A j \in 1..i : j = i \/ j \in 1..(i - 1)) /\ i \in 1..i
        /\ (\A j \in 1..(i - 1) : j \in 1..i /\ j < i)
    BY <1>2
  <2>4. PICK place : /\ \A a \in DOMAIN k : place[a] \in 1..(i - 1) /\ k[a] = t[place[a]]
                     /\ \A a, b \in DOMAIN k : a < b => place[a] < place[b]
    BY <2>2 DEF KeepsOf
  <2>5. CASE x \notin S
    <3>1. g[i] = k
      BY <1>1, <2>5
    <3> HIDE DEF k
    <3>2. \A y : y \in Range(k) <=> y \in S /\ \E j \in 1..i : t[j] = y
      BY <2>2, <2>3, <2>5 DEF KeepsOf
    <3>3. \A a \in DOMAIN k : place[a] \in 1..i /\ k[a] = t[place[a]]
      BY <2>3, <2>4
    <3>4. KeepsOf(k, t, i, S)
      BY <2>4, <3>2, <3>3 DEF KeepsOf
    <3>5. QED
      BY <2>1, <2>2, <3>1, <3>4
  <2>6. CASE x \in S
    <3>1. g[i] = new
      BY <1>1, <2>6
    <3> HIDE DEF k
    <3>2. /\ new \in Seq(T) /\ Len(k) \in Nat /\ DOMAIN k = 1..Len(k)
          /\ DOMAIN new = 1..(Len(k) + 1) /\ new[Len(k) + 1] = x
          /\ \A a \in 1..Len(k) : new[a] = k[a]
          /\ Range(new) = Range(k) \cup {x}
      BY <2>1, <2>2, Appended
    <3>3. \A y : y \in Range(new) <=> y \in S /\ \E j \in 1..i : t[j] = y
      <4> HIDE DEF new
      <4>1. \A y : y \in Range(new) <=> y \in Range(k) \/ y = t[i]
        BY <3>2
      <4>2. \A y : y \in Range(k) <=> y \in S /\ \E j \in 1..(i - 1) : t[j] = y
        BY <2>2 DEF KeepsOf
      <4>3. \A y : (\E j \in 1..i : t[j] = y) <=> y = t[i] \/ \E j \in 1..(i - 1) : t[j] = y
        BY <2>3
      <4>4. QED
        BY <2>6, <4>1, <4>2, <4>3
    <3> DEFINE where == [a \in 1..(Len(k) + 1) |-> IF a = Len(k) + 1 THEN i ELSE place[a]]
    <3>4. \A a \in 1..(Len(k) + 1) : a = Len(k) + 1 \/ a \in 1..Len(k)
      BY <3>2
    <3>5. \A a \in 1..Len(k) : a # Len(k) + 1 /\ a \in 1..(Len(k) + 1)
      BY <3>2
    <3>6. where[Len(k) + 1] = i /\ \A a \in 1..Len(k) : where[a] = place[a]
      BY <3>2, <3>5
    <3> HIDE DEF where, new
    <3>7. \A a \in DOMAIN new : where[a] \in 1..i /\ new[a] = t[where[a]]
      BY <2>3, <2>4, <3>2, <3>4, <3>6
    <3>8. \A a, b \in DOMAIN new : a < b => where[a] < where[b]
      <4>1. SUFFICES ASSUME NEW a \in 1..(Len(k) + 1), NEW b \in 1..(Len(k) + 1), a < b
                     PROVE  where[a] < where[b]
        BY <3>2
      <4>2. a \in 1..Len(k)
        BY <3>2, <4>1
      <4>3. CASE b = Len(k) + 1
        <5>1. place[a] < i
          BY <2>3, <2>4, <3>2, <4>2
        <5>2. QED
          BY <3>6, <4>2, <4>3, <5>1
      <4>4. CASE b \in 1..Len(k)
        BY <2>4, <3>2, <3>6, <4>1, <4>2, <4>4
      <4>5. QED
        BY <3>4, <4>3, <4>4
    <3>9. KeepsOf(new, t, i, S)
      BY <3>3, <3>7, <3>8 DEF KeepsOf
    <3>10. QED
      BY <2>1, <3>1, <3>2, <3>9
  <2>7. QED
    BY <2>5, <2>6
<1>5. g[n] \in U[n]
  <2>1. n \in 0..n
    BY <1>2
  <2> HIDE DEF U
  <2>2. QED
    BY <1>2, <1>3, <1>4, <2>1, Along
<1>6. KeepsOf(Only(t, S), t, n, S) /\ Only(t, S) \in Seq(T)
  BY <1>1, <1>2, <1>5
<1>7. Range(Only(t, S)) = Range(t) \cap S
  <2>1. \A x : x \in Range(t) <=> \E j \in 1..n : t[j] = x
    BY <1>2 DEF Range
  <2>2. QED
    BY <1>6, <2>1 DEF KeepsOf
<1>8. QED
  BY <1>6, <1>7 DEF n

-----------------------------------------------------------------------------
(* The host. *)

\* The replay buffers and the states of the host in which the live message is shown.
Buffers == [revision : 0..MaxRevisions, frames : Seq(ViewFrames), requests : Seq(AskFrames)]

\* The fields of the host.
LEMMA HostFields ==
  ASSUME NEW h \in HostRecords
  PROVE  /\ h.following \in BOOLEAN /\ h.active \in Seq(ViewFrames) /\ h.overflow \in BOOLEAN
         /\ h.replay \in Buffers /\ h.view \in ViewsHere /\ h.jobs \in [Revisions -> Phases]
         /\ h.todo \in [Revisions -> Seq(ViewFrames)] /\ h.in \in Seq(ViewCommands)
         /\ h.lost \in SUBSET (1..MaxMessages)
BY DEF HostRecords, Buffers, ViewsHere

\* The fields of the buffer.
LEMMA BufferFields ==
  ASSUME NEW b \in Buffers
  PROVE  /\ b.revision \in 0..MaxRevisions /\ b.frames \in Seq(ViewFrames)
         /\ b.requests \in Seq(AskFrames)
BY DEF Buffers

\* A request is kept until it is cancelled.
LEMMA WithoutFacts ==
  ASSUME NEW requests \in Seq(AskFrames), NEW id
  PROVE  /\ Without(requests, id) \in Seq(AskFrames)
         /\ \A r : Asks(r) \in Range(requests) /\ r # id => Asks(r) \in Range(Without(requests, id))
<1>1. /\ Without(requests, id) \in Seq(AskFrames)
      /\ Range(Without(requests, id)) = Range(requests) \cap {f \in Range(requests) : f.id # id}
  BY OnlyFacts DEF Without
<1>2. \A r : Asks(r).id = r
  BY RequestFrame
<1>3. QED
  BY <1>1, <1>2

\* What a frame changes of the requests the host remembers.
LEMMA Observed ==
  ASSUME NEW b \in Buffers, NEW f \in ViewFrames, NEW c, c = ObserveUiRequest(b, f)
  PROVE  /\ c \in Buffers /\ c.revision = b.revision /\ c.frames = b.frames
         /\ \A r \in Requests : /\ Asks(r) \in Range(b.requests) /\ f # Cancels(r) =>
                                     Asks(r) \in Range(c.requests)
                                /\ f = Asks(r) => Asks(r) \in Range(c.requests)
<1>1. b.requests \in Seq(AskFrames)
  BY BufferFields
<1>2. CASE f.type # "extension_ui_request"
  <2>1. c = b
    BY <1>2 DEF ObserveUiRequest
  <2>2. \A r \in Requests : f # Asks(r)
    BY <1>2, RequestFrame
  <2>3. QED
    BY <2>1, <2>2
<1>3. CASE f.type = "extension_ui_request" /\ f.method = "cancel"
  <2> DEFINE qs == Without(b.requests, f.id)
  <2>1. c = [b EXCEPT !.requests = qs]
    BY <1>3 DEF ObserveUiRequest
  <2>2. qs \in Seq(AskFrames)
        /\ \A r : Asks(r) \in Range(b.requests) /\ r # f.id => Asks(r) \in Range(qs)
    BY <1>1, WithoutFacts
  <2>3. \A r \in Requests : f # Asks(r) /\ (f # Cancels(r) => r # f.id)
    <3>1. f \in CancelFrames
      BY <1>3, FrameKinds
    <3>2. QED
      BY <1>3, <3>1, RequestFrame
  <2> HIDE DEF qs
  <2>4. c \in Buffers /\ c.revision = b.revision /\ c.frames = b.frames /\ c.requests = qs
    BY <2>1, <2>2 DEF Buffers
  <2>5. QED
    BY <2>2, <2>3, <2>4
<1>4. CASE f.type = "extension_ui_request" /\ f.method # "cancel"
  <2>1. f \in AskFrames
    BY <1>4, FrameKinds
  <2>2. f = Asks(f.id) /\ f.id \in Requests
    BY <2>1, RequestFrame
  <2>3. CASE \E i \in DOMAIN b.requests : b.requests[i].id = f.id
    <3>1. c = b
      BY <1>4, <2>3 DEF ObserveUiRequest
    <3>2. PICK i \in DOMAIN b.requests : b.requests[i].id = f.id
      BY <2>3
    <3>3. b.requests[i] = f
      <4>1. b.requests[i] \in AskFrames
        BY <1>1, <3>2
      <4>2. b.requests[i] = Asks(b.requests[i].id)
        BY <4>1, RequestFrame
      <4>3. QED
        BY <2>2, <3>2, <4>2
    <3>4. f \in Range(b.requests)
      BY <3>2, <3>3 DEF Range
    <3>5. QED
      BY <3>1, <3>4
  <2>4. CASE ~\E i \in DOMAIN b.requests : b.requests[i].id = f.id
    <3> DEFINE qs == Append(b.requests, f)
    <3>1. c = [b EXCEPT !.requests = qs]
      BY <1>4, <2>4 DEF ObserveUiRequest
    <3>2. qs \in Seq(AskFrames) /\ Range(qs) = Range(b.requests) \cup {f}
      BY <1>1, <2>1, Appended
    <3> HIDE DEF qs
    <3>3. c \in Buffers /\ c.revision = b.revision /\ c.frames = b.frames /\ c.requests = qs
      BY <3>1, <3>2 DEF Buffers
    <3>4. QED
      BY <3>2, <3>3
  <2>5. QED
    BY <2>3, <2>4
<1>5. QED
  BY <1>2, <1>3, <1>4

\* Between turns nothing is kept.
Hosts ==
  {h \in HostRecords : HostTyped(h) /\ (~h.following => h.active = <<>> /\ ~h.overflow)}

\* After f a turn is taken to run.
Following(h, f) == f \in {AgentStarts, TurnStarts} \/ (f \notin TurnOver /\ h.following)

\* What is kept of a turn that runs.  One that was taken for over and goes on is kept
\* from its next frame.
Kept(h, n, f) ==
  \/ f \in TurnOver /\ n.active = <<>> /\ ~n.overflow /\ ~n.following
  \/ f \notin TurnOver /\ n.active = <<>> /\ n.overflow /\ n.following
  \/ /\ f \notin TurnOver /\ n.active = Append(h.active, f) /\ ~n.overflow /\ n.following
     /\ ~h.overflow
  \/ /\ f # AgentStarts /\ n.active = <<>> /\ ~n.overflow /\ n.following = (f = TurnStarts)
     /\ ~h.overflow /\ ~h.following

\* h receives the frame f and becomes n.
Received(h, n, f) ==
  /\ n \in Hosts /\ n.in = h.in /\ n.jobs = h.jobs /\ n.todo = h.todo /\ n.lost = h.lost
  /\ n.following = Following(h, f)
  /\ Kept(h, n, f) /\ n.replay.revision = h.replay.revision
  /\ \A r \in Requests :
       /\ Asks(r) \in Range(h.replay.requests) /\ f # Cancels(r) =>
            Asks(r) \in Range(n.replay.requests)
       /\ f = Asks(r) => Asks(r) \in Range(n.replay.requests)
  /\ IF Captures(h.replay, revision)
     THEN n.replay.frames = Append(h.replay.frames, f) /\ n.view = h.view
     ELSE /\ n.replay.frames = h.replay.frames
          /\ n.view = Posted(h.view, Rpc(f))

\* A frame that is posted to the view.
LEMMA PostedFrame ==
  ASSUME NEW v, Placing(v), NEW f \in ViewFrames, NEW n, n = Posted(v, Rpc(f))
  PROVE  /\ page \in {"listening", "ready"} => n = ReduceRpcFrame(v, f)
         /\ page \notin {"listening", "ready"} => n = v
         /\ Placing(n) /\ n.transport = v.transport /\ n.parity = v.parity
<1>1. CASE page \in {"listening", "ready"}
  <2>1. n = ReceiveHostMessage(v, Rpc(f))
    BY <1>1 DEF Posted
  <2>2. Rpc(f).type = "rpc" /\ Rpc(f).frame = f
    BY DEF Rpc
  <2>3. n = ReduceRpcFrame(v, f)
    BY <2>1, <2>2 DEF ReceiveHostMessage
  <2>4. Reduced(v, n, f)
    BY <2>3, ReducedFrame
  <2>5. QED
    BY <1>1, <2>3, <2>4 DEF Reduced
<1>2. CASE page \notin {"listening", "ready"}
  <2>1. n = v
    BY <1>2 DEF Posted
  <2>2. QED
    BY <1>2, <2>1
<1>3. QED
  BY <1>1, <1>2

\* The turn that is kept.
LEMMA Remembered ==
  ASSUME NEW h \in Hosts, NEW f \in ViewFrames, NEW o, o = Observe(h, f)
  PROVE  /\ o = [h EXCEPT !.replay = ObserveUiRequest(h.replay, f), !.active = o.active,
                          !.overflow = o.overflow]
         /\ o.active \in Seq(ViewFrames) /\ o.overflow \in BOOLEAN
         /\ Len(o.active) <= MaxActive /\ (o.overflow => o.active = <<>>)
         /\ Kept(h, [o EXCEPT !.following = Following(h, f)], f)
<1> DEFINE b == ObserveUiRequest(h.replay, f)
           g == [h EXCEPT !.replay = b]
           going == Following(h, f)
<1>1. /\ h.following \in BOOLEAN /\ h.active \in Seq(ViewFrames) /\ h.overflow \in BOOLEAN
      /\ h \in HostRecords /\ Len(h.active) <= MaxActive /\ (h.overflow => h.active = <<>>)
      /\ ~h.following => h.active = <<>> /\ ~h.overflow
  BY HostFields DEF Hosts, HostTyped
<1>2. b \in Buffers
  BY HostFields, Observed DEF Hosts
<1> HIDE DEF b
<1>3. /\ g \in HostRecords /\ g.following = h.following /\ g.active = h.active
      /\ g.overflow = h.overflow
  BY <1>1, <1>2 DEF HostRecords, Buffers
<1> HIDE DEF g
<1>4. MaxActive \in Nat
  BY ViewAssumption
<1>5. CASE f \in TurnOver
  <2>1. f \notin {AgentStarts, TurnStarts}
    BY <1>5, TurnKinds
  <2> DEFINE kept == IF h.following THEN Remember(g, f) ELSE g
  <2>2. o = Forget(kept)
    <3>1. o = LET begun == IF f = AgentStarts /\ ~g.following THEN Forget(g) ELSE g
                  k == IF Remembers(begun, f) THEN Remember(begun, f) ELSE begun
              IN  IF f \in TurnOver THEN Forget(k) ELSE k
      BY DEF Observe, g, b
    <3>2. QED
      BY <1>3, <1>5, <2>1, <3>1 DEF Remembers
  <2>3. \E a, y : kept = [g EXCEPT !.active = a, !.overflow = y]
    <3>1. g = [g EXCEPT !.active = g.active, !.overflow = g.overflow]
      BY <1>3 DEF HostRecords
    <3>2. Remember(g, f) = g \/ Remember(g, f) = [g EXCEPT !.active = <<>>, !.overflow = TRUE]
          \/ Remember(g, f) = [g EXCEPT !.active = Append(g.active, f)]
      BY DEF Remember
    <3>3. [g EXCEPT !.active = Append(g.active, f)] =
             [g EXCEPT !.active = Append(g.active, f), !.overflow = g.overflow]
      BY <1>3 DEF HostRecords
    <3>4. QED
      BY <3>1, <3>2, <3>3
  <2> HIDE DEF kept
  <2>4. o = [h EXCEPT !.replay = b, !.active = <<>>, !.overflow = FALSE]
    <3>1. PICK a, y : kept = [g EXCEPT !.active = a, !.overflow = y]
      BY <2>3
    <3>2. QED
      BY <1>1, <1>3, <2>2, <3>1 DEF Forget, HostRecords, g
  <2>5. o.active = <<>> /\ o.overflow = FALSE
    BY <1>1, <2>4 DEF HostRecords
  <2>6. Kept(h, [o EXCEPT !.following = going], f)
    <3>1. ~going
      BY <1>5, <2>1 DEF Following
    <3> HIDE DEF going
    <3>2. QED
      BY <1>1, <1>5, <2>4, <3>1 DEF Kept, HostRecords
  <2>7. QED
    BY <1>4, <2>4, <2>5, <2>6 DEF b
<1>6. CASE f \notin TurnOver /\ ~h.following /\ f # AgentStarts
  <2>1. o = g
    BY <1>3, <1>6 DEF Observe, Remembers, g, b
  <2>2. o = [h EXCEPT !.replay = b, !.active = o.active, !.overflow = o.overflow]
        /\ o.active = h.active /\ o.overflow = h.overflow
    BY <1>1, <1>3, <2>1 DEF HostRecords, g
  <2>3. Kept(h, [o EXCEPT !.following = going], f)
    <3>1. going = (f = TurnStarts)
      BY <1>6 DEF Following
    <3> HIDE DEF going
    <3>2. QED
      BY <1>1, <1>3, <1>6, <2>1, <2>2, <3>1 DEF Kept, HostRecords
  <2>4. QED
    BY <1>1, <2>2, <2>3 DEF b
<1>7. CASE f \notin TurnOver /\ (h.following \/ f = AgentStarts)
  <2> DEFINE begun == IF f = AgentStarts /\ ~h.following THEN Forget(g) ELSE g
  <2>1. o = Remember(begun, f)
    <3>1. o = LET begun2 == IF f = AgentStarts /\ ~g.following THEN Forget(g) ELSE g
                  k == IF Remembers(begun2, f) THEN Remember(begun2, f) ELSE begun2
              IN  IF f \in TurnOver THEN Forget(k) ELSE k
      BY DEF Observe, g, b
    <3>2. Remembers(begun, f)
      BY <1>3, <1>7 DEF Remembers
    <3>3. QED
      BY <1>3, <1>7, <3>1, <3>2
  <2>2. begun = g
    <3>1. ~h.following => Forget(g) = g
      BY <1>1, <1>3 DEF Forget, HostRecords
    <3>2. QED
      BY <3>1
  <2>3. going
    BY <1>7 DEF Following
  <2> HIDE DEF begun, going
  <2>4. CASE h.overflow
    <3>1. o = g
      BY <1>3, <2>1, <2>2, <2>4 DEF Remember
    <3>2. o = [h EXCEPT !.replay = b, !.active = o.active, !.overflow = o.overflow]
          /\ o.active = <<>> /\ o.overflow = TRUE
      BY <1>1, <1>3, <2>4, <3>1 DEF HostRecords, g
    <3>3. Kept(h, [o EXCEPT !.following = going], f)
      BY <1>3, <1>7, <2>3, <3>1, <3>2 DEF Kept, HostRecords
    <3>4. /\ o.active \in Seq(ViewFrames) /\ o.overflow \in BOOLEAN
          /\ Len(o.active) <= MaxActive /\ (o.overflow => o.active = <<>>)
      <4>1. <<>> \in Seq(ViewFrames) /\ Len(<<>>) = 0
        OBVIOUS
      <4>2. o.active = <<>>
        BY <3>2
      <4>3. o.active \in Seq(ViewFrames) /\ Len(o.active) <= MaxActive
        BY <1>4, <4>1, <4>2
      <4>4. o.overflow \in BOOLEAN
        BY <3>2
      <4>5. QED
        BY <4>2, <4>3, <4>4
    <3>5. QED
      BY <3>2, <3>3, <3>4 DEF b, going
  <2>5. CASE ~h.overflow /\ Len(h.active) >= MaxActive
    <3>1. o = [g EXCEPT !.active = <<>>, !.overflow = TRUE]
      BY <1>3, <2>1, <2>2, <2>5 DEF Remember
    <3>2. o = [h EXCEPT !.replay = b, !.active = o.active, !.overflow = o.overflow]
          /\ o.active = <<>> /\ o.overflow = TRUE
      BY <1>1, <1>3, <3>1 DEF HostRecords, g
    <3>3. Kept(h, [o EXCEPT !.following = going], f)
      BY <1>3, <1>7, <2>3, <3>1, <3>2 DEF Kept, HostRecords
    <3>4. /\ o.active \in Seq(ViewFrames) /\ o.overflow \in BOOLEAN
          /\ Len(o.active) <= MaxActive /\ (o.overflow => o.active = <<>>)
      <4>1. <<>> \in Seq(ViewFrames) /\ Len(<<>>) = 0
        OBVIOUS
      <4>2. o.active = <<>>
        BY <3>2
      <4>3. o.active \in Seq(ViewFrames) /\ Len(o.active) <= MaxActive
        BY <1>4, <4>1, <4>2
      <4>4. o.overflow \in BOOLEAN
        BY <3>2
      <4>5. QED
        BY <4>2, <4>3, <4>4
    <3>5. QED
      BY <3>2, <3>3, <3>4 DEF b, going
  <2>6. CASE ~h.overflow /\ ~(Len(h.active) >= MaxActive)
    <3> DEFINE a == Append(h.active, f)
    <3>1. o = [g EXCEPT !.active = a]
      BY <1>3, <2>1, <2>2, <2>6 DEF Remember
    <3>2. a \in Seq(ViewFrames) /\ Len(a) = Len(h.active) + 1 /\ Len(h.active) \in Nat
      BY <1>1, Appended
    <3>3. Len(a) <= MaxActive
      BY <1>4, <2>6, <3>2
    <3>4. a = Append(h.active, f)
      OBVIOUS
    <3> HIDE DEF a
    <3>5. o = [h EXCEPT !.replay = b, !.active = a, !.overflow = FALSE]
          /\ o.active = a /\ o.overflow = FALSE
      BY <1>1, <1>3, <2>6, <3>1 DEF HostRecords, g
    <3>6. Kept(h, [o EXCEPT !.following = going], f)
      BY <1>3, <1>7, <2>3, <2>6, <3>1, <3>4, <3>5 DEF Kept, HostRecords
    <3>7. QED
      BY <3>2, <3>3, <3>5, <3>6 DEF b, going
  <2>7. QED
    BY <2>4, <2>5, <2>6
<1>8. QED
  BY <1>1, <1>5, <1>6, <1>7 DEF Following

\* What the host does with a frame.
LEMMA ReceivedFrame ==
  ASSUME NEW h \in Hosts, NEW f \in ViewFrames, NEW n, n = ReceiveRpcFrame(h, f)
  PROVE  Received(h, n, f)
<1> DEFINE b == ObserveUiRequest(h.replay, f)
           o == Observe(h, f)
           going == Following(h, f)
           w == Follow(o, f)
           c == IF Captures(h.replay, revision) THEN Capture(b, f) ELSE b
           v == IF Captures(h.replay, revision) THEN h.view ELSE Posted(h.view, Rpc(f))
<1>1. /\ h.following \in BOOLEAN /\ h \in HostRecords
      /\ h.replay \in Buffers /\ h.view \in ViewsHere
      /\ HostTyped(h) /\ Placing(h.view)
  BY HostFields DEF Hosts, HostTyped, Placing
<1>2. /\ b \in Buffers /\ b.revision = h.replay.revision /\ b.frames = h.replay.frames
      /\ \A r \in Requests :
           /\ Asks(r) \in Range(h.replay.requests) /\ f # Cancels(r) =>
                Asks(r) \in Range(b.requests)
           /\ f = Asks(r) => Asks(r) \in Range(b.requests)
  BY <1>1, Observed
<1>3. /\ o = [h EXCEPT !.replay = b, !.active = o.active, !.overflow = o.overflow]
      /\ o.active \in Seq(ViewFrames) /\ o.overflow \in BOOLEAN
      /\ Len(o.active) <= MaxActive /\ (o.overflow => o.active = <<>>)
      /\ Kept(h, [o EXCEPT !.following = going], f)
  BY Remembered
<1>4. w = [o EXCEPT !.following = going]
  <2>1. o.following = h.following
    BY <1>1, <1>3 DEF HostRecords
  <2>2. w = [o EXCEPT !.following = f \in {AgentStarts, TurnStarts}
                                    \/ (f \notin TurnOver /\ o.following)]
    BY DEF Follow
  <2>3. (f \in {AgentStarts, TurnStarts} \/ (f \notin TurnOver /\ o.following)) = going
    BY <1>1, <2>1 DEF Following
  <2>4. QED
    BY <2>2, <2>3
<1>5. w.replay = b /\ w.view = h.view
  <2> HIDE DEF b, o, w, going
  <2>1. QED
    BY <1>1, <1>3, <1>4 DEF HostRecords
<1>6. n = [w EXCEPT !.replay = c, !.view = v]
  <2>1. Captures(w.replay, revision) <=> Captures(h.replay, revision)
    BY <1>2, <1>5 DEF Captures
  <2>2. n = Deliver(w, f)
    BY DEF ReceiveRpcFrame
  <2>3. CASE Captures(h.replay, revision)
    <3>1. n = [w EXCEPT !.replay = Capture(b, f)]
      BY <1>5, <2>1, <2>2, <2>3 DEF Deliver
    <3>2. c = Capture(b, f) /\ v = w.view
      BY <1>5, <2>3
    <3>3. w = [w EXCEPT !.view = w.view]
      <4> HIDE DEF b, o, w, going
      <4>1. QED
        BY <1>1, <1>3, <1>4 DEF HostRecords
    <3> HIDE DEF b, c, v, w
    <3>4. QED
      BY <3>1, <3>2, <3>3
  <2>4. CASE ~Captures(h.replay, revision)
    <3>1. n = [w EXCEPT !.view = Posted(h.view, Rpc(f))]
      BY <1>5, <2>1, <2>2, <2>4 DEF Deliver
    <3>2. c = w.replay /\ v = Posted(h.view, Rpc(f))
      BY <1>5, <2>4
    <3>3. w = [w EXCEPT !.replay = w.replay]
      <4> HIDE DEF b, o, w, going
      <4>1. QED
        BY <1>1, <1>3, <1>4 DEF HostRecords
    <3> HIDE DEF b, c, v, w
    <3>4. QED
      BY <3>1, <3>2, <3>3
  <2>5. QED
    BY <2>3, <2>4
<1>7. /\ c \in Buffers /\ c.revision = h.replay.revision /\ c.requests = b.requests
      /\ c.frames = IF Captures(h.replay, revision) THEN Append(h.replay.frames, f)
                    ELSE h.replay.frames
  <2>1. Append(b.frames, f) \in Seq(ViewFrames)
    BY <1>2, BufferFields, Appended
  <2> DEFINE fs == Append(b.frames, f)
  <2>2. fs \in Seq(ViewFrames) /\ fs = Append(h.replay.frames, f)
    BY <1>2, <2>1
  <2>3. Capture(b, f) = [b EXCEPT !.frames = fs]
    BY DEF Capture
  <2> HIDE DEF b, fs
  <2>4. QED
    BY <1>2, <2>2, <2>3 DEF Buffers
<1>8. /\ Placing(v)
      /\ v = IF Captures(h.replay, revision) THEN h.view ELSE Posted(h.view, Rpc(f))
  BY <1>1, PostedFrame
<1>9. /\ n \in HostRecords /\ n.in = h.in /\ n.jobs = h.jobs /\ n.todo = h.todo /\ n.lost = h.lost
      /\ n.following = going /\ n.active = o.active /\ n.overflow = o.overflow
      /\ n.replay = c /\ n.view = v
  <2>0. going \in BOOLEAN
    BY <1>1 DEF Following
  <2>1. v \in ViewsHere /\ going \in BOOLEAN
    BY <1>1, <1>8, <2>0 DEF Placing
  <2> HIDE DEF b, o, w, c, v, going
  <2>2. n = [h EXCEPT !.replay = c, !.active = o.active, !.overflow = o.overflow,
                      !.following = going, !.view = v]
    BY <1>1, <1>3, <1>4, <1>6 DEF HostRecords
  <2>3. QED
    BY <1>1, <1>3, <1>7, <2>1, <2>2 DEF HostRecords, Buffers, ViewsHere
<1> HIDE DEF b, o, w, c, v, going
<1>10. HostTyped(n)
  BY <1>3, <1>8, <1>9 DEF HostTyped, Placing
<1>11. Kept(h, n, f)
  <2>1. /\ w.active = o.active /\ w.overflow = o.overflow /\ w.following = going
    BY <1>1, <1>3, <1>4, <1>9 DEF HostRecords
  <2>2. Kept(h, w, f)
    BY <1>3, <1>4
  <2>3. QED
    BY <1>9, <2>1, <2>2 DEF Kept
<1>12. n \in Hosts
  BY <1>9, <1>10, <1>11 DEF Hosts, Kept
<1>13. QED
  BY <1>2, <1>7, <1>8, <1>9, <1>11, <1>12 DEF Received, going

\* Between turns nothing is kept, and OMP is where its frames say.
LEMMA CoherentHost ==
  ASSUME NEW h, NEW rest, NEW answers, Coherent(h, rest, answers)
  PROVE  h \in Hosts /\ Placing(h.view)
BY HostFields DEF Coherent, HostTyped, Knows, Hosts, Placing

\* The invariant says what OMP can be at.
LEMMA AgentPossible ==
  ASSUME AgentTyped
  PROVE  Possible(Agent) /\ Agent \in Agents
BY DEF AgentTyped, Possible, Agent, Agents

\* The joints of sequences of frames.
LEMMA FramesJoined ==
  ASSUME NEW s \in Seq(ViewFrames), NEW t \in Seq(ViewFrames)
  PROVE  /\ s \o t \in Seq(ViewFrames) /\ <<>> \o t = t /\ s \o <<>> = s
         /\ t # <<>> => Append(s, t[1]) \o Tail(t) = s \o t
         /\ \A f \in ViewFrames : s \o Append(t, f) = Append(s \o t, f)
<1>1. s \o t \in Seq(ViewFrames) /\ <<>> \o t = t /\ s \o <<>> = s
  OBVIOUS
<1>2. ASSUME t # <<>> PROVE Append(s, t[1]) \o Tail(t) = s \o t
  <2> DEFINE x == t[1]
             u == Tail(t)
  <2>1. x \in ViewFrames /\ u \in Seq(ViewFrames) /\ <<x>> \in Seq(ViewFrames)
    BY <1>2, HeadAndTail
  <2>2. t = <<x>> \o u
    <3>1. Len(t) \in Nat /\ 1 \in 1..Len(t) /\ Len(t) \in 1..Len(t)
      BY <1>2, HeadAndTail
    <3>2. SubSeq(t, 1, Len(t)) = <<x>> \o SubSeq(t, 1 + 1, Len(t))
      BY <3>1, SubSeqRecursiveFirst
    <3>3. SubSeq(t, 1, Len(t)) = t /\ u = SubSeq(t, 2, Len(t))
      BY <1>2, SubSeqFull, TailIsSubSeq
    <3> HIDE DEF u
    <3>4. QED
      BY <3>2, <3>3
  <2>3. Append(s, x) = s \o <<x>>
    BY <2>1, AppendIsConcat
  <2> HIDE DEF x, u
  <2>4. (s \o <<x>>) \o u = s \o (<<x>> \o u)
    BY <2>1, ConcatAssociative
  <2>5. Append(s, x) \o u = s \o t
    BY <2>2, <2>3, <2>4
  <2>6. QED
    BY <2>5 DEF x, u
<1>3. ASSUME NEW f \in ViewFrames PROVE s \o Append(t, f) = Append(s \o t, f)
  OBVIOUS
<1>4. QED
  BY <1>1, <1>2, <1>3

\* Receiving a frame, part by part: what the host knows.
LEMMA ReceivedKnows ==
  ASSUME NEW h \in Hosts, NEW rest \in Seq(ViewFrames), rest # <<>>, NEW e \in Agents,
         Knows(h, rest, e), NEW n, Received(h, n, rest[1]),
         ~Captures(h.replay, revision) => h.replay.frames = <<>>
  PROVE  Knows(n, Tail(rest), e)
<1> DEFINE f == rest[1]
           t == Tail(rest)
           a == h.active
           fs == h.replay.frames
<1>1. f \in ViewFrames /\ t \in Seq(ViewFrames) /\ Range(rest) = {f} \cup Range(t)
  BY HeadAndTail
<1>2. /\ a \in Seq(ViewFrames) /\ fs \in Seq(ViewFrames) /\ h.following \in BOOLEAN
      /\ h.overflow \in BOOLEAN /\ e.asked \in SUBSET Requests
      /\ ~h.following => a = <<>>
  BY HostFields, BufferFields DEF Hosts, Agents
<1>3. Orderly(a \o rest, e) /\ Orderly(fs \o rest, e)
  BY DEF Knows
<1>4. Orderly(rest, e)
  BY <1>2, <1>3, OrderlyAfter
<1>5. Orderly(t, e)
  BY <1>4, OrderlyTail
<1>6. Append(a, f) \o t = a \o rest /\ Append(fs, f) \o t = fs \o rest
      /\ <<>> \o rest = rest /\ <<>> \o t = t
  BY <1>1, <1>2, FramesJoined
<1> HIDE DEF f, t, a, fs
<1>7. /\ n.following = Following(h, f)
      /\ Kept(h, n, f)
      /\ \A r \in Requests :
           /\ Asks(r) \in Range(h.replay.requests) /\ f # Cancels(r) =>
                Asks(r) \in Range(n.replay.requests)
           /\ f = Asks(r) => Asks(r) \in Range(n.replay.requests)
      /\ IF Captures(h.replay, revision) THEN n.replay.frames = Append(fs, f)
         ELSE n.replay.frames = fs
      /\ n.in = h.in
  BY DEF Received, f, fs
<1>8. n.active = <<>> \/ n.active = Append(a, f)
  BY <1>7 DEF Kept, a
<1>9. Orderly(n.active \o t, e)
  BY <1>3, <1>5, <1>6, <1>8
<1>10. Orderly(n.replay.frames \o t, e)
  <2>1. CASE Captures(h.replay, revision)
    BY <1>3, <1>6, <1>7, <2>1
  <2>2. CASE ~Captures(h.replay, revision)
    <3>1. n.replay.frames = <<>>
      BY <1>7, <2>2 DEF fs
    <3>2. QED
      BY <1>5, <1>6, <3>1
  <2>3. QED
    BY <2>1, <2>2
<1>11. ASSUME e.busy PROVE Runs(n.following, t)
  <2>1. Runs(h.following, rest)
    BY <1>11 DEF Knows
  <2>2. TurnOver \subseteq Stops
    BY DEF Stops
  <2>3. f = AgentStarts => n.following
    BY <1>7 DEF Following
  <2>4. h.following /\ f \notin Stops => n.following
    BY <1>7, <2>2 DEF Following
  <2>5. QED
    BY <2>1, <2>3, <2>4, RunsTail DEF f, t
<1>12. ASSUME e.busy, n.following, ~n.overflow PROVE Runs(FALSE, n.active \o t)
  <2>1. CASE n.active = Append(a, f) /\ ~h.overflow
    <3>1. n.active \o t = a \o rest
      BY <1>6, <2>1
    <3>2. CASE h.following
      BY <1>12, <2>1, <3>1, <3>2 DEF Knows, a
    <3>3. CASE ~h.following
      <4>1. Runs(h.following, rest)
        BY <1>12 DEF Knows
      <4>2. a \o rest = rest
        BY <1>2, <1>6, <3>3
      <4>3. Runs(FALSE, rest)
        BY <3>3, <4>1 DEF Runs
      <4>4. QED
        BY <3>1, <4>2, <4>3
    <3>4. QED
      BY <3>2, <3>3
  \* The turn that is spoken of begins only in what is left.
  <2>2. CASE f # AgentStarts /\ n.active = <<>> /\ ~h.following
    <3>1. Runs(h.following, rest)
      BY <1>12 DEF Knows
    <3>2. Runs(FALSE, rest)
      BY <2>2, <3>1 DEF Runs
    <3>3. Runs(FALSE, t)
      BY <2>2, <3>2, RunsTail DEF f, t
    <3>4. QED
      BY <1>6, <2>2, <3>3
  <2>3. QED
    BY <1>7, <1>12, <2>1, <2>2 DEF Kept, a
<1>13. ~n.following => n.active = <<>> /\ ~n.overflow
  BY <1>7 DEF Kept
<1>14. ASSUME NEW r \in e.asked
       PROVE  \/ UiResponse(r) \in Range(n.in) \/ Asks(r) \in Range(n.replay.requests)
              \/ Asks(r) \in Range(t)
  <2>1. \/ UiResponse(r) \in Range(h.in) \/ Asks(r) \in Range(h.replay.requests)
        \/ Asks(r) \in Range(rest)
    BY DEF Knows
  <2>2. r \in Requests
    BY <1>2
  <2>3. f # Cancels(r)
    <3>1. f \in Range(rest)
      BY <1>1
    <3>2. QED
      BY <1>4, <2>2, <3>1 DEF Orderly, Settled
  <2>4. QED
    BY <1>1, <1>7, <2>1, <2>2, <2>3
<1>15. QED
  BY <1>9, <1>10, <1>11, <1>12, <1>13, <1>14 DEF Knows, t

\* What the view sees.
LEMMA ReceivedSees ==
  ASSUME NEW h \in Hosts, NEW rest \in Seq(ViewFrames), rest # <<>>, NEW e, Possible(e),
         NEW rev \in 0..MaxRevisions, rev = revision, Phased(h, rev, page), Sees(h, rest, e, rev),
         NEW n, Received(h, n, rest[1])
  PROVE  Sees(n, Tail(rest), e, rev)
<1> DEFINE f == rest[1]
           t == Tail(rest)
           fs == h.replay.frames
           td == h.todo[rev]
<1>1. f \in ViewFrames /\ t \in Seq(ViewFrames) /\ Range(rest) = {f} \cup Range(t)
  BY HeadAndTail
<1>2. SUFFICES ASSUME ShowsHistory(n, rev)
               PROVE  Follows(n.view, Coming(n, t, rev), n.in, n.lost, e, Outgrown(n, t))
  BY DEF Sees
<1>3. n.in = h.in /\ n.jobs = h.jobs /\ n.todo = h.todo /\ n.lost = h.lost
  BY DEF Received
<1>4. ShowsHistory(h, rev) /\ rev # 0 /\ rev \in Revisions
  BY <1>2, <1>3, ViewAssumption DEF ShowsHistory, Revisions
<1>5. Follows(h.view, Coming(h, rest, rev), h.in, h.lost, e, Outgrown(h, rest))
  BY <1>4 DEF Sees
<1>6. /\ fs \in Seq(ViewFrames) /\ td \in Seq(ViewFrames) /\ Placing(h.view)
      /\ h.following \in BOOLEAN /\ h.overflow \in BOOLEAN
  BY <1>4, HostFields, BufferFields DEF Hosts, HostTyped, Placing
<1>7. Outgrown(h, rest) => Outgrown(n, t)
  <2>1. SUFFICES ASSUME h.overflow, h.following, TurnOver \cap Range(rest) = {}
                 PROVE  Outgrown(n, t)
    BY DEF Outgrown
  <2>2. f \notin TurnOver /\ TurnOver \cap Range(t) = {}
    BY <1>1, <2>1
  <2>3. Kept(h, n, f)
    BY DEF Received
  <2>4. n.overflow /\ n.following
    BY <2>1, <2>2, <2>3 DEF Kept
  <2>5. QED
    BY <2>2, <2>4 DEF Outgrown
<1> HIDE DEF f, t
<1>8. CASE h.replay.revision = rev
  <2>1. Captures(h.replay, revision)
    BY <1>4, <1>8 DEF Captures
  <2>2. n.replay.frames = Append(fs, f) /\ n.view = h.view
    BY <2>1 DEF Received, f
  <2>3. Coming(n, t, rev) = Coming(h, rest, rev)
    <3>1. Append(fs, f) \o t = fs \o rest
      BY <1>6, FramesJoined DEF f, t
    <3>2. QED
      BY <1>3, <2>2, <3>1 DEF Coming
  <2>4. QED
    <3>1. Follows(n.view, Coming(h, rest, rev), n.in, n.lost, e, Outgrown(n, t))
      BY <1>3, <1>5, <1>7, <2>2, FollowsSame
    <3>2. QED
      BY <2>3, <3>1
<1>9. CASE h.replay.revision # rev
  <2>1. ~Captures(h.replay, revision) /\ h.replay.revision = 0 /\ fs = <<>>
    BY <1>9 DEF Captures, Phased
  <2>2. h.jobs[rev] \notin Rehydrating
    BY <1>4, <1>9 DEF Phased
  <2>3. h.jobs[rev] = "done" /\ td = <<>> /\ page = "ready"
    BY <1>4, <2>2 DEF ShowsHistory, Rehydrating, Phased
  <2>4. Coming(h, rest, rev) = rest /\ Coming(n, t, rev) = t
    <3>1. n.replay.frames = <<>> /\ n.todo[rev] = <<>> /\ h.todo[rev] = <<>>
          /\ h.replay.frames = <<>>
      BY <1>3, <2>1, <2>3 DEF Received
    <3>2. <<>> \o (<<>> \o rest) = rest /\ <<>> \o (<<>> \o t) = t
      BY <1>1, FramesJoined
    <3>3. QED
      BY <3>1, <3>2 DEF Coming
  <2>5. n.view = ReduceRpcFrame(h.view, f)
    <3>1. n.view = Posted(h.view, Rpc(f))
      BY <2>1 DEF Received, f
    <3>2. QED
      BY <1>1, <1>6, <2>3, <3>1, PostedFrame
  <2>6. Follows(h.view, rest, h.in, h.lost, e, Outgrown(h, rest))
    BY <1>5, <2>4
  <2>7. Follows(n.view, t, h.in, h.lost, e, Outgrown(h, rest))
    BY <1>6, <2>5, <2>6, FollowsTail DEF f, t
  <2>8. Follows(n.view, t, n.in, n.lost, e, Outgrown(n, t))
    BY <1>3, <1>7, <2>7, FollowsSame
  <2>9. QED
    BY <2>4, <2>8
<1>10. QED
  BY <1>8, <1>9 DEF t

\* The host receives a frame.
LEMMA CoherentReceived ==
  ASSUME AgentTyped, NEW h, NEW rest \in Seq(ViewFrames), rest # <<>>,
         NEW answers \in Seq(ResponseFrames), Coherent(h, rest, answers),
         NEW n, n = ReceiveRpcFrame(h, rest[1])
  PROVE  Coherent(n, Tail(rest),
                  IF rest[1] \in ResponseFrames THEN Append(answers, rest[1]) ELSE answers)
<1> DEFINE f == rest[1]
<1>1. f \in ViewFrames
  BY HeadAndTail
<1>2. h \in Hosts /\ Received(h, n, f)
  BY <1>1, CoherentHost, ReceivedFrame
<1> HIDE DEF f
<1>3. Phased(h, revision, page) /\ Called(h, rest, answers, revision) /\ Knows(h, rest, Agent)
      /\ Sees(h, rest, Agent, revision)
  BY DEF Coherent
<1>4. Possible(Agent) /\ Agent \in Agents
  BY AgentPossible
<1>5. HostTyped(n)
  BY <1>2 DEF Received, Hosts
<1>6. n.in = h.in /\ n.jobs = h.jobs /\ n.todo = h.todo /\ n.replay.revision = h.replay.revision
  BY <1>2 DEF Received
<1>7. /\ Captures(h.replay, revision) => n.replay.frames = Append(h.replay.frames, f)
      /\ ~Captures(h.replay, revision) =>
           n.replay.frames = h.replay.frames /\ h.replay.frames = <<>>
  BY <1>2, <1>3 DEF Received, Phased, Captures
<1>8. Phased(n, revision, page)
  <2>1. n.view.transport = h.view.transport
    <3>1. Placing(h.view)
      BY CoherentHost
    <3>2. QED
      BY <1>1, <1>2, <3>1, PostedFrame DEF Received
  <2>2. n.replay.revision = 0 => n.replay.frames = <<>>
    BY <1>3, <1>6, <1>7 DEF Captures, Phased
  <2>3. QED
    BY <1>3, <1>6, <2>1, <2>2 DEF Phased
<1>9. Called(n, Tail(rest), IF f \in ResponseFrames THEN Append(answers, f) ELSE answers, revision)
  <2>1. h.replay.frames \in Seq(ViewFrames)
    BY <1>2, HostFields, BufferFields DEF Hosts
  <2>2. Range(h.replay.frames) \subseteq Range(n.replay.frames)
    <3>1. Range(Append(h.replay.frames, f)) = Range(h.replay.frames) \cup {f}
      BY <1>1, <2>1, Appended
    <3>2. QED
      BY <1>7, <3>1
  <2>3. ASSUME f \in HistoryFrames, f.rev = revision PROVE f \in Range(n.replay.frames)
    <3>1. f \in ResponseFrames
      BY <2>3 DEF ResponseFrames
    <3>2. Revs(f) = {revision} /\ Waits(f) \in {"page", "messages"} /\ revision \in Revisions
      BY <1>1, <2>3, <3>1, RevsFrame
    <3>3. h.jobs[revision] = Waits(f)
      <4>1. f \in Range(rest)
        BY HeadAndTail DEF f
      <4>2. QED
        BY <1>3, <3>2, <4>1 DEF Called, Waited
    <3>4. revision # 0
      BY <3>2, ViewAssumption DEF Revisions
    <3>5. h.replay.revision = revision
      BY <1>3, <3>2, <3>3, <3>4 DEF Phased, Rehydrating
    <3>6. Captures(h.replay, revision)
      BY <3>4, <3>5 DEF Captures
    <3>7. Range(Append(h.replay.frames, f)) = Range(h.replay.frames) \cup {f}
      BY <1>1, <2>1, Appended
    <3>8. QED
      BY <1>7, <3>6, <3>7
  <2>4. QED
    BY <1>3, <1>6, <2>2, <2>3, CalledReceived DEF f
<1>10. Knows(n, Tail(rest), Agent)
  BY <1>2, <1>3, <1>4, <1>7, ReceivedKnows DEF f
<1>11. Sees(n, Tail(rest), Agent, revision)
  <2>1. revision \in 0..MaxRevisions
    BY <1>3 DEF Phased
  <2>2. QED
    BY <1>2, <1>3, <1>4, <2>1, ReceivedSees DEF f
<1>12. QED
  BY <1>5, <1>8, <1>9, <1>10, <1>11 DEF Coherent, f

-----------------------------------------------------------------------------
(* Rehydrations go on. *)

\* The phases in which the view has not got its history and is on its way to it.
Asking == {"state", "parity", "page", "messages"}

\* A rehydration goes on, before the view has its history.
Proceeds(h, n, r, j) ==
  /\ n \in HostRecords /\ n.jobs = [h.jobs EXCEPT ![r] = j]
  /\ n.following = h.following /\ n.active = h.active /\ n.overflow = h.overflow
  /\ n.replay = h.replay /\ n.lost = h.lost
  /\ \/ n.todo = h.todo /\ (h.jobs[r] = "replay" => h.todo[r] = <<>>)
     \/ n.todo = [h.todo EXCEPT ![r] = <<>>]
  /\ n.in = h.in \/ \E c \in ViewCommands : n.in = Append(h.in, c)
  /\ \/ r # revision /\ h.jobs[r] # "none" /\ j \notin {"none", "replay"}
        /\ n.view = h.view
     \/ /\ r = revision /\ h.jobs[r] \in Asking /\ j \in Asking
        /\ Placing(n.view) /\ n.view.transport = h.view.transport

\* More commands: those there were are among them.
LEMMA MoreCommands ==
  ASSUME NEW in1 \in Seq(ViewCommands), NEW in2,
         in2 = in1 \/ \E c \in ViewCommands : in2 = Append(in1, c)
  PROVE  Range(in1) \subseteq Range(in2)
<1>1. ASSUME NEW c \in ViewCommands PROVE Range(Append(in1, c)) = Range(in1) \cup {c}
  BY Appended
<1>2. QED
  BY <1>1

\* A rehydration that goes on leaves what is known and seen as it was.
LEMMA CoherentGoesOn ==
  ASSUME NEW h \in Hosts, NEW rest, NEW e, Phased(h, revision, page), Knows(h, rest, e),
         Sees(h, rest, e, revision), NEW r \in Revisions, NEW j, NEW n, Proceeds(h, n, r, j)
  PROVE  /\ HostTyped(n) /\ Phased(n, revision, page)
         /\ Knows(n, rest, e) /\ Sees(n, rest, e, revision)
<1>1. /\ n \in HostRecords /\ n.jobs = [h.jobs EXCEPT ![r] = j]
      /\ n.following = h.following /\ n.active = h.active /\ n.overflow = h.overflow
      /\ n.replay = h.replay /\ n.lost = h.lost
  BY DEF Proceeds
<1>2. HostTyped(h) /\ Placing(h.view) /\ h.jobs \in [Revisions -> Phases]
      /\ h.in \in Seq(ViewCommands) /\ h.todo \in [Revisions -> Seq(ViewFrames)]
  BY HostFields DEF Hosts, HostTyped, Placing
<1>3. Placing(n.view) /\ n.view.transport = h.view.transport
  BY <1>2 DEF Proceeds
<1>4. HostTyped(n)
  BY <1>1, <1>2, <1>3 DEF HostTyped, Placing
<1>5. Range(h.in) \subseteq Range(n.in)
  BY <1>2, MoreCommands DEF Proceeds
<1>6. n.jobs[r] = j /\ \A q \in Revisions : q # r => n.jobs[q] = h.jobs[q]
  BY <1>1, <1>2
<1>7. revision \in Revisions \/ revision = 0
  BY ViewAssumption DEF Phased, Revisions
<1>8. r # 0 /\ r \in Nat
  BY ViewAssumption DEF Revisions
<1>9. /\ \A q \in Revisions : q # r => n.todo[q] = h.todo[q]
      /\ n.todo[r] # <<>> => h.jobs[r] # "replay" /\ n.todo[r] = h.todo[r]
  BY <1>2 DEF Proceeds
<1>10. Phased(n, revision, page)
  <2>1. /\ h.jobs[r] # "none" /\ j \notin {"none", "replay"}
        /\ r = revision => h.jobs[r] \in Asking /\ j \in Asking
    BY DEF Proceeds, Asking
  <2>2. revision # 0 => /\ n.replay.revision = revision <=> n.jobs[revision] \in Rehydrating
                        /\ n.jobs[revision] # "none" <=> page = "ready"
    <3>1. CASE r = revision
      BY <1>1, <1>6, <2>1, <3>1 DEF Phased, Asking, Rehydrating
    <3>2. CASE r # revision
      BY <1>1, <1>6, <1>7, <2>1, <3>2 DEF Phased
    <3>3. QED
      BY <3>1, <3>2
  <2>3. \A q \in Revisions : q > revision => n.jobs[q] = "none"
    BY <1>6, <2>1 DEF Phased
  <2>4. \A q \in Revisions : n.todo[q] # <<>> => n.jobs[q] = "replay"
    BY <1>6, <1>9 DEF Phased
  <2>5. n.view.transport = "ready" => revision # 0 /\ n.jobs[revision] = "done"
    <3>1. r = revision => h.jobs[revision] # "done"
      BY <2>1 DEF Asking
    <3>2. QED
      BY <1>3, <1>6, <1>7, <3>1 DEF Phased
  <2>6. QED
    BY <1>1, <2>2, <2>3, <2>4, <2>5 DEF Phased
<1>11. Knows(n, rest, e)
  BY <1>1, <1>5 DEF Knows
<1>12. Sees(n, rest, e, revision)
  <2>1. SUFFICES ASSUME ShowsHistory(n, revision)
                 PROVE  Follows(n.view, Coming(n, rest, revision), n.in, n.lost, e,
                                Outgrown(n, rest))
    BY DEF Sees
  <2>2. r # revision
    BY <1>6, <2>1 DEF ShowsHistory, Proceeds, Asking
  <2>3. ShowsHistory(h, revision) /\ n.view = h.view
    BY <1>6, <1>7, <2>1, <2>2 DEF ShowsHistory, Proceeds
  <2>4. Follows(h.view, Coming(h, rest, revision), h.in, h.lost, e, Outgrown(h, rest))
    BY <2>3 DEF Sees
  <2>5. /\ Coming(n, rest, revision) = Coming(h, rest, revision)
        /\ Outgrown(n, rest) = Outgrown(h, rest)
    <3>1. n.todo[revision] = h.todo[revision]
      BY <1>7, <1>9, <2>2, <2>3 DEF ShowsHistory
    <3>2. QED
      BY <1>1, <3>1 DEF Coming, Outgrown
  <2>6. Follows(n.view, Coming(h, rest, revision), n.in, n.lost, e, Outgrown(h, rest))
    BY <1>1, <1>5, <2>3, <2>4, FollowsSame
  <2>7. QED
    BY <2>5, <2>6
<1>13. QED
  BY <1>4, <1>10, <1>11, <1>12

\* The requests that are shown after the frames of the turn: with those they are all.
LEMMA OpenRequests ==
  ASSUME NEW active1 \in Seq(ViewFrames), NEW requests \in Seq(AskFrames), NEW asks,
         asks = Only(requests, {f \in Range(requests) : f.id \notin RequestIds(active1)}),
         NEW r \in Requests, Asks(r) \in Range(requests), Cancels(r) \notin Range(active1)
  PROVE  Asks(r) \in Range(asks) \/ Asks(r) \in Range(active1)
<1>1. Range(asks) = Range(requests) \cap {f \in Range(requests) : f.id \notin RequestIds(active1)}
  BY OnlyFacts
<1>2. CASE r \in RequestIds(active1)
  <2>1. PICK f \in Range(active1) : f.type = "extension_ui_request" /\ f.id = r
    BY <1>2 DEF RequestIds
  <2>2. f \in ViewFrames
    BY <2>1 DEF Range
  <2>3. f \in AskFrames \/ f \in CancelFrames
    BY <2>1, <2>2, FrameKinds
  <2>4. f = Asks(r) \/ f = Cancels(r)
    BY <2>1, <2>3, RequestFrame
  <2>5. QED
    BY <2>1, <2>4
<1>3. CASE r \notin RequestIds(active1)
  BY <1>1, <1>3, RequestFrame
<1>4. QED
  BY <1>2, <1>3

\* The history is shown, and what is to come after it.
BoundaryMade(h, n, k) ==
  /\ n \in HostRecords /\ n.jobs = [h.jobs EXCEPT ![revision] = "replay"]
  /\ n.following = h.following /\ n.active = h.active /\ n.overflow = h.overflow /\ n.in = h.in
  /\ n.replay.revision = h.replay.revision /\ n.replay.frames = <<>>
  /\ n.replay.requests = h.replay.requests
  /\ n.lost = Dropped(h, Upto(k))
  /\ \E asks \in Seq(AskFrames) :
       /\ asks = Only(h.replay.requests,
                      {f \in Range(h.replay.requests) : f.id \notin RequestIds(h.active)})
       /\ n.todo = [h.todo EXCEPT ![revision] = h.active \o asks]
  /\ Placing(n.view) /\ n.view.transport = h.view.transport
  /\ n.view.messages = Upto(k) /\ n.view.live = 0

\* At the boundary the history and what was captured have the messages that ended.
LEMMA BoundaryFinishes ==
  ASSUME NEW e \in Agents, NEW k \in 0..MaxMessages, NEW h \in Hosts,
         NEW rest \in Seq(ViewFrames), Orderly(h.replay.frames \o rest, e),
         NEW f \in Histories(k), f \in Range(h.replay.frames), NEW n, BoundaryMade(h, n, k),
         NEW s, Range(h.active) \cup Range(rest) \subseteq Range(s)
  PROVE  Finishes(n.view, s, n.lost, e)
<1> DEFINE fs == h.replay.frames
           all == fs \o rest
<1>1. fs \in Seq(ViewFrames)
  BY HostFields, BufferFields DEF Hosts
<1>2. /\ DOMAIN fs = 1..Len(fs) /\ DOMAIN all = 1..(Len(fs) + Len(rest)) /\ Len(fs) \in Nat
      /\ Len(rest) \in Nat /\ \A i \in 1..Len(fs) : all[i] = fs[i]
      /\ Range(all) = Range(fs) \cup Range(rest)
  <2> HIDE DEF fs
  <2>1. QED
    BY <1>1, Joined
<1>3. Orderly(all, e)
  OBVIOUS
<1>4. PICK i \in 1..Len(fs) : fs[i] = f
  BY <1>2, Placed DEF Range
<1> HIDE DEF fs, all
<1>5. i \in DOMAIN all /\ all[i] \in Histories(k)
  BY <1>2, <1>4
<1>6. k <= e.done /\ \A m \in (k + 1)..e.done : EndsAfter(all, i, m)
  BY <1>3, <1>5 DEF Orderly, Told
<1>7. k \in Nat /\ MaxMessages \in Nat /\ e.done \in 0..MaxMessages
  BY ViewAssumption DEF Agents
<1>8. ASSUME NEW m \in ((k + 1)..e.done) \ n.lost PROVE Message(m, "end") \in Range(s)
  <2>1. Message(m, "end") \in Range(all)
    BY <1>6 DEF EndsAfter, Range
  <2>2. Message(m, "end") \in Range(fs) \/ Message(m, "end") \in Range(rest)
    BY <1>2, <2>1
  <2>3. m \in 1..MaxMessages /\ m \notin 1..k
    BY <1>7
  <2>4. m \notin Range(Upto(k))
    BY <1>7, <2>3, UptoFacts
  <2>5. m \notin Dropped(h, Upto(k))
    BY DEF BoundaryMade
  <2>6. Message(m, "end") \in Range(fs) => Message(m, "end") \in Range(h.active)
    BY <2>3, <2>4, <2>5 DEF Dropped, fs
  <2>7. QED
    BY <2>2, <2>6
<1>9. QED
  BY <1>6, <1>7, <1>8, FinishesHistory DEF BoundaryMade

\* At the boundary what was captured brings the history up to date.
LEMMA BoundaryFollows ==
  ASSUME NEW e, Possible(e), NEW k \in 0..MaxMessages, NEW h \in Hosts,
         NEW rest \in Seq(ViewFrames), Knows(h, rest, e), revision \in Revisions,
         NEW f \in Histories(k), f \in Range(h.replay.frames), NEW n, BoundaryMade(h, n, k)
  PROVE  Follows(n.view, Coming(n, rest, revision), n.in, n.lost, e, Outgrown(n, rest))
<1>1. PICK asks \in Seq(AskFrames) :
        /\ asks = Only(h.replay.requests,
                       {g \in Range(h.replay.requests) : g.id \notin RequestIds(h.active)})
        /\ n.todo = [h.todo EXCEPT ![revision] = h.active \o asks]
  BY DEF BoundaryMade
<1> DEFINE a == h.active
           b == a \o asks
           s == b \o rest
<1>2. /\ a \in Seq(ViewFrames) /\ h.todo \in [Revisions -> Seq(ViewFrames)]
      /\ h.replay.requests \in Seq(AskFrames) /\ h.following \in BOOLEAN /\ h.overflow \in BOOLEAN
      /\ e \in Agents /\ e.asked \in SUBSET Requests /\ e.busy \in BOOLEAN
  BY HostFields, BufferFields DEF Hosts, Possible, Agents
<1>3. asks \in Seq(ViewFrames)
  <2>1. AskFrames \subseteq ViewFrames
    BY DEF ViewFrames
  <2>2. QED
    BY <2>1, SeqMonotonic
<1>4. /\ b \in Seq(ViewFrames) /\ Range(b) = Range(a) \cup Range(asks)
  <2> HIDE DEF a
  <2>1. QED
    BY <1>2, <1>3, Joined
<1>5. /\ s \in Seq(ViewFrames) /\ Range(s) = Range(b) \cup Range(rest)
  <2> HIDE DEF b
  <2>1. QED
    BY <1>4, Joined
<1>6. /\ Orderly(a \o rest, e) /\ Orderly(h.replay.frames \o rest, e)
      /\ e.busy => Runs(h.following, rest)
      /\ e.busy /\ h.following /\ ~h.overflow => Runs(FALSE, a \o rest)
      /\ \A r \in e.asked : UiResponse(r) \in Range(h.in) \/ Asks(r) \in Range(h.replay.requests)
                              \/ Asks(r) \in Range(rest)
  BY DEF Knows
<1>7. Coming(n, rest, revision) = s
  <2>1. n.todo[revision] = b /\ n.replay.frames = <<>>
    <3> HIDE DEF b
    <3>1. n.todo = [h.todo EXCEPT ![revision] = b]
      BY <1>1 DEF b
    <3>2. QED
      BY <1>2, <3>1 DEF BoundaryMade
  <2>2. <<>> \o rest = rest
    BY FramesJoined
  <2> HIDE DEF b
  <2>3. QED
    BY <2>1, <2>2 DEF Coming
<1>8. Orderly(s, e)
  BY <1>2, <1>6, OrderlyBetween
<1>9. Finishes(n.view, s, n.lost, e)
  <2>1. Range(h.active) \cup Range(rest) \subseteq Range(s)
    BY <1>4, <1>5
  <2> HIDE DEF s
  <2>2. QED
    BY <1>2, <1>6, <2>1, BoundaryFinishes
<1>10. Requested(n.view, s, n.in, e)
  <2>1. SUFFICES ASSUME NEW r \in e.asked
                 PROVE  UiResponse(r) \in Range(n.in) \/ Asks(r) \in Range(s)
    BY DEF Requested
  <2>2. r \in Requests /\ n.in = h.in
    BY <1>2 DEF BoundaryMade
  <2>3. Cancels(r) \notin Range(a)
    <3>1. Range(a) \subseteq Range(a \o rest)
      <4> HIDE DEF a
      <4>1. QED
        BY <1>2, Joined
    <3>2. QED
      BY <1>6, <2>2, <3>1 DEF Orderly, Settled
  <2>4. Asks(r) \in Range(h.replay.requests) => Asks(r) \in Range(asks) \/ Asks(r) \in Range(a)
    <3> DEFINE qs == h.replay.requests
    <3>1. asks = Only(qs, {g \in Range(qs) : g.id \notin RequestIds(a)})
      BY <1>1
    <3>2. qs \in Seq(AskFrames)
      BY <1>2
    <3> HIDE DEF a, qs
    <3>3. Asks(r) \in Range(qs) => Asks(r) \in Range(asks) \/ Asks(r) \in Range(a)
      BY <1>2, <2>2, <2>3, <3>1, <3>2, OpenRequests
    <3>4. QED
      BY <3>3 DEF qs
  <2>5. QED
    BY <1>4, <1>5, <1>6, <2>2, <2>4
<1>11. ASSUME e.busy PROVE Runs(n.view.streaming, s) \/ Outgrown(n, rest)
  <2>1. Runs(h.following, rest)
    BY <1>6, <1>11
  <2>2. n.following = h.following /\ n.overflow = h.overflow
    BY DEF BoundaryMade
  <2>3. CASE h.following /\ ~h.overflow
    <3>1. Runs(FALSE, a \o rest)
      BY <1>6, <1>11, <2>3
    <3>2. QED
      BY <1>2, <3>1, RunsBetween
  <2>4. CASE Runs(FALSE, rest)
    BY <1>4, <2>4, RunsBefore
  <2>5. CASE h.following /\ h.overflow /\ ~Runs(FALSE, rest)
    <3>1. NoStop(rest, 0)
      BY <2>1, <2>5 DEF Runs
    <3>2. TurnOver \cap Range(rest) = {}
      <4>1. TurnOver \subseteq Stops
        BY DEF Stops
      <4>2. \A j \in DOMAIN rest : j > 0
        OBVIOUS
      <4>3. QED
        BY <3>1, <4>1, <4>2 DEF NoStop, Range
    <3>3. QED
      BY <2>2, <2>5, <3>2 DEF Outgrown
  <2>6. CASE ~h.following
    BY <2>1, <2>4, <2>6 DEF Runs
  <2>7. QED
    BY <1>2, <2>3, <2>4, <2>5, <2>6
<1> HIDE DEF s
<1>12. Follows(n.view, s, n.in, n.lost, e, Outgrown(n, rest))
  BY <1>8, <1>9, <1>10, <1>11 DEF Follows
<1>13. QED
  BY <1>7, <1>12

\* What awaited the answer f goes on: it stops being of this view, it goes on before the
\* view has its history, or the view gets it.
LEMMA AnsweredFrame ==
  ASSUME NEW h \in Hosts, NEW f \in ResponseFrames, h.jobs[f.rev] = Waits(f),
         NEW n, n = Answered(h, f)
  PROVE  \/ \E j : Proceeds(h, n, f.rev, j) /\ MayAsk(h, n, f.rev, j)
         \/ f.rev = revision /\ \E k \in 0..MaxMessages :
              f \in Histories(k) /\ n = HistoryBoundary(h, f.rev, Upto(k))
<1> DEFINE r == f.rev
<1>1. /\ r \in Revisions /\ f \in ViewFrames
      /\ f \in StateFrames <=> f.command = "get_state"
      /\ f \in BusyFrames <=> f.command = "get_messages_page" /\ f.busy
      /\ f \in StateFrames \/ f \in BusyFrames \/ f \in HistoryFrames
  BY ResponseKinds DEF ViewFrames, ResponseFrames
<1>2. h \in HostRecords /\ h.jobs \in [Revisions -> Phases] /\ h.in \in Seq(ViewCommands)
      /\ Placing(h.view)
  BY HostFields DEF Hosts, HostTyped, Placing
<1>3. h.jobs[r] \in {"state", "page", "messages"}
      /\ (f \in StateFrames => h.jobs[r] = "state") /\ (f \in BusyFrames => h.jobs[r] = "page")
  <2>1. /\ f \in StateFrames => Waits(f) = "state"
        /\ f \in BusyFrames => Waits(f) = "page"
        /\ f \in HistoryFrames => Waits(f) \in {"page", "messages"}
    BY <1>1, RevsFrame
  <2>2. QED
    BY <1>1, <2>1
<1>4. ASSUME r # revision, n = [h EXCEPT !.jobs[r] = "done"]
      PROVE  Proceeds(h, n, r, "done") /\ MayAsk(h, n, r, "done")
  <2> DEFINE js == [h.jobs EXCEPT ![r] = "done"]
  <2>1. n = [h EXCEPT !.jobs = js]
    BY <1>4
  <2>2. js \in [Revisions -> Phases]
    BY <1>2 DEF Phases
  <2>3. js = [h.jobs EXCEPT ![r] = "done"]
    OBVIOUS
  <2> HIDE DEF js, r
  <2>4. /\ n \in HostRecords /\ n.jobs = js
        /\ n.following = h.following /\ n.active = h.active /\ n.overflow = h.overflow
        /\ n.replay = h.replay /\ n.todo = h.todo /\ n.lost = h.lost
        /\ n.in = h.in /\ n.view = h.view
    BY <1>2, <2>1, <2>2 DEF HostRecords
  <2>5. QED
    BY <1>3, <1>4, <2>3, <2>4 DEF Proceeds, MayAsk
<1>5. CASE f \in StateFrames /\ r # revision
  <2>1. n = [h EXCEPT !.jobs[r] = "done"]
    BY <1>1, <1>5 DEF Answered
  <2>2. Proceeds(h, n, r, "done") /\ MayAsk(h, n, r, "done")
    BY <1>4, <1>5, <2>1
  <2>3. QED
    BY <2>2
<1>6. CASE f \in StateFrames /\ r = revision
  <2> DEFINE v == Posted(h.view, Rpc(f))
             js == [h.jobs EXCEPT ![r] = "parity"]
  <2>1. n = [h EXCEPT !.view = v, !.jobs = js]
    BY <1>1, <1>6 DEF Answered
  <2>2. js \in [Revisions -> Phases]
    BY <1>2 DEF Phases
  <2>3. js = [h.jobs EXCEPT ![r] = "parity"]
    OBVIOUS
  <2>4. Placing(v) /\ v.transport = h.view.transport
    BY <1>1, <1>2, PostedFrame
  <2>5. v \in Views(1..MaxMessages, Requests)
    BY <2>4 DEF Placing, ViewsHere
  <2> HIDE DEF js, v, r
  <2>6. /\ n \in HostRecords /\ n.jobs = js
        /\ n.following = h.following /\ n.active = h.active /\ n.overflow = h.overflow
        /\ n.replay = h.replay /\ n.todo = h.todo /\ n.lost = h.lost
        /\ n.in = h.in /\ n.view = v
    BY <1>2, <2>1, <2>2, <2>5 DEF HostRecords
  <2>7. Proceeds(h, n, r, "parity") /\ MayAsk(h, n, r, "parity")
    BY <1>3, <1>6, <2>3, <2>4, <2>6 DEF Proceeds, Asking, MayAsk
  <2>8. QED
    BY <2>7 DEF r
<1>7. CASE f \in BusyFrames
  <2> DEFINE c == Command("get_messages", r)
             in2 == Append(h.in, c)
             js == [h.jobs EXCEPT ![r] = "messages"]
  <2>1. n = [h EXCEPT !.in = in2, !.jobs = js]
    <3>1. f.command # "get_state" /\ f.command = "get_messages_page" /\ f.busy
      BY <1>1, <1>7
    <3>2. QED
      BY <3>1 DEF Answered
  <2>2. js \in [Revisions -> Phases]
    BY <1>2 DEF Phases
  <2>3. js = [h.jobs EXCEPT ![r] = "messages"] /\ in2 = Append(h.in, c)
    OBVIOUS
  <2>4. c \in ViewCommands /\ Waits(c) = "messages" /\ "get_messages" \in CallKinds
    BY <1>1, RevsCommand DEF ViewCommands, Calls, CallKinds
  <2>5. in2 \in Seq(ViewCommands)
    BY <1>2, <2>4, Appended
  <2> HIDE DEF js, in2, c, r
  <2>6. /\ n \in HostRecords /\ n.jobs = js
        /\ n.following = h.following /\ n.active = h.active /\ n.overflow = h.overflow
        /\ n.replay = h.replay /\ n.todo = h.todo /\ n.lost = h.lost
        /\ n.in = in2 /\ n.view = h.view
    BY <1>2, <2>1, <2>2, <2>5 DEF HostRecords
  <2>7. Proceeds(h, n, r, "messages") /\ n.in = Append(h.in, c)
    BY <1>2, <1>3, <1>7, <2>3, <2>4, <2>6 DEF Proceeds, Asking
  <2>8. MayAsk(h, n, r, "messages")
    BY <2>4, <2>7 DEF MayAsk, c
  <2>9. QED
    BY <2>7, <2>8 DEF r
<1>8. CASE f \in HistoryFrames /\ f \notin StateFrames /\ f \notin BusyFrames
  <2>1. f.command # "get_state" /\ ~(f.command = "get_messages_page" /\ f.busy)
    BY <1>1, <1>8
  <2>2. n = IF r # revision THEN [h EXCEPT !.jobs[r] = "done"]
            ELSE HistoryBoundary(h, r, f.messages)
    BY <2>1 DEF Answered
  <2>3. CASE r # revision
    <3>1. Proceeds(h, n, r, "done") /\ MayAsk(h, n, r, "done")
      BY <1>4, <2>2, <2>3
    <3>2. QED
      BY <3>1
  <2>4. CASE r = revision
    <3>1. PICK k \in 0..MaxMessages : f \in Histories(k) /\ f.messages = Upto(k)
      BY <1>8, ResponseKinds
    <3>2. QED
      BY <2>2, <2>4, <3>1
  <2>5. QED
    BY <2>3, <2>4
<1>9. QED
  BY <1>1, <1>5, <1>6, <1>7, <1>8

\* What the history boundary makes of the host.
LEMMA BoundaryFrame ==
  ASSUME NEW h \in Hosts, revision \in Revisions, h.replay.revision = revision,
         page \in {"listening", "ready"}, NEW k \in 0..MaxMessages, NEW n,
         n = HistoryBoundary(h, revision, Upto(k))
  PROVE  BoundaryMade(h, n, k)
<1> DEFINE qs == h.replay.requests
           asks == Only(qs, {f \in Range(qs) : f.id \notin RequestIds(h.active)})
           line == h.active \o asks
           td == [h.todo EXCEPT ![revision] = line]
           b == ResetAtHistoryBoundary(h.replay, revision)
           v == Posted(h.view, Rpc(Messages(Upto(k), revision)))
           js == [h.jobs EXCEPT ![revision] = "replay"]
           l == Dropped(h, Upto(k))
<1>1. /\ h \in HostRecords /\ h.jobs \in [Revisions -> Phases] /\ Placing(h.view)
      /\ h.replay \in Buffers /\ qs \in Seq(AskFrames) /\ h.active \in Seq(ViewFrames)
      /\ h.todo \in [Revisions -> Seq(ViewFrames)] /\ h.lost \in SUBSET (1..MaxMessages)
  BY HostFields, BufferFields DEF Hosts, HostTyped, Placing
<1>2. n = [h EXCEPT !.lost = l, !.todo = td, !.replay = b, !.view = v, !.jobs = js]
  BY <1>1 DEF HistoryBoundary, HostRecords
<1>3. asks \in Seq(AskFrames)
  BY <1>1, OnlyFacts
<1>4. line \in Seq(ViewFrames)
  <2>1. AskFrames \subseteq ViewFrames
    BY DEF ViewFrames
  <2>2. asks \in Seq(ViewFrames)
    BY <1>3, <2>1, SeqMonotonic
  <2> HIDE DEF asks
  <2>3. QED
    BY <1>1, <2>2
<1>5. td \in [Revisions -> Seq(ViewFrames)]
  <2> HIDE DEF line
  <2>1. QED
    BY <1>1, <1>4
<1>6. /\ b \in Buffers /\ b.revision = h.replay.revision /\ b.frames = <<>> /\ b.requests = qs
  <2>1. b = [h.replay EXCEPT !.frames = <<>>]
    BY DEF ResetAtHistoryBoundary
  <2>2. <<>> \in Seq(ViewFrames)
    OBVIOUS
  <2> HIDE DEF b
  <2>3. QED
    BY <1>1, <2>1, <2>2 DEF Buffers
<1>7. Placing(v) /\ v.transport = h.view.transport /\ v.messages = Upto(k) /\ v.live = 0
  <2> DEFINE f == Messages(Upto(k), revision)
  <2>1. f \in ViewFrames
    <3>1. f \in Histories(k)
      BY DEF Histories
    <3>2. QED
      BY <3>1 DEF ViewFrames, ResponseFrames, HistoryFrames
  <2>2. v = ReduceRpcFrame(h.view, f) /\ Placing(v) /\ v.transport = h.view.transport
    <3> HIDE DEF f
    <3>1. QED
      BY <1>1, <2>1, PostedFrame DEF f
  <2>3. f.type = "response" /\ f.command = "get_messages" /\ f.messages = Upto(k)
    BY DEF Messages
  <2> HIDE DEF f, v
  <2>4. v = [h.view EXCEPT !.messages = f.messages, !.live = 0]
    BY <2>2, <2>3 DEF ReduceRpcFrame, ReduceResponse
  <2>5. QED
    BY <1>1, <2>2, <2>3, <2>4 DEF Placing, ViewsHere, Views
<1>8. js \in [Revisions -> Phases]
  BY <1>1 DEF Phases
<1>9. l \in SUBSET (1..MaxMessages)
  BY DEF Dropped
<1> HIDE DEF asks, line, td, b, v, js, l
<1>10. v \in Views(1..MaxMessages, Requests)
  BY <1>7 DEF Placing, ViewsHere
<1>11. /\ n \in HostRecords /\ n.jobs = js /\ n.following = h.following /\ n.active = h.active
       /\ n.overflow = h.overflow /\ n.in = h.in /\ n.replay = b /\ n.lost = l /\ n.todo = td
       /\ n.view = v
  BY <1>1, <1>2, <1>5, <1>6, <1>8, <1>9, <1>10 DEF HostRecords, Buffers
<1>12. \E as \in Seq(AskFrames) :
         /\ as = Only(h.replay.requests,
                      {f \in Range(h.replay.requests) : f.id \notin RequestIds(h.active)})
         /\ n.todo = [h.todo EXCEPT ![revision] = h.active \o as]
  <2>1. n.todo = [h.todo EXCEPT ![revision] = h.active \o asks]
    BY <1>11 DEF td, line
  <2>2. asks = Only(h.replay.requests,
                    {f \in Range(h.replay.requests) : f.id \notin RequestIds(h.active)})
    BY DEF asks
  <2>3. QED
    BY <1>3, <2>1, <2>2
<1>13. QED
  BY <1>6, <1>7, <1>11, <1>12 DEF BoundaryMade, js, l

\* What awaited the first answer goes on.
LEMMA CoherentAnswered ==
  ASSUME AgentTyped, NEW h, NEW rest \in Seq(ViewFrames), NEW answers \in Seq(ResponseFrames),
         answers # <<>>, Coherent(h, rest, answers), NEW n, n = Answered(h, answers[1])
  PROVE  Coherent(n, rest, Tail(answers))
<1> DEFINE f == answers[1]
           r == f.rev
           t == Tail(answers)
<1>1. f \in ResponseFrames /\ r \in Revisions /\ f \in Range(answers) /\ f \in ViewFrames
  <2>1. f \in ResponseFrames /\ f \in Range(answers)
    BY HeadAndTail
  <2>2. QED
    BY <2>1, ResponseKinds DEF ViewFrames
<1>2. h \in Hosts /\ HostTyped(h) /\ Phased(h, revision, page) /\ Called(h, rest, answers, revision)
      /\ Knows(h, rest, Agent) /\ Sees(h, rest, Agent, revision)
  BY CoherentHost DEF Coherent
<1>3. h.jobs[r] = Waits(f)
  <2>1. Revs(f) = {r}
    BY <1>1, RevsFrame
  <2>2. QED
    BY <1>1, <1>2, <2>1 DEF Called, Waited
<1>4. h.jobs \in [Revisions -> Phases] /\ h.in \in Seq(ViewCommands)
      /\ h.replay.frames \in Seq(ViewFrames) /\ h \in HostRecords
  BY <1>2, HostFields, BufferFields DEF Hosts
<1>5. Possible(Agent) /\ Agent \in Agents
  BY AgentPossible
<1>6. ASSUME NEW j, Proceeds(h, n, r, j), MayAsk(h, n, r, j)
      PROVE  Coherent(n, rest, t)
  <2>1. HostTyped(n) /\ Phased(n, revision, page) /\ Knows(n, rest, Agent)
        /\ Sees(n, rest, Agent, revision)
    BY <1>1, <1>2, <1>6, CoherentGoesOn
  <2>2. n.jobs = [h.jobs EXCEPT ![r] = j] /\ Range(h.replay.frames) \subseteq Range(n.replay.frames)
    BY <1>6 DEF Proceeds
  <2>3. Called(n, rest, t, revision)
    <3>1. r = answers[1].rev /\ t = Tail(answers)
      OBVIOUS
    <3> HIDE DEF f, r, t
    <3>2. Called(h, rest, answers, revision) /\ (KeepsFrames(h, n) \/ r = revision)
      BY <1>2, <2>2 DEF KeepsFrames
    <3>3. n.jobs = [h.jobs EXCEPT ![r] = j]
      BY <2>2
    <3>4. QED
      BY <1>4, <1>6, <3>1, <3>2, <3>3, CalledAnswered
  <2>4. QED
    BY <2>1, <2>3 DEF Coherent
<1>7. ASSUME r = revision, NEW k \in 0..MaxMessages, f \in Histories(k),
             n = HistoryBoundary(h, r, Upto(k))
      PROVE  Coherent(n, rest, t)
  <2>1. /\ revision \in Revisions /\ revision # 0 /\ revision \in 0..MaxRevisions
        /\ Revisions \subseteq Nat
    BY <1>1, <1>7, ViewAssumption DEF Revisions
  <2>2. f \in HistoryFrames
    BY <1>7 DEF HistoryFrames
  <2>3. h.jobs[revision] \in {"page", "messages"}
    BY <1>1, <1>3, <1>7, <2>2, RevsFrame
  <2>4. h.replay.revision = revision /\ page = "ready"
    BY <1>2, <2>1, <2>3 DEF Phased, Rehydrating
  <2>5. f \in Range(h.replay.frames)
    BY <1>1, <1>2, <1>7, <2>2 DEF Called
  <2>6. BoundaryMade(h, n, k)
    BY <1>2, <1>7, <2>1, <2>4, BoundaryFrame
  <2>7. /\ n.jobs = [h.jobs EXCEPT ![revision] = "replay"] /\ n.jobs[revision] = "replay"
        /\ \A q \in Revisions : q # revision => n.jobs[q] = h.jobs[q]
    BY <1>4, <2>1, <2>6 DEF BoundaryMade
  <2>8. HostTyped(n)
    <3>1. n.active = h.active /\ n.overflow = h.overflow /\ n \in HostRecords /\ Placing(n.view)
      BY <2>6 DEF BoundaryMade
    <3>2. QED
      BY <1>2, <3>1 DEF HostTyped, Placing
  <2>9. Phased(n, revision, page)
    <3>1. \A q \in Revisions : q # revision => n.todo[q] = h.todo[q]
      <4>1. h.todo \in [Revisions -> Seq(ViewFrames)]
        BY <1>4, HostFields
      <4>2. PICK line : n.todo = [h.todo EXCEPT ![revision] = line]
        BY <2>6 DEF BoundaryMade
      <4>3. QED
        BY <2>1, <4>1, <4>2
    <3>2. n.replay.revision = revision /\ n.replay.frames = <<>>
          /\ n.view.transport = h.view.transport
      BY <2>4, <2>6 DEF BoundaryMade
    <3>3. \A q \in Revisions : n.todo[q] # <<>> => n.jobs[q] = "replay"
      BY <1>2, <2>7, <3>1 DEF Phased
    <3>4. \A q \in Revisions : q > revision => n.jobs[q] = "none"
      <4>1. \A q \in Revisions : q > revision => h.jobs[q] = "none" /\ q # revision
        BY <1>2, <2>1 DEF Phased
      <4>2. QED
        BY <2>7, <4>1
    <3>5. n.view.transport # "ready"
      BY <1>2, <2>3, <3>2 DEF Phased
    <3>6. QED
      BY <1>2, <2>1, <2>4, <2>7, <3>2, <3>3, <3>4, <3>5 DEF Phased, Rehydrating
  <2>10. Called(n, rest, t, revision)
    <3>1. n.in = h.in
      BY <2>6 DEF BoundaryMade
    <3>2. r = answers[1].rev /\ t = Tail(answers) /\ n.jobs = [h.jobs EXCEPT ![r] = "replay"]
      BY <1>7, <2>7
    <3> HIDE DEF f, r, t
    <3>3. QED
      BY <1>2, <1>4, <1>7, <3>1, <3>2, CalledAnswered DEF MayAsk
  <2>11. Knows(n, rest, Agent)
    <3>1. /\ n.active = h.active /\ n.overflow = h.overflow /\ n.following = h.following
          /\ n.in = h.in /\ n.replay.frames = <<>> /\ n.replay.requests = h.replay.requests
      BY <2>6 DEF BoundaryMade
    <3>2. Orderly(rest, Agent) /\ <<>> \o rest = rest
      <4>1. Orderly(h.replay.frames \o rest, Agent)
        BY <1>2 DEF Knows
      <4>2. QED
        BY <1>4, <1>5, <4>1, OrderlyAfter, FramesJoined
    <3>3. QED
      BY <1>2, <3>1, <3>2 DEF Knows
  <2>12. Sees(n, rest, Agent, revision)
    <3>1. Follows(n.view, Coming(n, rest, revision), n.in, n.lost, Agent, Outgrown(n, rest))
      BY <1>2, <1>5, <1>7, <2>1, <2>5, <2>6, BoundaryFollows
    <3>2. QED
      BY <3>1 DEF Sees
  <2>13. QED
    BY <2>8, <2>9, <2>10, <2>11, <2>12 DEF Coherent
<1>8. \/ \E j : Proceeds(h, n, r, j) /\ MayAsk(h, n, r, j)
      \/ r = revision /\ \E k \in 0..MaxMessages :
           f \in Histories(k) /\ n = HistoryBoundary(h, r, Upto(k))
  BY <1>1, <1>2, <1>3, AnsweredFrame
<1> HIDE DEF f, r, t
<1>9. QED
  BY <1>6, <1>7, <1>8 DEF t

-----------------------------------------------------------------------------
(* A piece of output. *)

\* The host stays one when it receives a frame.
LEMMA ReceiveTyped ==
  ASSUME NEW h \in Hosts, NEW f \in ViewFrames
  PROVE  ReceiveRpcFrame(h, f) \in Hosts
BY ReceivedFrame DEF Received

\* What it keeps of the turn stays.
LEMMA HostStays ==
  ASSUME NEW h \in Hosts, NEW n \in HostRecords, n.following = h.following,
         n.active = h.active, n.overflow = h.overflow, Placing(n.view)
  PROVE  n \in Hosts
BY DEF Hosts, HostTyped, Placing

\* The host stays one when it goes on after an answer.
LEMMA AnsweredTyped ==
  ASSUME NEW h \in Hosts, NEW f \in ResponseFrames
  PROVE  Answered(h, f) \in Hosts
<1> DEFINE r == f.rev
           n == Answered(h, f)
           done == [h.jobs EXCEPT ![r] = "done"]
           parity == [h.jobs EXCEPT ![r] = "parity"]
           messages == [h.jobs EXCEPT ![r] = "messages"]
           shown == [h.jobs EXCEPT ![r] = "replay"]
           in2 == Append(h.in, Command("get_messages", r))
           v == Posted(h.view, Rpc(f))
<1>1. /\ r \in Revisions /\ f \in ViewFrames
      /\ f.command \in {"get_state", "get_messages", "get_messages_page"}
      /\ f \in HistoryFrames <=>
            \/ f.command = "get_messages"
            \/ f.command = "get_messages_page" /\ ~f.busy
  BY ResponseKinds DEF ViewFrames
<1>2. /\ h \in HostRecords /\ h.jobs \in [Revisions -> Phases] /\ h.in \in Seq(ViewCommands)
      /\ Placing(h.view) /\ h.replay \in Buffers /\ h.active \in Seq(ViewFrames)
      /\ h.todo \in [Revisions -> Seq(ViewFrames)] /\ h.replay.requests \in Seq(AskFrames)
  BY HostFields, BufferFields DEF Hosts, HostTyped, Placing
<1>3. /\ done \in [Revisions -> Phases] /\ parity \in [Revisions -> Phases]
      /\ messages \in [Revisions -> Phases] /\ shown \in [Revisions -> Phases]
  BY <1>2 DEF Phases
<1>4. in2 \in Seq(ViewCommands)
  <2>1. Command("get_messages", r) \in ViewCommands
    BY <1>1 DEF ViewCommands, Calls, CallKinds
  <2>2. QED
    BY <1>2, <2>1, Appended
<1>5. Placing(v)
  BY <1>1, <1>2, PostedFrame
<1>6. CASE n = [h EXCEPT !.jobs = done]
  <2> HIDE DEF n, done
  <2>1. n \in HostRecords /\ n.following = h.following /\ n.active = h.active
        /\ n.overflow = h.overflow /\ n.view = h.view
    BY <1>2, <1>3, <1>6 DEF HostRecords
  <2>2. QED
    BY <1>2, <2>1, HostStays DEF n
<1>7. CASE n = [h EXCEPT !.view = v, !.jobs = parity]
  <2> HIDE DEF n, parity, v
  <2>1. v \in Views(1..MaxMessages, Requests)
    BY <1>5 DEF Placing, ViewsHere
  <2>2. n \in HostRecords /\ n.following = h.following /\ n.active = h.active
        /\ n.overflow = h.overflow /\ n.view = v
    BY <1>2, <1>3, <1>7, <2>1 DEF HostRecords
  <2>3. QED
    BY <1>5, <2>2, HostStays DEF n
<1>8. CASE n = [h EXCEPT !.in = in2, !.jobs = messages]
  <2> HIDE DEF n, messages, in2
  <2>1. n \in HostRecords /\ n.following = h.following /\ n.active = h.active
        /\ n.overflow = h.overflow /\ n.view = h.view
    BY <1>2, <1>3, <1>4, <1>8 DEF HostRecords
  <2>2. QED
    BY <1>2, <2>1, HostStays DEF n
<1>9. CASE f \in HistoryFrames /\ n = HistoryBoundary(h, r, f.messages)
  <2>1. PICK k \in 0..MaxMessages : f \in Histories(k) /\ f.messages = Upto(k)
    BY <1>9, ResponseKinds
  <2> DEFINE qs == h.replay.requests
             asks == Only(qs, {g \in Range(qs) : g.id \notin RequestIds(h.active)})
             line == h.active \o asks
             td == [h.todo EXCEPT ![r] = line]
             b == ResetAtHistoryBoundary(h.replay, r)
             w == Posted(h.view, Rpc(Messages(Upto(k), r)))
             l == Dropped(h, Upto(k))
  <2>2. n = [h EXCEPT !.lost = l, !.todo = td, !.replay = b, !.view = w, !.jobs = shown]
    BY <1>2, <1>9, <2>1 DEF HistoryBoundary, HostRecords
  <2>3. asks \in Seq(AskFrames) /\ AskFrames \subseteq ViewFrames
    BY <1>2, OnlyFacts DEF ViewFrames
  <2>4. line \in Seq(ViewFrames)
    <3>1. asks \in Seq(ViewFrames)
      <4> HIDE DEF asks
      <4>1. QED
        BY <2>3, SeqMonotonic
    <3> HIDE DEF asks
    <3>2. QED
      BY <1>2, <3>1
  <2>5. td \in [Revisions -> Seq(ViewFrames)]
    <3> HIDE DEF line
    <3>1. QED
      BY <1>2, <2>4
  <2>6. b \in Buffers
    <3>1. b = h.replay \/ b = [h.replay EXCEPT !.frames = <<>>]
      BY DEF ResetAtHistoryBoundary
    <3>2. <<>> \in Seq(ViewFrames)
      OBVIOUS
    <3> HIDE DEF b
    <3>3. QED
      BY <1>2, <3>1, <3>2 DEF Buffers
  <2>7. Placing(w)
    <3>1. Messages(Upto(k), r) \in Histories(k)
      BY <1>1 DEF Histories
    <3>2. Messages(Upto(k), r) \in ViewFrames
      BY <3>1 DEF ViewFrames, ResponseFrames, HistoryFrames
    <3>3. QED
      BY <1>2, <3>2, PostedFrame
  <2>8. l \in SUBSET (1..MaxMessages)
    BY DEF Dropped
  <2> HIDE DEF n, shown, asks, line, td, b, w, l
  <2>9. w \in Views(1..MaxMessages, Requests)
    BY <2>7 DEF Placing, ViewsHere
  <2>10. n \in HostRecords /\ n.following = h.following /\ n.active = h.active
         /\ n.overflow = h.overflow /\ n.view = w
    BY <1>2, <1>3, <2>2, <2>5, <2>6, <2>8, <2>9 DEF HostRecords, Buffers
  <2>11. QED
    BY <2>7, <2>10, HostStays DEF n
<1>10. QED
  <2>1. CASE f.command = "get_state" /\ r # revision
    <3>1. n = [h EXCEPT !.jobs = done]
      BY <2>1 DEF Answered
    <3>2. QED
      BY <1>6, <3>1
  <2>2. CASE f.command = "get_state" /\ r = revision
    <3>1. n = [h EXCEPT !.view = v, !.jobs = parity]
      BY <2>2 DEF Answered
    <3>2. QED
      BY <1>7, <3>1
  <2>3. CASE f.command = "get_messages_page" /\ f.busy
    <3>1. n = [h EXCEPT !.in = in2, !.jobs = messages]
      BY <2>3 DEF Answered
    <3>2. QED
      BY <1>8, <3>1
  <2>4. CASE f.command # "get_state" /\ ~(f.command = "get_messages_page" /\ f.busy)
    <3>1. f \in HistoryFrames
      BY <1>1, <2>4
    <3>2. n = IF r # revision THEN [h EXCEPT !.jobs = done] ELSE HistoryBoundary(h, r, f.messages)
      BY <2>4 DEF Answered
    <3>3. QED
      BY <1>6, <1>9, <3>1, <3>2
  <2>5. QED
    BY <2>1, <2>2, <2>3, <2>4

\* The host after each frame it receives.
LEMMA ReceiveTrace ==
  ASSUME NEW t \in Seq(ViewFrames), NEW h0 \in Hosts
  PROVE  \E g : /\ g[0] = h0
                /\ \A i \in 1..Len(t) : g[i] = ReceiveRpcFrame(g[i - 1], t[i])
                /\ FoldLeft(ReceiveRpcFrame, h0, t) = g[Len(t)]
<1> DEFINE n == Len(t)
           A == Hosts
           step == [i \in 1..n |-> [kept \in A |-> ReceiveRpcFrame(kept, t[i])]]
           Body(it) == [s \in SUBSET DOMAIN t |->
                          IF s = {} THEN h0 ELSE ReceiveRpcFrame(it[s \ {Max(s)}], t[Max(s)])]
           iter == CHOOSE it : it = Body(it)
<1>1. n \in Nat /\ DOMAIN t = 1..n /\ \A i \in 1..n : t[i] \in ViewFrames
  OBVIOUS
<1>2. FoldLeft(ReceiveRpcFrame, h0, t) = iter[DOMAIN t]
  BY DEF FoldLeft, MapThenFoldSet
<1>3. iter = Body(iter)
  <2>1. step \in [1..n -> [A -> A]]
    <3>1. \A i \in 1..n, kept \in A : ReceiveRpcFrame(kept, t[i]) \in A
      BY <1>1, ReceiveTyped
    <3> HIDE DEF A
    <3>2. QED
      BY <3>1
  <2>2. PICK it \in [SUBSET (1..n) -> A] : Iterates(it, n, h0, step)
    <3>1. h0 \in A
      OBVIOUS
    <3> HIDE DEF step, A, n
    <3>2. QED
      BY <1>1, <2>1, <3>1, IterExists
  <2>3. it = Body(it)
    <3>1. ASSUME NEW s \in SUBSET (1..n), s # {}
          PROVE  Max(s) \in 1..n
      BY <1>1, <3>1, MaxIn
    <3>2. \A s \in SUBSET (1..n) : s # {} =>
            step[Max(s)][it[s \ {Max(s)}]] = ReceiveRpcFrame(it[s \ {Max(s)}], t[Max(s)])
      <4>1. \A s \in SUBSET (1..n) : it[s \ {Max(s)}] \in A
        BY <2>2
      <4> HIDE DEF A
      <4>2. QED
        BY <3>1, <4>1
    <3> HIDE DEF step, A
    <3>3. QED
      BY <1>1, <2>2, <3>2 DEF Iterates
  <2> HIDE DEF Body
  <2>4. QED
    BY <2>3, Zenon
<1>4. iter[{}] = h0 /\ \A i \in 1..n : iter[1..i] = ReceiveRpcFrame(iter[1..(i - 1)], t[i])
  <2> HIDE DEF iter
  <2>1. \A s \in SUBSET (1..n) :
          iter[s] = IF s = {} THEN h0 ELSE ReceiveRpcFrame(iter[s \ {Max(s)}], t[Max(s)])
    BY <1>1, <1>3
  <2> HIDE DEF n
  <2>2. QED
    BY <1>1, <2>1, Initial
<1> DEFINE g == [i \in 0..n |-> iter[1..i]]
<1>5. QED
  <2> HIDE DEF iter, n
  <2>1. g[0] = h0
    BY <1>1, <1>4
  <2>2. \A i \in 1..n : g[i] = ReceiveRpcFrame(g[i - 1], t[i])
    BY <1>1, <1>4
  <2>3. FoldLeft(ReceiveRpcFrame, h0, t) = g[n]
    BY <1>1, <1>2
  <2> HIDE DEF g
  <2>4. QED
    BY <2>1, <2>2, <2>3 DEF n

\* The host after each answer.
LEMMA AnswerTrace ==
  ASSUME NEW t \in Seq(ResponseFrames), NEW h0 \in Hosts
  PROVE  \E g : /\ g[0] = h0
                /\ \A i \in 1..Len(t) : g[i] = Answered(g[i - 1], t[i])
                /\ FoldLeft(Answered, h0, t) = g[Len(t)]
<1> DEFINE n == Len(t)
           A == Hosts
           step == [i \in 1..n |-> [kept \in A |-> Answered(kept, t[i])]]
           Body(it) == [s \in SUBSET DOMAIN t |->
                          IF s = {} THEN h0 ELSE Answered(it[s \ {Max(s)}], t[Max(s)])]
           iter == CHOOSE it : it = Body(it)
<1>1. n \in Nat /\ DOMAIN t = 1..n /\ \A i \in 1..n : t[i] \in ResponseFrames
  OBVIOUS
<1>2. FoldLeft(Answered, h0, t) = iter[DOMAIN t]
  BY DEF FoldLeft, MapThenFoldSet
<1>3. iter = Body(iter)
  <2>1. step \in [1..n -> [A -> A]]
    <3>1. \A i \in 1..n, kept \in A : Answered(kept, t[i]) \in A
      BY <1>1, AnsweredTyped
    <3> HIDE DEF A
    <3>2. QED
      BY <3>1
  <2>2. PICK it \in [SUBSET (1..n) -> A] : Iterates(it, n, h0, step)
    <3>1. h0 \in A
      OBVIOUS
    <3> HIDE DEF step, A, n
    <3>2. QED
      BY <1>1, <2>1, <3>1, IterExists
  <2>3. it = Body(it)
    <3>1. ASSUME NEW s \in SUBSET (1..n), s # {}
          PROVE  Max(s) \in 1..n
      BY <1>1, <3>1, MaxIn
    <3>2. \A s \in SUBSET (1..n) : s # {} =>
            step[Max(s)][it[s \ {Max(s)}]] = Answered(it[s \ {Max(s)}], t[Max(s)])
      <4>1. \A s \in SUBSET (1..n) : it[s \ {Max(s)}] \in A
        BY <2>2
      <4> HIDE DEF A
      <4>2. QED
        BY <3>1, <4>1
    <3> HIDE DEF step, A
    <3>3. QED
      BY <1>1, <2>2, <3>2 DEF Iterates
  <2> HIDE DEF Body
  <2>4. QED
    BY <2>3, Zenon
<1>4. iter[{}] = h0 /\ \A i \in 1..n : iter[1..i] = Answered(iter[1..(i - 1)], t[i])
  <2> HIDE DEF iter
  <2>1. \A s \in SUBSET (1..n) :
          iter[s] = IF s = {} THEN h0 ELSE Answered(iter[s \ {Max(s)}], t[Max(s)])
    BY <1>1, <1>3
  <2> HIDE DEF n
  <2>2. QED
    BY <1>1, <2>1, Initial
<1> DEFINE g == [i \in 0..n |-> iter[1..i]]
<1>5. QED
  <2> HIDE DEF iter, n
  <2>1. g[0] = h0
    BY <1>1, <1>4
  <2>2. \A i \in 1..n : g[i] = Answered(g[i - 1], t[i])
    BY <1>1, <1>4
  <2>3. FoldLeft(Answered, h0, t) = g[n]
    BY <1>1, <1>2
  <2> HIDE DEF g
  <2>4. QED
    BY <2>1, <2>2, <2>3 DEF n

\* The first k frames that s has, the rest, and what of them was asked for.
Piece(s, k, frames, rest, answers) ==
  /\ frames = SubSeq(s, 1, k) /\ rest = SubSeq(s, k + 1, Len(s))
  /\ answers = Only(frames, {f \in Range(frames) : f.type = "response"})

\* The host receives the first k frames, one by one.
LEMMA PieceReceived ==
  ASSUME AgentTyped, NEW s \in Seq(ViewFrames), NEW h0, Coherent(h0, s, <<>>), NEW k \in 1..Len(s),
         NEW frames, NEW rest, NEW answers, Piece(s, k, frames, rest, answers)
  PROVE  /\ frames \in Seq(ViewFrames) /\ rest \in Seq(ViewFrames)
         /\ answers \in Seq(ResponseFrames)
         /\ Coherent(FoldLeft(ReceiveRpcFrame, h0, frames), rest, answers)
<1> DEFINE R == {f \in Range(frames) : f.type = "response"}
           Left(i) == SubSeq(s, i + 1, Len(s))
<1>0. /\ frames = SubSeq(s, 1, k) /\ rest = SubSeq(s, k + 1, Len(s)) /\ answers = Only(frames, R)
  BY DEF Piece
<1>1. /\ Len(s) \in Nat /\ k \in Nat /\ DOMAIN s = 1..Len(s)
      /\ \A i \in 1..Len(s) : s[i] \in ViewFrames
  OBVIOUS
<1>2. frames \in Seq(ViewFrames) /\ Len(frames) = k /\ DOMAIN frames = 1..k
      /\ \A i \in 1..k : frames[i] = s[i]
  BY <1>0, <1>1
<1>3. \A i \in 0..Len(s) : Left(i) \in Seq(ViewFrames)
  BY <1>1
<1>4. \A i \in 1..Len(s) : /\ Left(i - 1) # <<>> /\ Left(i - 1)[1] = s[i]
                           /\ Tail(Left(i - 1)) = Left(i)
  <2>1. SUFFICES ASSUME NEW i \in 1..Len(s)
                 PROVE  Left(i - 1) # <<>> /\ Left(i - 1)[1] = s[i] /\ Tail(Left(i - 1)) = Left(i)
    OBVIOUS
  <2>2. Left(i - 1) = SubSeq(s, i, Len(s))
    BY <1>1
  <2>3. Head(SubSeq(s, i, Len(s))) = s[i] /\ Tail(SubSeq(s, i, Len(s))) = SubSeq(s, i + 1, Len(s))
    <3>1. Len(s) \in i..Len(s)
      BY <1>1
    <3>2. QED
      BY <3>1, HeadTailOfSubSeq
  <2>4. SubSeq(s, i, Len(s)) \in Seq(ViewFrames) /\ Len(SubSeq(s, i, Len(s))) = Len(s) - i + 1
    BY <1>1
  <2>5. SubSeq(s, i, Len(s)) # <<>>
    <3> DEFINE u == SubSeq(s, i, Len(s))
    <3>1. u \in Seq(ViewFrames) /\ Len(u) >= 1
      BY <1>1, <2>4
    <3> HIDE DEF u
    <3>2. u # <<>>
      BY <3>1
    <3>3. QED
      BY <3>2 DEF u
  <2>6. QED
    BY <2>2, <2>3, <2>4, <2>5, HeadAndTail
<1>5. h0 \in Hosts
  BY CoherentHost
<1>6. PICK g : /\ g[0] = h0
               /\ \A i \in 1..k : g[i] = ReceiveRpcFrame(g[i - 1], frames[i])
               /\ FoldLeft(ReceiveRpcFrame, h0, frames) = g[k]
  <2>1. PICK g : /\ g[0] = h0
                 /\ \A i \in 1..Len(frames) : g[i] = ReceiveRpcFrame(g[i - 1], frames[i])
                 /\ FoldLeft(ReceiveRpcFrame, h0, frames) = g[Len(frames)]
    <3>1. frames \in Seq(ViewFrames)
      BY <1>2
    <3>2. QED
      BY <1>5, <3>1, ReceiveTrace
  <2>2. Len(frames) = k
    BY <1>2
  <2>3. QED
    BY <2>1, <2>2
<1>7. PICK a : /\ a[0] = <<>>
               /\ \A i \in 1..k : a[i] = IF frames[i] \in R THEN Append(a[i - 1], frames[i])
                                         ELSE a[i - 1]
               /\ answers = a[k]
  <2>1. PICK a : /\ a[0] = <<>>
                 /\ \A i \in 1..Len(frames) :
                      a[i] = IF frames[i] \in R THEN Append(a[i - 1], frames[i]) ELSE a[i - 1]
                 /\ Only(frames, R) = a[Len(frames)]
    <3>1. frames \in Seq(ViewFrames)
      BY <1>2
    <3>2. \E a : Picks(a, frames, R)
      BY <3>1, OnlyTrace
    <3>3. QED
      BY <3>2 DEF Picks
  <2>2. Len(frames) = k /\ answers = Only(frames, R)
    BY <1>0, <1>2
  <2> HIDE DEF R
  <2>3. QED
    BY <2>1, <2>2
<1>8. \A i \in 1..k : frames[i] \in R <=> frames[i] \in ResponseFrames
  <2>1. SUFFICES ASSUME NEW i \in 1..k PROVE frames[i] \in R <=> frames[i] \in ResponseFrames
    OBVIOUS
  <2>2. frames[i] \in ViewFrames /\ frames[i] \in Range(frames)
    <3>1. DOMAIN frames = 1..k /\ frames[i] = s[i] /\ i \in 1..Len(s)
      BY <1>1, <1>2
    <3>2. QED
      BY <1>1, <3>1 DEF Range
  <2>3. QED
    BY <2>2, FrameKinds
<1> HIDE DEF R, Left
<1> DEFINE U == [i \in 0..k |-> {p \in {<<g[i], a[i]>>} : /\ p[2] \in Seq(ResponseFrames)
                                                          /\ Coherent(p[1], Left(i), p[2])}]
           b == [i \in 0..k |-> <<g[i], a[i]>>]
<1>9. \A i \in 0..k : b[i] \in U[i] <=> /\ a[i] \in Seq(ResponseFrames)
                                        /\ Coherent(g[i], Left(i), a[i])
  OBVIOUS
<1>10. b[0] \in U[0]
  <2>1. Left(0) = s
    BY SubSeqFull DEF Left
  <2>2. <<>> \in Seq(ResponseFrames) /\ 0 \in 0..k
    BY <1>1
  <2> HIDE DEF b, U
  <2>3. QED
    BY <1>6, <1>7, <1>9, <2>1, <2>2
<1>11. ASSUME NEW i \in 1..k, b[i - 1] \in U[i - 1] PROVE b[i] \in U[i]
  <2>1. i \in 0..k /\ i - 1 \in 0..k /\ i \in 1..Len(s) /\ i - 1 \in 0..Len(s)
    BY <1>1
  <2> HIDE DEF b, U
  <2>2. a[i - 1] \in Seq(ResponseFrames) /\ Coherent(g[i - 1], Left(i - 1), a[i - 1])
    BY <1>9, <1>11, <2>1
  <2>3. /\ Left(i - 1) \in Seq(ViewFrames) /\ Left(i - 1) # <<>> /\ Left(i - 1)[1] = frames[i]
        /\ Tail(Left(i - 1)) = Left(i)
    BY <1>2, <1>3, <1>4, <2>1
  <2>4. g[i] = ReceiveRpcFrame(g[i - 1], Left(i - 1)[1])
    BY <1>6, <2>3
  <2>5. Coherent(g[i], Tail(Left(i - 1)),
                 IF Left(i - 1)[1] \in ResponseFrames THEN Append(a[i - 1], Left(i - 1)[1])
                 ELSE a[i - 1])
    <3> DEFINE gp == g[i - 1]
               ap == a[i - 1]
               lp == Left(i - 1)
               gi == g[i]
    <3>1. /\ lp \in Seq(ViewFrames) /\ lp # <<>> /\ ap \in Seq(ResponseFrames)
          /\ Coherent(gp, lp, ap) /\ gi = ReceiveRpcFrame(gp, lp[1])
      BY <2>2, <2>3, <2>4
    <3> HIDE DEF gp, ap, lp, gi
    <3>2. Coherent(gi, Tail(lp), IF lp[1] \in ResponseFrames THEN Append(ap, lp[1]) ELSE ap)
      BY <3>1, CoherentReceived
    <3>3. QED
      BY <3>2 DEF gp, ap, lp, gi
  <2>6. a[i] = IF Left(i - 1)[1] \in ResponseFrames THEN Append(a[i - 1], Left(i - 1)[1])
               ELSE a[i - 1]
    BY <1>7, <1>8, <2>3
  <2>7. a[i] \in Seq(ResponseFrames)
    BY <2>2, <2>6
  <2>8. Coherent(g[i], Left(i), a[i])
    BY <2>3, <2>5, <2>6
  <2>9. QED
    BY <1>9, <2>1, <2>7, <2>8
<1>12. b[k] \in U[k]
  <2> HIDE DEF b, U
  <2>1. \A i \in 0..k : b[i] \in U[i]
    BY <1>1, <1>10, <1>11, Along
  <2>2. QED
    BY <1>1, <2>1
<1>13. a[k] \in Seq(ResponseFrames) /\ Coherent(g[k], Left(k), a[k])
  <2> HIDE DEF b, U
  <2>1. k \in 0..k
    BY <1>1
  <2>2. QED
    BY <1>9, <1>12, <2>1
<1>14. Left(k) = rest
  BY <1>0 DEF Left
<1>15. rest \in Seq(ViewFrames)
  BY <1>1, <1>3, <1>14
<1>16. QED
  BY <1>2, <1>6, <1>7, <1>13, <1>14, <1>15

\* What awaited the answers goes on, one after the other.
LEMMA PieceAnswered ==
  ASSUME AgentTyped, NEW rest \in Seq(ViewFrames), NEW answers \in Seq(ResponseFrames),
         NEW h0, Coherent(h0, rest, answers)
  PROVE  Coherent(FoldLeft(Answered, h0, answers), rest, <<>>)
<1> DEFINE k == Len(answers)
           Left(i) == SubSeq(answers, i + 1, k)
<1>1. k \in Nat /\ \A i \in 1..k : answers[i] \in ResponseFrames
  OBVIOUS
<1>2. \A i \in 0..k : Left(i) \in Seq(ResponseFrames)
  BY <1>1
<1>3. \A i \in 1..k : /\ Left(i - 1) # <<>> /\ Left(i - 1)[1] = answers[i]
                      /\ Tail(Left(i - 1)) = Left(i)
  <2>1. SUFFICES ASSUME NEW i \in 1..k
                 PROVE  /\ Left(i - 1) # <<>> /\ Left(i - 1)[1] = answers[i]
                        /\ Tail(Left(i - 1)) = Left(i)
    OBVIOUS
  <2>2. Left(i - 1) = SubSeq(answers, i, k)
    BY <1>1
  <2>3. /\ Head(SubSeq(answers, i, k)) = answers[i]
        /\ Tail(SubSeq(answers, i, k)) = SubSeq(answers, i + 1, k)
    <3>1. k \in i..k
      BY <1>1
    <3>2. QED
      BY <3>1, HeadTailOfSubSeq
  <2>4. SubSeq(answers, i, k) \in Seq(ResponseFrames) /\ Len(SubSeq(answers, i, k)) = k - i + 1
    BY <1>1
  <2>5. SubSeq(answers, i, k) # <<>>
    <3> DEFINE u == SubSeq(answers, i, k)
    <3>1. u \in Seq(ResponseFrames) /\ Len(u) >= 1
      BY <1>1, <2>4
    <3> HIDE DEF u
    <3>2. u # <<>>
      BY <3>1
    <3>3. QED
      BY <3>2 DEF u
  <2>6. QED
    BY <2>2, <2>3, <2>4, <2>5, HeadAndTail
<1>4. h0 \in Hosts
  BY CoherentHost
<1>5. PICK g : /\ g[0] = h0
               /\ \A i \in 1..k : g[i] = Answered(g[i - 1], answers[i])
               /\ FoldLeft(Answered, h0, answers) = g[k]
  BY <1>4, AnswerTrace
<1>6. Left(0) = answers /\ Left(k) = <<>>
  BY <1>1, SubSeqFull, SubSeqEmpty
<1> HIDE DEF Left, k
<1> DEFINE V == [i \in 0..k |-> {h \in {g[i]} : Coherent(h, rest, Left(i))}]
<1>7. \A i \in 0..k : g[i] \in V[i] <=> Coherent(g[i], rest, Left(i))
  OBVIOUS
<1>8. g[0] \in V[0]
  <2>1. 0 \in 0..k
    BY <1>1
  <2> HIDE DEF V
  <2>2. QED
    BY <1>5, <1>6, <1>7, <2>1
<1>9. ASSUME NEW i \in 1..k, g[i - 1] \in V[i - 1] PROVE g[i] \in V[i]
  <2>1. i \in 0..k /\ i - 1 \in 0..k
    BY <1>1
  <2> HIDE DEF V
  <2>2. Coherent(g[i - 1], rest, Left(i - 1))
    BY <1>7, <1>9, <2>1
  <2>3. /\ Left(i - 1) \in Seq(ResponseFrames) /\ Left(i - 1) # <<>>
        /\ Left(i - 1)[1] = answers[i] /\ Tail(Left(i - 1)) = Left(i)
    BY <1>2, <1>3, <2>1
  <2>4. g[i] = Answered(g[i - 1], Left(i - 1)[1])
    BY <1>5, <2>3
  <2>5. Coherent(g[i], rest, Tail(Left(i - 1)))
    <3> DEFINE gp == g[i - 1]
               lp == Left(i - 1)
               gi == g[i]
    <3>1. /\ lp \in Seq(ResponseFrames) /\ lp # <<>>
          /\ Coherent(gp, rest, lp) /\ gi = Answered(gp, lp[1])
      BY <2>2, <2>3, <2>4
    <3> HIDE DEF gp, lp, gi
    <3>2. Coherent(gi, rest, Tail(lp))
      BY <3>1, CoherentAnswered
    <3>3. QED
      BY <3>2 DEF gp, lp, gi
  <2>6. QED
    BY <1>7, <2>1, <2>3, <2>5
<1>10. g[k] \in V[k]
  <2> HIDE DEF V
  <2>1. \A i \in 0..k : g[i] \in V[i]
    BY <1>1, <1>8, <1>9, Along
  <2>2. QED
    BY <1>1, <2>1
<1>11. QED
  <2> HIDE DEF V
  <2>1. k \in 0..k
    BY <1>1
  <2>2. QED
    BY <1>5, <1>6, <1>7, <1>10, <2>1

-----------------------------------------------------------------------------
(* The host goes on by itself: a piece of output, and the rehydrations. *)

\* The fields of the host's record are its variables.
LEMMA HostIs ==
  /\ Host.following = following /\ Host.active = active /\ Host.overflow = overflow
  /\ Host.replay = replay /\ Host.view = view /\ Host.jobs = jobs /\ Host.todo = todo
  /\ Host.in = in /\ Host.lost = lost
BY DEF Host

\* A step of the host that leaves OMP and the page alone.
LEMMA JobDone ==
  ASSUME AgentTyped, NEW h \in HostRecords, Becomes(h), UNCHANGED <<agentVars, revision, page>>,
         out' \in Seq(ViewFrames), NEW rest, rest = out', Coherent(h, rest, <<>>)
  PROVE  ViewInvariant'
<1>1. Host' = h
  BY DEF Host, Becomes, HostRecords
<1>2. Agent' = Agent /\ AgentTyped' /\ revision' = revision /\ page' = page
  BY DEF AgentTyped, Agent, Working, agentVars
<1>3. Coherent(Host, out, <<>>)'
  BY <1>1, <1>2 DEF Coherent
<1>4. QED
  BY <1>2, <1>3 DEF ViewInvariant

\* The host reads a piece of output.
LEMMA DataKeeps ==
  ASSUME ViewInvariant, DataEvent
  PROVE  ViewInvariant'
<1>1. AgentTyped /\ out \in Seq(ViewFrames) /\ Coherent(Host, out, <<>>)
  BY DEF ViewInvariant
<1>2. PICK k \in 1..Len(out) :
        LET frames == SubSeq(out, 1, k)
            answers == Only(frames, {f \in Range(frames) : f.type = "response"})
        IN  /\ out' = SubSeq(out, k + 1, Len(out))
            /\ Becomes(FoldLeft(Answered, FoldLeft(ReceiveRpcFrame, Host, frames), answers))
            /\ UNCHANGED <<agentVars, revision, page>>
  BY DEF DataEvent
<1> DEFINE frames == SubSeq(out, 1, k)
           answers == Only(frames, {f \in Range(frames) : f.type = "response"})
           rest == SubSeq(out, k + 1, Len(out))
           h == FoldLeft(ReceiveRpcFrame, Host, frames)
           n == FoldLeft(Answered, h, answers)
<1>3. out' = rest /\ Becomes(n) /\ UNCHANGED <<agentVars, revision, page>>
  BY <1>2
<1>4. /\ Piece(out, k, frames, rest, answers)
      /\ h = FoldLeft(ReceiveRpcFrame, Host, frames) /\ n = FoldLeft(Answered, h, answers)
  BY DEF Piece
<1> HIDE DEF frames, answers, rest, h, n
<1>5. /\ frames \in Seq(ViewFrames) /\ rest \in Seq(ViewFrames) /\ answers \in Seq(ResponseFrames)
      /\ Coherent(FoldLeft(ReceiveRpcFrame, Host, frames), rest, answers)
  BY <1>1, <1>4, PieceReceived
<1>6. Coherent(h, rest, answers)
  BY <1>4, <1>5
<1>7. Coherent(n, rest, <<>>)
  BY <1>1, <1>4, <1>5, <1>6, PieceAnswered
<1>8. n \in HostRecords
  BY <1>7 DEF Coherent, HostTyped
<1>9. QED
  BY <1>1, <1>3, <1>5, <1>7, <1>8, JobDone

\* The host while ViewInvariant holds.
LEMMA HostNow ==
  ASSUME ViewInvariant
  PROVE  /\ AgentTyped /\ out \in Seq(ViewFrames) /\ Coherent(Host, out, <<>>)
         /\ Host \in Hosts /\ Host \in HostRecords /\ Placing(Host.view) /\ HostTyped(Host)
         /\ Phased(Host, revision, page) /\ Called(Host, out, <<>>, revision)
         /\ Knows(Host, out, Agent) /\ Sees(Host, out, Agent, revision)
         /\ Possible(Agent) /\ Agent \in Agents
         /\ revision \in Nat /\ (revision = 0 \/ revision \in Revisions)
         /\ \A r \in Revisions : r \in Nat /\ r # 0
<1>1. AgentTyped /\ out \in Seq(ViewFrames) /\ Coherent(Host, out, <<>>)
  BY DEF ViewInvariant
<1>2. Host \in Hosts /\ Placing(Host.view) /\ Possible(Agent) /\ Agent \in Agents
  BY <1>1, CoherentHost, AgentPossible
<1>3. revision \in 0..MaxRevisions
  BY <1>1 DEF Coherent, Phased
<1>4. MaxRevisions \in Nat
  BY ViewAssumption
<1>5. QED
  BY <1>1, <1>2, <1>3, <1>4 DEF Coherent, Hosts, Revisions

\* A rehydration that has not shown the history goes on.
LEMMA GoesOnKeeps ==
  ASSUME ViewInvariant, NEW r \in Revisions, NEW j, NEW n, Proceeds(Host, n, r, j),
         MayAsk(Host, n, r, j), jobs[r] \notin {"state", "page", "messages"}, Job(n)
  PROVE  ViewInvariant'
<1>1. HostTyped(n) /\ Phased(n, revision, page) /\ Knows(n, out, Agent)
      /\ Sees(n, out, Agent, revision)
  BY HostNow, CoherentGoesOn
<1>2. Called(n, out, <<>>, revision)
  <2>1. Host.jobs \in [Revisions -> Phases] /\ Host.in \in Seq(ViewCommands)
    BY HostNow, HostFields
  <2>2. n.jobs = [Host.jobs EXCEPT ![r] = j]
    BY DEF Proceeds
  <2>3. Host.jobs[r] \notin {"state", "page", "messages"}
    BY HostIs
  <2>4. QED
    BY <2>1, <2>2, <2>3, HostNow, CalledJob
<1>3. Coherent(n, out, <<>>)
  BY <1>1, <1>2 DEF Coherent
<1>4. Becomes(n) /\ out' = out /\ UNCHANGED <<agentVars, revision, page>>
  BY DEF Job
<1>5. n \in HostRecords
  BY DEF Proceeds
<1>6. QED
  BY <1>3, <1>4, <1>5, HostNow, JobDone

\* A rehydration of an attachment that is over ends.
LEMMA StaleEnds ==
  ASSUME ViewInvariant, NEW r \in Revisions, r # revision,
         jobs[r] \notin {"none", "state", "page", "messages"}, NEW n,
         n \in {[Host EXCEPT !.jobs[r] = "done"],
                [Host EXCEPT !.todo[r] = <<>>, !.jobs[r] = "done"]},
         jobs[r] = "replay" => todo[r] = <<>> \/ n.todo[r] = <<>>, Job(n)
  PROVE  ViewInvariant'
<1> DEFINE done == [Host.jobs EXCEPT ![r] = "done"]
           empty == [Host.todo EXCEPT ![r] = <<>>]
<1>1. Host \in HostRecords /\ Host.jobs \in [Revisions -> Phases]
      /\ Host.todo \in [Revisions -> Seq(ViewFrames)]
  BY HostNow, HostFields
<1>2. done \in [Revisions -> Phases] /\ empty \in [Revisions -> Seq(ViewFrames)]
  <2>1. <<>> \in Seq(ViewFrames) /\ "done" \in Phases
    BY DEF Phases
  <2>2. QED
    BY <1>1, <2>1
<1>3. n = [Host EXCEPT !.jobs = done] \/ n = [Host EXCEPT !.todo = empty, !.jobs = done]
  BY <1>1 DEF HostRecords
<1>4. n.todo = Host.todo => n.todo[r] = todo[r]
  BY HostIs
<1>5. Host.jobs[r] = jobs[r] /\ Host.todo[r] = todo[r]
  BY HostIs
<1> HIDE DEF done, empty
<1>6. /\ n \in HostRecords /\ n.jobs = done /\ n.todo \in {Host.todo, empty}
      /\ n.following = Host.following /\ n.active = Host.active /\ n.overflow = Host.overflow
      /\ n.replay = Host.replay /\ n.lost = Host.lost /\ n.in = Host.in /\ n.view = Host.view
  BY <1>1, <1>2, <1>3 DEF HostRecords
<1>7. Proceeds(Host, n, r, "done") /\ MayAsk(Host, n, r, "done")
  BY <1>4, <1>5, <1>6 DEF Proceeds, MayAsk, done, empty
<1>8. QED
  BY <1>7, GoesOnKeeps

\* The parity of an attachment is posted.
LEMMA ParityKeeps ==
  ASSUME ViewInvariant, NEW r \in Revisions, ParityPosted(r)
  PROVE  ViewInvariant'
<1> DEFINE page1 == [Host.jobs EXCEPT ![r] = "page"]
           v == IF r = revision THEN Posted(Host.view, [type |-> "parity", ok |-> TRUE])
                ELSE Host.view
           in1 == Append(Host.in, Command("get_messages_page", r))
           n == [Host EXCEPT !.jobs[r] = "page",
                   !.view = IF r = revision THEN Posted(@, [type |-> "parity", ok |-> TRUE]) ELSE @,
                   !.in = Append(@, Command("get_messages_page", r))]
<1>1. Host \in HostRecords /\ Host.jobs \in [Revisions -> Phases] /\ Host.in \in Seq(ViewCommands)
      /\ Placing(Host.view)
  BY HostNow, HostFields
<1>2. Command("get_messages_page", r) \in ViewCommands
  BY DEF ViewCommands, Calls, CallKinds
<1>3. page1 \in [Revisions -> Phases] /\ in1 \in Seq(ViewCommands)
  BY <1>1, <1>2 DEF Phases
<1>4. Placing(v) /\ v.transport = Host.view.transport /\ (r # revision => v = Host.view)
  <2>1. CASE r = revision /\ page \in {"listening", "ready"}
    <3>1. v = [Host.view EXCEPT !.parity = "passed"]
      BY <2>1 DEF Posted, ReceiveHostMessage, ApplyHostFrame
    <3>2. QED
      BY <1>1, <2>1, <3>1 DEF Placing, ViewsHere, Views
  <2>2. CASE ~(r = revision /\ page \in {"listening", "ready"})
    BY <1>1, <2>2 DEF Posted
  <2>3. QED
    BY <2>1, <2>2
<1>5. n = [Host EXCEPT !.jobs = page1, !.view = v, !.in = in1]
  BY <1>1 DEF HostRecords
<1>6. Job(n) /\ Host.jobs[r] = "parity" /\ jobs[r] = "parity"
  BY HostIs DEF ParityPosted
<1>7. v \in ViewsHere
  BY <1>4 DEF Placing
<1> HIDE DEF page1, v, in1, n
<1>8. /\ n \in HostRecords /\ n.jobs = page1 /\ n.todo = Host.todo
      /\ n.following = Host.following /\ n.active = Host.active /\ n.overflow = Host.overflow
      /\ n.replay = Host.replay /\ n.lost = Host.lost /\ n.in = in1 /\ n.view = v
  BY <1>1, <1>3, <1>5, <1>7 DEF HostRecords, ViewsHere
<1>9. Proceeds(Host, n, r, "page")
  <2>1. n.in = Append(Host.in, Command("get_messages_page", r))
    BY <1>8 DEF in1
  <2>2. n.jobs = [Host.jobs EXCEPT ![r] = "page"]
    BY <1>8 DEF page1
  <2>3. "page" \in Asking /\ Host.jobs[r] \in Asking
    BY <1>6 DEF Asking
  <2>4. QED
    BY <1>2, <1>4, <1>6, <1>8, <2>1, <2>2, <2>3 DEF Proceeds
<1>10. MayAsk(Host, n, r, "page")
  <2>1. "get_messages_page" \in CallKinds
    BY DEF CallKinds
  <2>2. Waits(Command("get_messages_page", r)) = "page"
    BY <2>1, RevsCommand
  <2>3. n.in = Append(Host.in, Command("get_messages_page", r))
    BY <1>8 DEF in1
  <2>4. QED
    BY <2>1, <2>2, <2>3 DEF MayAsk
<1>11. QED
  BY <1>6, <1>9, <1>10, GoesOnKeeps

\* The bootstrap message was posted: the state is asked for.
LEMMA RehydrateKeeps ==
  ASSUME ViewInvariant, NEW r \in Revisions, Rehydrate(r)
  PROVE  ViewInvariant'
<1>1. CASE r # revision
  <2>1. Job([Host EXCEPT !.jobs[r] = "done"]) /\ jobs[r] = "bootstrap"
    BY <1>1 DEF Rehydrate
  <2>2. QED
    BY <1>1, <2>1, StaleEnds
<1>2. CASE r = revision
  <2> DEFINE state == [Host.jobs EXCEPT ![r] = "state"]
             in1 == Append(Host.in, Command("get_state", r))
             begun == [Host.replay EXCEPT !.revision = r, !.frames = <<>>]
             n == [Host EXCEPT !.replay = Begin(@, r), !.jobs[r] = "state",
                    !.in = Append(@, Command("get_state", r))]
  <2>1. Host \in HostRecords /\ Host.jobs \in [Revisions -> Phases] /\ Host.in \in Seq(ViewCommands)
        /\ Host.replay \in Buffers
    BY HostNow, HostFields
  <2>2. Command("get_state", r) \in ViewCommands
    BY DEF ViewCommands, Calls, CallKinds
  <2>3. state \in [Revisions -> Phases] /\ in1 \in Seq(ViewCommands)
    BY <2>1, <2>2 DEF Phases
  <2>4. begun \in Buffers /\ begun.revision = r /\ begun.frames = <<>>
        /\ begun.requests = Host.replay.requests
    <3>1. r \in 0..MaxRevisions
      BY ViewAssumption DEF Revisions
    <3>2. <<>> \in Seq(ViewFrames)
      OBVIOUS
    <3>3. QED
      BY <2>1, <3>1, <3>2 DEF Buffers
  <2>5. n = [Host EXCEPT !.replay = begun, !.jobs = state, !.in = in1]
    BY <2>1 DEF HostRecords, Begin
  <2>6. Job(n) /\ jobs[r] = "bootstrap" /\ Host.jobs[r] = "bootstrap"
    BY <1>2, HostIs DEF Rehydrate
  <2>7. /\ state = [Host.jobs EXCEPT ![r] = "state"] /\ state[r] = "state"
        /\ \A q \in Revisions : q # r => state[q] = Host.jobs[q]
        /\ in1 = Append(Host.in, Command("get_state", r))
        /\ Range(in1) = Range(Host.in) \cup {Command("get_state", r)}
    BY <2>1, <2>2, Appended
  <2> HIDE DEF state, in1, begun, n
  <2>8. /\ n \in HostRecords /\ n.jobs = state /\ n.todo = Host.todo /\ n.replay = begun
        /\ n.following = Host.following /\ n.active = Host.active /\ n.overflow = Host.overflow
        /\ n.lost = Host.lost /\ n.in = in1 /\ n.view = Host.view
    BY <2>1, <2>3, <2>4, <2>5 DEF HostRecords, Buffers
  <2>9. HostTyped(n)
    BY <2>8, HostNow DEF HostTyped
  <2>10. Phased(Host, revision, page) /\ r # 0 /\ revision = r
    BY <1>2, HostNow
  <2>11. Phased(n, revision, page)
    <3>1. Host.jobs[revision] # "none" /\ n.jobs[revision] = "state"
      BY <1>2, <2>6, <2>7, <2>8
    <3>2. \A q \in Revisions : q > revision => n.jobs[q] = "none"
      <4>1. \A q \in Revisions : q > revision => q # r
        BY <2>10, HostNow
      <4>2. QED
        BY <2>7, <2>8, <2>10, <4>1 DEF Phased
    <3>3. \A q \in Revisions : n.todo[q] # <<>> => n.jobs[q] = "replay"
      <4>1. Host.todo[r] = <<>>
        BY <2>6, <2>10 DEF Phased
      <4>2. QED
        BY <2>7, <2>8, <2>10, <4>1 DEF Phased
    <3>4. n.view.transport # "ready"
      BY <2>6, <2>8, <2>10 DEF Phased
    <3>5. QED
      BY <2>4, <2>8, <2>10, <3>1, <3>2, <3>3, <3>4 DEF Phased, Rehydrating
  <2>12. Called(n, out, <<>>, revision)
    <3>1. MayAsk(Host, n, r, "state")
      <4>1. "get_state" \in CallKinds /\ Waits(Command("get_state", r)) = "state"
        BY RevsCommand DEF CallKinds
      <4>2. n.in = Append(Host.in, Command("get_state", r))
        BY <2>7, <2>8
      <4>3. QED
        BY <4>1, <4>2 DEF MayAsk
    <3>2. Host.jobs[r] \notin {"state", "page", "messages"}
      BY <2>6
    <3>3. n.jobs = [Host.jobs EXCEPT ![r] = "state"]
      BY <2>7, <2>8
    <3>4. QED
      BY <2>1, <3>1, <3>2, <3>3, HostNow, CalledJob
  <2>13. Knows(n, out, Agent)
    <3>1. Host.replay.frames = <<>>
      <4>1. Host.replay.revision # revision /\ Host.replay.revision \in {0, revision}
        BY <2>6, <2>10 DEF Phased, Rehydrating
      <4>2. QED
        BY <2>10, <4>1 DEF Phased
    <3>2. Range(Host.in) \subseteq Range(n.in)
      BY <2>7, <2>8
    <3>3. QED
      BY <2>4, <2>8, <3>1, <3>2, HostNow DEF Knows
  <2>14. Sees(n, out, Agent, revision)
    BY <2>7, <2>8, <2>10 DEF Sees, ShowsHistory
  <2>15. QED
    BY <2>6, <2>8, <2>9, <2>11, <2>12, <2>13, <2>14, HostNow, JobDone DEF Coherent, Job
<1>3. QED
  BY <1>1, <1>2

\* A frame of the turn that the history does not have is posted.
LEMMA FrameKeeps ==
  ASSUME ViewInvariant, NEW r \in Revisions, FramePosted(r)
  PROVE  ViewInvariant'
<1>1. CASE r # revision
  <2> DEFINE n == [Host EXCEPT !.todo[r] = <<>>, !.jobs[r] = "done"]
  <2>1. Job(n) /\ jobs[r] = "replay"
    BY <1>1 DEF FramePosted
  <2>2. n.todo[r] = <<>>
    <3>1. Host \in HostRecords /\ Host.todo \in [Revisions -> Seq(ViewFrames)]
      BY HostNow, HostFields
    <3>2. n.todo = [Host.todo EXCEPT ![r] = <<>>]
      BY <3>1 DEF HostRecords
    <3>3. QED
      BY <3>1, <3>2
  <2> HIDE DEF n
  <2>3. QED
    BY <1>1, <2>1, <2>2, StaleEnds DEF n
<1>2. CASE r = revision
  <2> DEFINE t == Host.todo[r]
             todo1 == [Host.todo EXCEPT ![r] = Tail(t)]
             v == Posted(Host.view, Rpc(Head(t)))
             n == [Host EXCEPT !.todo[r] = Tail(@), !.view = Posted(@, Rpc(Head(todo[r])))]
  <2>1. Host \in HostRecords /\ Host.todo \in [Revisions -> Seq(ViewFrames)]
        /\ Placing(Host.view) /\ Phased(Host, revision, page) /\ r # 0 /\ revision = r
        /\ Host.replay \in Buffers /\ Host.jobs \in [Revisions -> Phases]
    BY <1>2, HostNow, HostFields
  <2>2. Job(n) /\ Host.jobs[r] = "replay" /\ t # <<>> /\ t = todo[r]
    BY <1>2, HostIs DEF FramePosted
  <2>3. t \in Seq(ViewFrames) /\ Tail(t) \in Seq(ViewFrames) /\ Head(t) = t[1]
        /\ t[1] \in ViewFrames
    BY <2>1, <2>2, HeadAndTail
  <2>4. todo1 \in [Revisions -> Seq(ViewFrames)]
        /\ todo1[r] = Tail(t) /\ \A q \in Revisions : q # r => todo1[q] = Host.todo[q]
    BY <2>1, <2>3
  <2>5. page = "ready"
    BY <2>1, <2>2 DEF Phased
  <2>6. v = ReduceRpcFrame(Host.view, t[1])
    BY <2>1, <2>3, <2>5, PostedFrame
  <2>7. n = [Host EXCEPT !.todo = todo1, !.view = v]
    BY <2>1, <2>2 DEF HostRecords
  <2>8. ShowsHistory(Host, revision)
    BY <2>1, <2>2 DEF ShowsHistory
  <2> DEFINE s == Coming(Host, out, revision)
  <2>9. Follows(Host.view, s, Host.in, Host.lost, Agent, Outgrown(Host, out))
    BY <2>8, HostNow DEF Sees
  <2>10. s \in Seq(ViewFrames) /\ s # <<>> /\ s[1] = t[1]
         /\ Tail(s) = Tail(t) \o (Host.replay.frames \o out)
    <3> DEFINE u == Host.replay.frames \o out
    <3>1. u \in Seq(ViewFrames) /\ s = t \o u
      BY <2>1, HostNow, BufferFields, FramesJoined DEF Coming
    <3> HIDE DEF t, u
    <3>2. t \o u \in Seq(ViewFrames) /\ Len(t) >= 1 /\ Len(t \o u) = Len(t) + Len(u)
          /\ (t \o u)[1] = t[1]
      BY <2>2, <2>3, <3>1
    <3>3. t \o u # <<>>
      <4> DEFINE w == t \o u
      <4>1. w \in Seq(ViewFrames) /\ Len(w) >= 1
        BY <2>3, <3>1, <3>2
      <4> HIDE DEF w
      <4>2. w # <<>>
        BY <4>1
      <4>3. QED
        BY <4>2 DEF w
    <3>4. Tail(t \o u) = Tail(t) \o u
      <4>1. Tail(t \o u) \in Seq(ViewFrames) /\ Tail(t) \o u \in Seq(ViewFrames)
        BY <2>3, <3>1, <3>2, <3>3, HeadAndTail
      <4>2. Len(Tail(t \o u)) = Len(t) + Len(u) - 1 /\ Len(Tail(t) \o u) = Len(t) + Len(u) - 1
        BY <2>2, <2>3, <3>1, <3>2, <3>3
      <4>3. \A i \in 1..(Len(t) + Len(u) - 1) : Tail(t \o u)[i] = (Tail(t) \o u)[i]
        BY <2>2, <2>3, <3>1, <3>2, <3>3
      <4>4. QED
        BY <4>1, <4>2, <4>3, SeqEqual
    <3>5. QED
      BY <3>1, <3>2, <3>3, <3>4 DEF u
  <2> HIDE DEF t, todo1, v, n, s
  <2>11. Placing(v) /\ Follows(v, Tail(s), Host.in, Host.lost, Agent, Outgrown(Host, out))
         /\ v.transport = Host.view.transport
    BY <2>1, <2>6, <2>9, <2>10, HostNow, FollowsTail
  <2>12. /\ n \in HostRecords /\ n.jobs = Host.jobs /\ n.todo = todo1 /\ n.replay = Host.replay
         /\ n.following = Host.following /\ n.active = Host.active /\ n.overflow = Host.overflow
         /\ n.lost = Host.lost /\ n.in = Host.in /\ n.view = v
    BY <2>1, <2>4, <2>7, <2>11 DEF HostRecords, Placing, ViewsHere
  <2>13. HostTyped(n)
    BY <2>11, <2>12, HostNow DEF HostTyped, Placing
  <2>14. Phased(n, revision, page)
    <3>1. \A q \in Revisions : n.todo[q] # <<>> => n.jobs[q] = "replay"
      BY <2>1, <2>2, <2>4, <2>12 DEF Phased
    <3>2. QED
      BY <2>1, <2>11, <2>12, <3>1 DEF Phased
  <2>15. Called(n, out, <<>>, revision)
    BY <2>12, HostNow DEF Called
  <2>16. Knows(n, out, Agent)
    BY <2>12, HostNow DEF Knows
  <2>17. Sees(n, out, Agent, revision)
    <3>1. Coming(n, out, revision) = Tail(s) /\ Outgrown(n, out) = Outgrown(Host, out)
      BY <2>1, <2>4, <2>10, <2>12 DEF Coming, Outgrown
    <3>2. QED
      BY <2>11, <2>12, <3>1 DEF Sees
  <2>18. QED
    BY <2>2, <2>12, <2>13, <2>14, <2>15, <2>16, <2>17, HostNow, JobDone DEF Coherent, Job
<1>3. QED
  BY <1>1, <1>2

\* What was captured meanwhile is posted next.
LEMMA DrainKeeps ==
  ASSUME ViewInvariant, NEW r \in Revisions, DrainRehydration(r)
  PROVE  ViewInvariant'
<1> DEFINE t == Drained(replay, r)
           todo1 == [Host.todo EXCEPT ![r] = t]
           drained == Drain(Host.replay, r)
           n == [Host EXCEPT !.todo[r] = Drained(replay, r), !.replay = Drain(@, r)]
<1>1. Host \in HostRecords /\ Host.todo \in [Revisions -> Seq(ViewFrames)]
      /\ Placing(Host.view) /\ Phased(Host, revision, page) /\ r # 0 /\ revision = r
      /\ Host.replay \in Buffers /\ Host.jobs \in [Revisions -> Phases]
      /\ Host.replay.frames \in Seq(ViewFrames)
  BY HostNow, HostFields, BufferFields DEF DrainRehydration
<1>2. Job(n) /\ Host.jobs[r] = "replay" /\ Host.todo[r] = <<>>
  BY HostIs DEF DrainRehydration
<1>3. Host.replay.revision = r
  BY <1>1, <1>2 DEF Phased, Rehydrating
<1>4. t = Host.replay.frames /\ t \in Seq(ViewFrames)
  BY <1>1, <1>3, HostIs DEF Drained
<1>5. drained \in Buffers /\ drained.revision = r /\ drained.frames = <<>>
      /\ drained.requests = Host.replay.requests
  <2>1. drained = [Host.replay EXCEPT !.frames = <<>>]
    BY <1>3 DEF Drain, ResetAtHistoryBoundary
  <2>2. <<>> \in Seq(ViewFrames)
    OBVIOUS
  <2>3. QED
    BY <1>1, <1>3, <2>1, <2>2 DEF Buffers
<1>6. n = [Host EXCEPT !.todo = todo1, !.replay = drained]
  BY <1>1 DEF HostRecords
<1>7. todo1 \in [Revisions -> Seq(ViewFrames)]
      /\ todo1[r] = t /\ \A q \in Revisions : q # r => todo1[q] = Host.todo[q]
  BY <1>1, <1>4
<1> HIDE DEF t, todo1, drained, n
<1>8. /\ n \in HostRecords /\ n.jobs = Host.jobs /\ n.todo = todo1 /\ n.replay = drained
      /\ n.following = Host.following /\ n.active = Host.active /\ n.overflow = Host.overflow
      /\ n.lost = Host.lost /\ n.in = Host.in /\ n.view = Host.view
  BY <1>1, <1>5, <1>6, <1>7 DEF HostRecords, Buffers
<1>9. HostTyped(n)
  BY <1>8, HostNow DEF HostTyped
<1>10. Phased(n, revision, page)
  <2>1. \A q \in Revisions : n.todo[q] # <<>> => n.jobs[q] = "replay"
    BY <1>1, <1>2, <1>7, <1>8 DEF Phased
  <2>2. QED
    BY <1>1, <1>3, <1>5, <1>8, <2>1 DEF Phased
<1>11. Called(n, out, <<>>, revision)
  BY <1>8, HostNow DEF Called, Range
<1>12. Knows(n, out, Agent)
  <2>1. Orderly(Host.replay.frames \o out, Agent)
    BY HostNow DEF Knows
  <2>2. Orderly(out, Agent) /\ <<>> \o out = out
    BY <1>1, <2>1, HostNow, OrderlyAfter, FramesJoined
  <2>3. QED
    BY <1>5, <1>8, <2>2, HostNow DEF Knows
<1>13. Sees(n, out, Agent, revision)
  <2>1. Follows(Host.view, Coming(Host, out, revision), Host.in, Host.lost, Agent,
                Outgrown(Host, out))
    BY <1>1, <1>2, HostNow DEF Sees, ShowsHistory
  <2>2. Coming(n, out, revision) = t \o out
    <3>1. <<>> \o out = out
      BY HostNow, FramesJoined
    <3>2. QED
      BY <1>1, <1>5, <1>7, <1>8, <3>1 DEF Coming
  <2>3. Coming(Host, out, revision) = t \o out
    <3> DEFINE u == t \o out
    <3>1. u \in Seq(ViewFrames) /\ <<>> \o u = u
      BY <1>4, HostNow, FramesJoined
    <3>2. QED
      BY <1>1, <1>2, <1>4, <3>1 DEF Coming
  <2>4. Outgrown(n, out) = Outgrown(Host, out)
    BY <1>8 DEF Outgrown
  <2>5. QED
    BY <1>8, <2>1, <2>2, <2>3, <2>4 DEF Sees
<1>14. QED
  BY <1>2, <1>8, <1>9, <1>10, <1>11, <1>12, <1>13, HostNow, JobDone DEF Coherent, Job

\* The view is up to date and is told so.
LEMMA RehydratedKeeps ==
  ASSUME ViewInvariant, NEW r \in Revisions, Rehydrated(r)
  PROVE  ViewInvariant'
<1> DEFINE done == [Host.jobs EXCEPT ![r] = "done"]
           finished == Finish(Host.replay, r)
           v == IF r # revision THEN Host.view
                ELSE Posted(Host.view, [type |-> "transport", status |-> "ready"])
           n == [Host EXCEPT !.jobs[r] = "done", !.replay = Finish(@, r),
               !.view = IF r # revision THEN @
                        ELSE Posted(@, [type |-> "transport", status |-> "ready"])]
<1>1. Host \in HostRecords /\ Host.todo \in [Revisions -> Seq(ViewFrames)]
      /\ Placing(Host.view) /\ Phased(Host, revision, page) /\ r # 0
      /\ Host.replay \in Buffers /\ Host.jobs \in [Revisions -> Phases]
      /\ Host.replay.frames \in Seq(ViewFrames)
  BY HostNow, HostFields, BufferFields
<1>2. Job(n) /\ Host.jobs[r] = "replay" /\ Host.todo[r] = <<>> /\ jobs[r] = "replay"
      /\ todo[r] = <<>> /\ ~(r = revision /\ Drained(Host.replay, r) # <<>>)
  BY HostIs DEF Rehydrated, Drains
<1>3. n = [Host EXCEPT !.jobs = done, !.replay = finished, !.view = v]
  BY <1>1 DEF HostRecords
<1>4. CASE r # revision
  <2>1. finished = Host.replay
    BY <1>1, <1>4 DEF Phased, Finish
  <2>2. n = [Host EXCEPT !.jobs = done]
    BY <1>1, <1>3, <1>4, <2>1 DEF HostRecords
  <2>3. n = [Host EXCEPT !.jobs[r] = "done"]
    BY <1>1, <2>2 DEF HostRecords
  <2> HIDE DEF n
  <2>4. QED
    BY <1>2, <1>4, <2>3, StaleEnds
<1>5. CASE r = revision
  <2>1. Host.replay.revision = r /\ page = "ready"
    BY <1>1, <1>2, <1>5 DEF Phased, Rehydrating
  <2>2. Host.replay.frames = <<>>
    BY <1>2, <1>5, <2>1 DEF Drained
  <2>3. finished \in Buffers /\ finished.revision = 0 /\ finished.frames = <<>>
        /\ finished.requests = Host.replay.requests
    <3>1. finished = [Host.replay EXCEPT !.revision = 0, !.frames = <<>>]
      BY <2>1 DEF Finish, Cancel
    <3>2. <<>> \in Seq(ViewFrames) /\ 0 \in 0..MaxRevisions
      BY ViewAssumption
    <3>3. QED
      BY <1>1, <3>1, <3>2 DEF Buffers
  <2>4. done \in [Revisions -> Phases] /\ done[r] = "done"
        /\ \A q \in Revisions : q # r => done[q] = Host.jobs[q]
    BY <1>1 DEF Phases
  <2>5. v = [Host.view EXCEPT !.transport = "ready"]
    BY <1>5, <2>1 DEF Posted, ReceiveHostMessage, ApplyHostFrame
  <2>6. Placing(v) /\ v.messages = Host.view.messages /\ v.live = Host.view.live
        /\ v.streaming = Host.view.streaming /\ v.requests = Host.view.requests
    BY <1>1, <2>5 DEF Placing, ViewsHere, Views
  <2>7. done = [Host.jobs EXCEPT ![r] = "done"]
    OBVIOUS
  <2> HIDE DEF done, finished, v, n
  <2>8. /\ n \in HostRecords /\ n.jobs = done /\ n.todo = Host.todo /\ n.replay = finished
        /\ n.following = Host.following /\ n.active = Host.active /\ n.overflow = Host.overflow
        /\ n.lost = Host.lost /\ n.in = Host.in /\ n.view = v
    BY <1>1, <1>3, <2>3, <2>4, <2>6 DEF HostRecords, Placing, ViewsHere, Buffers
  <2>9. HostTyped(n)
    BY <2>6, <2>8, HostNow DEF HostTyped, Placing
  <2>10. Phased(n, revision, page)
    <3>1. \A q \in Revisions : n.todo[q] # <<>> => n.jobs[q] = "replay"
      BY <1>1, <1>2, <2>4, <2>8 DEF Phased
    <3>2. \A q \in Revisions : q > revision => n.jobs[q] = "none"
      <4>1. \A q \in Revisions : q > revision => q # r
        BY <1>5, HostNow
      <4>2. QED
        BY <1>1, <2>4, <2>8, <4>1 DEF Phased
    <3>3. QED
      BY <1>1, <1>5, <2>1, <2>3, <2>4, <2>8, <3>1, <3>2 DEF Phased, Rehydrating
  <2>11. Called(n, out, <<>>, revision)
    <3>1. Host.in \in Seq(ViewCommands)
      BY HostNow, HostFields
    <3>2. Host.jobs[r] \notin {"state", "page", "messages"}
      BY <1>2
    <3>3. MayAsk(Host, n, r, "done") /\ n.jobs = [Host.jobs EXCEPT ![r] = "done"]
      BY <2>7, <2>8 DEF MayAsk
    <3>4. QED
      BY <1>1, <3>1, <3>2, <3>3, HostNow, CalledJob
  <2>12. Knows(n, out, Agent)
    BY <2>2, <2>3, <2>8, HostNow DEF Knows
  <2>13. Sees(n, out, Agent, revision)
    <3>1. Follows(Host.view, Coming(Host, out, revision), Host.in, Host.lost, Agent,
                  Outgrown(Host, out))
      BY <1>1, <1>2, <1>5, HostNow DEF Sees, ShowsHistory
    <3>2. Coming(n, out, revision) = Coming(Host, out, revision)
          /\ Outgrown(n, out) = Outgrown(Host, out)
      BY <2>2, <2>3, <2>8 DEF Coming, Outgrown
    <3>3. Follows(v, Coming(Host, out, revision), Host.in, Host.lost, Agent,
                  Outgrown(Host, out))
      BY <2>6, <3>1, FollowsSame
    <3>4. QED
      BY <2>8, <3>2, <3>3 DEF Sees
  <2>14. QED
    BY <1>2, <2>8, <2>9, <2>10, <2>11, <2>12, <2>13, HostNow, JobDone DEF Coherent, Job
<1>6. QED
  BY <1>4, <1>5

-----------------------------------------------------------------------------
(* The view comes and goes, and the user answers. *)

\* A step after which the host is h.
LEMMA HostNext ==
  ASSUME NEW h, h = Host', AgentTyped', out' \in Seq(ViewFrames), NEW rest, rest = out',
         NEW e, e = Agent', NEW rev, rev = revision', NEW pg, pg = page',
         HostTyped(h), Phased(h, rev, pg), Called(h, rest, <<>>, rev), Knows(h, rest, e),
         Sees(h, rest, e, rev)
  PROVE  ViewInvariant'
BY DEF ViewInvariant, Coherent

\* A new attachment, or none.
LEMMA TurnedKeeps ==
  ASSUME ViewInvariant, NEW to \in {"none", "loading", "listening"}, Turned(to)
  PROVE  ViewInvariant'
<1> DEFINE h == Host'
           cancelled == Cancel(Host.replay)
           rev == revision + 1
<1>1. Host \in HostRecords /\ Phased(Host, revision, page) /\ Host.replay \in Buffers
      /\ revision \in Nat /\ revision < MaxRevisions /\ MaxRevisions \in Nat
      /\ Host.replay.frames \in Seq(ViewFrames) /\ out \in Seq(ViewFrames) /\ Agent \in Agents
  BY HostNow, HostFields, BufferFields, ViewAssumption DEF Turned
<1>2. rev \in Revisions /\ rev \in 0..MaxRevisions /\ rev # 0 /\ rev > revision
  BY <1>1 DEF Revisions
<1>3. cancelled \in Buffers /\ cancelled.revision = 0 /\ cancelled.frames = <<>>
      /\ cancelled.requests = Host.replay.requests
  <2>1. cancelled = [Host.replay EXCEPT !.revision = 0, !.frames = <<>>]
    BY DEF Cancel
  <2>2. <<>> \in Seq(ViewFrames) /\ 0 \in 0..MaxRevisions
    BY <1>1
  <2>3. QED
    BY <1>1, <2>1, <2>2 DEF Buffers
<1>4. Placing(InitialView) /\ InitialView.transport = "starting"
  <2>1. InitialView \in ViewsHere
    <3>1. <<>> \in Seq(1..MaxMessages)
      OBVIOUS
    <3>2. QED
      BY <3>1 DEF InitialView, ViewsHere, Views
  <2>2. InitialView.live = 0 /\ Len(InitialView.messages) = 0
    BY DEF InitialView
  <2>3. QED
    BY <2>1, <2>2 DEF Placing, InitialView
<1>5. /\ h.jobs = Host.jobs /\ h.todo = Host.todo /\ h.replay = cancelled
      /\ h.following = Host.following /\ h.active = Host.active /\ h.overflow = Host.overflow
      /\ h.lost = {} /\ h.in = Host.in /\ h.view = InitialView
  BY DEF Turned, Host, chatVars
<1>6. out' = out /\ revision' = rev /\ page' = to /\ UNCHANGED agentVars
  BY DEF Turned
<1>7. Agent' = Agent /\ AgentTyped'
  BY <1>6, HostNow DEF Agent, AgentTyped, Working, agentVars
<1>8. h \in HostRecords
  <2>1. Host.following \in BOOLEAN /\ Host.active \in Seq(ViewFrames) /\ Host.overflow \in BOOLEAN
        /\ Host.jobs \in [Revisions -> Phases] /\ Host.todo \in [Revisions -> Seq(ViewFrames)]
        /\ Host.in \in Seq(ViewCommands)
    BY <1>1, HostFields
  <2>2. h = [following |-> Host.following, active |-> Host.active, overflow |-> Host.overflow,
             replay |-> cancelled, view |-> InitialView, jobs |-> Host.jobs,
             todo |-> Host.todo, in |-> Host.in, lost |-> {}]
    BY <1>5 DEF Host
  <2> HIDE DEF h, cancelled
  <2>3. QED
    BY <1>3, <1>4, <2>1, <2>2 DEF HostRecords, Buffers, Placing, ViewsHere
<1> HIDE DEF h, cancelled, rev
<1>9. HostTyped(h)
  BY <1>4, <1>5, <1>8, HostNow DEF HostTyped, Placing
<1>10. Phased(h, rev, to)
  <2>1. Host.jobs[rev] = "none"
    BY <1>1, <1>2 DEF Phased
  <2>2. \A q \in Revisions : q > rev => h.jobs[q] = "none"
    <3>1. \A q \in Revisions : q > rev => q > revision
      BY <1>1, HostNow DEF rev
    <3>2. QED
      BY <1>1, <1>5, <3>1 DEF Phased
  <2>3. \A q \in Revisions : h.todo[q] # <<>> => h.jobs[q] = "replay"
    BY <1>1, <1>5 DEF Phased
  <2>4. QED
    BY <1>2, <1>3, <1>4, <1>5, <2>1, <2>2, <2>3 DEF Phased, Rehydrating
<1>11. Called(h, out, <<>>, rev)
  BY <1>5, HostNow DEF Called, Range
<1>12. Knows(h, out, Agent)
  <2>1. Orderly(Host.replay.frames \o out, Agent)
    BY HostNow DEF Knows
  <2>2. Orderly(out, Agent) /\ <<>> \o out = out
    BY <1>1, <2>1, OrderlyAfter, FramesJoined
  <2>3. QED
    BY <1>3, <1>5, <2>2, HostNow DEF Knows
<1>13. Sees(h, out, Agent, rev)
  BY <1>1, <1>2, <1>5 DEF Sees, ShowsHistory, Phased
<1>14. QED
  <2>1. h = Host' /\ rev = revision' /\ to = page' /\ out = out' /\ Agent = Agent'
    BY <1>6, <1>7 DEF h
  <2>2. out' \in Seq(ViewFrames)
    BY <1>1, <1>6
  <2>3. QED
    BY <1>7, <1>9, <1>10, <1>11, <1>12, <1>13, <2>1, <2>2, HostNext

\* The view's "ready" message: its rehydration begins.
LEMMA ReadyKeeps ==
  ASSUME ViewInvariant, Ready
  PROVE  ViewInvariant'
<1> DEFINE h == Host'
           v == ReceiveHostMessage(view, [type |-> "bootstrap"])
           begun == [Host.jobs EXCEPT ![revision] = "bootstrap"]
<1>1. Host \in HostRecords /\ Phased(Host, revision, page) /\ out \in Seq(ViewFrames)
      /\ Host.jobs \in [Revisions -> Phases] /\ Placing(Host.view)
      /\ page \in {"loading", "listening"}
  BY HostNow, HostFields DEF Ready
<1>2. revision \in Revisions /\ revision # 0 /\ Host.jobs[revision] = "none"
  BY <1>1, HostNow DEF Phased
<1>3. Placing(v) /\ v.transport = Host.view.transport
  <2>1. v = [Host.view EXCEPT !.parity = "pending"]
    BY HostIs DEF ReceiveHostMessage, ApplyHostFrame
  <2>2. QED
    BY <1>1, <2>1 DEF Placing, ViewsHere, Views
<1>4. begun \in [Revisions -> Phases] /\ begun[revision] = "bootstrap"
      /\ \A q \in Revisions : q # revision => begun[q] = Host.jobs[q]
  BY <1>1, <1>2 DEF Phases
<1>5. /\ h.jobs = begun /\ h.todo = Host.todo /\ h.replay = Host.replay
      /\ h.following = Host.following /\ h.active = Host.active /\ h.overflow = Host.overflow
      /\ h.lost = Host.lost /\ h.in = Host.in /\ h.view = v
  BY DEF Ready, Host, chatVars
<1>6. out' = out /\ revision' = revision /\ page' = "ready" /\ UNCHANGED agentVars
  BY DEF Ready
<1>7. Agent' = Agent /\ AgentTyped'
  BY <1>6, HostNow DEF Agent, AgentTyped, Working, agentVars
<1>8. begun = [Host.jobs EXCEPT ![revision] = "bootstrap"]
  OBVIOUS
<1>9. h = [following |-> Host.following, active |-> Host.active, overflow |-> Host.overflow,
           replay |-> Host.replay, view |-> v, jobs |-> begun, todo |-> Host.todo,
           in |-> Host.in, lost |-> Host.lost]
  BY DEF Ready, Host, chatVars
<1> HIDE DEF h, v, begun
<1>10. h \in HostRecords
  BY <1>1, <1>3, <1>4, <1>9, HostFields DEF HostRecords, Placing, ViewsHere, Buffers
<1>11. HostTyped(h)
  BY <1>3, <1>5, <1>10, HostNow DEF HostTyped, Placing
<1>12. Phased(h, revision, "ready")
  <2>1. \A q \in Revisions : q > revision => h.jobs[q] = "none"
    <3>1. \A q \in Revisions : q > revision => q # revision
      BY HostNow
    <3>2. QED
      BY <1>1, <1>4, <1>5, <3>1 DEF Phased
  <2>2. \A q \in Revisions : h.todo[q] # <<>> => h.jobs[q] = "replay"
    BY <1>1, <1>2, <1>4, <1>5 DEF Phased
  <2>3. v.transport # "ready"
    BY <1>1, <1>2, <1>3 DEF Phased
  <2>4. QED
    BY <1>1, <1>2, <1>4, <1>5, <2>1, <2>2, <2>3 DEF Phased, Rehydrating
<1>13. Called(h, out, <<>>, revision)
  <2>1. Host.in \in Seq(ViewCommands)
    BY <1>1, HostFields
  <2>2. /\ MayAsk(Host, h, revision, "bootstrap")
        /\ h.jobs = [Host.jobs EXCEPT ![revision] = "bootstrap"]
    BY <1>5, <1>8 DEF MayAsk
  <2>3. Host.jobs[revision] \notin {"state", "page", "messages"}
    BY <1>2
  <2>4. QED
    BY <1>1, <1>2, <2>1, <2>2, <2>3, HostNow, CalledJob
<1>14. Knows(h, out, Agent)
  BY <1>5, HostNow DEF Knows
<1>15. Sees(h, out, Agent, revision)
  BY <1>4, <1>5 DEF Sees, ShowsHistory
<1>16. QED
  <2>1. h = Host' /\ revision = revision' /\ "ready" = page' /\ out = out' /\ Agent = Agent'
    BY <1>6, <1>7 DEF h
  <2>2. out' \in Seq(ViewFrames)
    BY <1>1, <1>6
  <2>3. QED
    BY <1>7, <1>11, <1>12, <1>13, <1>14, <1>15, <2>1, <2>2, HostNext

\* The user's answer takes the request away, and goes to OMP.
LEMMA RespondKeeps ==
  ASSUME ViewInvariant, NEW r \in Requests, Respond(r)
  PROVE  ViewInvariant'
<1> DEFINE h == Host'
           v == ReceiveHostMessage(view, [type |-> "removeRequest", id |-> r])
           resolved == ResolveUiRequest(Host.replay, r)
           in1 == Append(Host.in, UiResponse(r))
<1>1. Host \in HostRecords /\ Phased(Host, revision, page) /\ out \in Seq(ViewFrames)
      /\ Host.in \in Seq(ViewCommands) /\ Placing(Host.view) /\ Host.replay \in Buffers
      /\ Host.replay.requests \in Seq(AskFrames) /\ UiResponse(r) \in ViewCommands
  BY HostNow, HostFields, BufferFields DEF ViewCommands
<1>2. /\ Placing(v) /\ v.transport = Host.view.transport /\ v.messages = Host.view.messages
      /\ v.live = Host.view.live /\ v.streaming = Host.view.streaming
      /\ v.requests = Host.view.requests \ {r}
  <2>1. v = [Host.view EXCEPT !.requests = Host.view.requests \ {r}]
    BY HostIs DEF ReceiveHostMessage
  <2>2. QED
    BY <1>1, <2>1 DEF Placing, ViewsHere, Views
<1>3. resolved \in Buffers /\ resolved.revision = Host.replay.revision
      /\ resolved.frames = Host.replay.frames
      /\ \A q : Asks(q) \in Range(Host.replay.requests) /\ q # r =>
                  Asks(q) \in Range(resolved.requests)
  <2> DEFINE without == Without(Host.replay.requests, r)
  <2>1. resolved = [Host.replay EXCEPT !.requests = without]
    BY DEF ResolveUiRequest
  <2>2. without \in Seq(AskFrames)
        /\ \A q : Asks(q) \in Range(Host.replay.requests) /\ q # r => Asks(q) \in Range(without)
    BY <1>1, WithoutFacts
  <2> HIDE DEF without, resolved
  <2>3. QED
    BY <1>1, <2>1, <2>2 DEF Buffers
<1>4. in1 \in Seq(ViewCommands) /\ Range(in1) = Range(Host.in) \cup {UiResponse(r)}
  BY <1>1, Appended
<1>5. /\ h.jobs = Host.jobs /\ h.todo = Host.todo /\ h.replay = resolved
      /\ h.following = Host.following /\ h.active = Host.active /\ h.overflow = Host.overflow
      /\ h.lost = Host.lost /\ h.in = in1 /\ h.view = v
  BY DEF Respond, Host, chatVars
<1>6. out' = out /\ revision' = revision /\ page' = page /\ UNCHANGED agentVars
  BY DEF Respond
<1>7. Agent' = Agent /\ AgentTyped'
  BY <1>6, HostNow DEF Agent, AgentTyped, Working, agentVars
<1>8. in1 = Append(Host.in, UiResponse(r))
  OBVIOUS
<1> HIDE DEF h, v, resolved, in1
<1>9. h \in HostRecords
  <2>1. h = [following |-> Host.following, active |-> Host.active, overflow |-> Host.overflow,
             replay |-> resolved, view |-> v, jobs |-> Host.jobs, todo |-> Host.todo,
             in |-> in1, lost |-> Host.lost]
    BY <1>5 DEF Host, h
  <2>2. QED
    BY <1>1, <1>2, <1>3, <1>4, <2>1, HostFields DEF HostRecords, Placing, ViewsHere, Buffers
<1>10. HostTyped(h)
  BY <1>2, <1>5, <1>9, HostNow DEF HostTyped, Placing
<1>11. Phased(h, revision, page)
  BY <1>1, <1>2, <1>3, <1>5 DEF Phased
<1>12. Called(h, out, <<>>, revision)
  <2>1. Called(Host, out, <<>>, revision) /\ Revs(UiResponse(r)) = {}
    BY HostNow, RevsCommand
  <2>2. Apart(in1) /\ RevsOf(in1) = RevsOf(Host.in)
    <3>1. Apart(Host.in) /\ Revs(UiResponse(r)) \cap RevsOf(Host.in) = {}
      BY <2>1 DEF Called
    <3>2. Apart(Append(Host.in, UiResponse(r)))
          /\ RevsOf(Append(Host.in, UiResponse(r))) = RevsOf(Host.in) \cup Revs(UiResponse(r))
      BY <1>1, <3>1, ApartAppend
    <3>3. QED
      BY <1>8, <2>1, <3>2
  <2>3. Waited(Host.jobs, in1)
    BY <1>4, <2>1 DEF Called, Waited
  <2>4. QED
    BY <1>3, <1>5, <2>1, <2>2, <2>3 DEF Called
<1>13. Knows(h, out, Agent)
  BY <1>3, <1>4, <1>5, HostNow DEF Knows
<1>14. Sees(h, out, Agent, revision)
  <2>1. SUFFICES ASSUME ShowsHistory(Host, revision)
                 PROVE  Follows(v, Coming(h, out, revision), in1, Host.lost, Agent,
                                Outgrown(h, out))
    BY <1>5 DEF Sees, ShowsHistory
  <2>2. Coming(h, out, revision) = Coming(Host, out, revision)
        /\ Outgrown(h, out) = Outgrown(Host, out)
    BY <1>3, <1>5 DEF Coming, Outgrown
  <2>3. Follows(Host.view, Coming(Host, out, revision), Host.in, Host.lost, Agent,
                Outgrown(Host, out))
    BY <2>1, HostNow DEF Sees
  <2>4. \A q \in Agent.asked : UiResponse(q) \in Range(Host.in) \/ q \in Host.view.requests =>
                               UiResponse(q) \in Range(in1) \/ q \in v.requests
    BY <1>2, <1>4
  <2>5. QED
    BY <1>2, <2>2, <2>3, <2>4, FollowsSame
<1>15. QED
  <2>1. h = Host' /\ revision = revision' /\ page = page' /\ out = out' /\ Agent = Agent'
    BY <1>6, <1>7 DEF h
  <2>2. out' \in Seq(ViewFrames)
    BY <1>1, <1>6
  <2>3. QED
    BY <1>7, <1>10, <1>11, <1>12, <1>13, <1>14, <2>1, <2>2, HostNext

-----------------------------------------------------------------------------
(* OMP writes. *)

\* What is to come has one frame more.
LEMMA ComingAppend ==
  ASSUME NEW h \in HostRecords, NEW rest \in Seq(ViewFrames), NEW f \in ViewFrames,
         NEW rev \in Revisions
  PROVE  /\ Coming(h, rest, rev) \in Seq(ViewFrames)
         /\ Coming(h, Append(rest, f), rev) = Append(Coming(h, rest, rev), f)
<1> DEFINE t == h.todo[rev]
           fr == h.replay.frames
<1>1. t \in Seq(ViewFrames) /\ fr \in Seq(ViewFrames)
  BY HostFields, BufferFields
<1>2. fr \o rest \in Seq(ViewFrames) /\ fr \o Append(rest, f) = Append(fr \o rest, f)
  <2> HIDE DEF fr
  <2>1. QED
    BY <1>1, FramesJoined
<1>3. t \o (fr \o rest) \in Seq(ViewFrames)
      /\ t \o Append(fr \o rest, f) = Append(t \o (fr \o rest), f)
  <2> DEFINE u == fr \o rest
  <2>1. u \in Seq(ViewFrames)
    BY <1>2
  <2> HIDE DEF t, fr, u
  <2>2. t \o u \in Seq(ViewFrames) /\ t \o Append(u, f) = Append(t \o u, f)
    BY <1>1, <2>1, FramesJoined
  <2>3. QED
    BY <2>2 DEF u
<1>4. QED
  BY <1>2, <1>3 DEF Coming

\* The host does not know of it yet.
LEMMA WrittenKnows ==
  ASSUME NEW h \in Hosts, NEW rest \in Seq(ViewFrames), NEW e, Possible(e), NEW e2, NEW f,
         Tells(e, e2, f), Knows(h, rest, e), NEW n, n.following = h.following,
         n.active = h.active, n.overflow = h.overflow, n.replay = h.replay,
         \A r \in Requests : UiResponse(r) \in Range(h.in) => UiResponse(r) \in Range(n.in)
  PROVE  Knows(n, Append(rest, f), e2)
<1> DEFINE a == h.active
           fr == h.replay.frames
           after == Append(rest, f)
<1>1. a \in Seq(ViewFrames) /\ fr \in Seq(ViewFrames)
  BY HostFields, BufferFields DEF Hosts
<1>2. f \in ViewFrames /\ e2 \in Agents /\ e \in Agents
  BY Telling DEF Possible
<1>3. \A s \in Seq(ViewFrames) : s \o rest \in Seq(ViewFrames)
                                 /\ s \o after = Append(s \o rest, f)
  BY <1>2, FramesJoined
<1>4. \A s \in Seq(ViewFrames) : Orderly(s \o rest, e) => Orderly(s \o after, e2)
  <2>1. SUFFICES ASSUME NEW s \in Seq(ViewFrames), Orderly(s \o rest, e)
                 PROVE  Orderly(s \o after, e2)
    OBVIOUS
  <2> DEFINE u == s \o rest
  <2>2. u \in Seq(ViewFrames) /\ Orderly(u, e)
    BY <1>3, <2>1
  <2> HIDE DEF u
  <2>3. Orderly(Append(u, f), e2)
    BY <2>2, OrderlyAppend
  <2>4. QED
    BY <1>3, <2>3 DEF u
<1>5. Range(after) = Range(rest) \cup {f}
  BY <1>2, Appended
<1>6. /\ Orderly(a \o rest, e) /\ Orderly(fr \o rest, e)
      /\ e.busy => Runs(h.following, rest)
      /\ e.busy /\ h.following /\ ~h.overflow => Runs(FALSE, a \o rest)
      /\ ~h.following => h.active = <<>> /\ ~h.overflow
      /\ \A r \in e.asked : UiResponse(r) \in Range(h.in) \/ Asks(r) \in Range(h.replay.requests)
                              \/ Asks(r) \in Range(rest)
  BY DEF Knows
<1>7. /\ e2.busy => f = AgentStarts \/ (e.busy /\ f \notin Stops)
      /\ \A r \in e2.asked : r \in e.asked \/ f = Asks(r)
  BY Turning
<1>8. e2.busy => Runs(h.following, after)
  <2>1. \A before : (Runs(before, rest) /\ f \notin Stops) \/ f = AgentStarts =>
                     Runs(before, Append(rest, f))
    BY <1>2, RunsAppend
  <2>2. QED
    BY <1>6, <1>7, <2>1
<1>9. e2.busy /\ h.following /\ ~h.overflow => Runs(FALSE, a \o after)
  <2> DEFINE u == a \o rest
  <2>1. u \in Seq(ViewFrames) /\ a \o after = Append(u, f)
    BY <1>1, <1>3
  <2>2. e.busy /\ h.following /\ ~h.overflow => Runs(FALSE, u)
    BY <1>6
  <2> HIDE DEF u, a, after
  <2>3. (Runs(FALSE, u) /\ f \notin Stops) \/ f = AgentStarts => Runs(FALSE, Append(u, f))
    BY <1>2, <2>1, RunsAppend
  <2>4. QED
    BY <1>7, <2>1, <2>2, <2>3
<1>10. Orderly(a \o after, e2) /\ Orderly(fr \o after, e2)
  BY <1>1, <1>4, <1>6
<1>11. \A r \in e2.asked : r \in Requests
  BY <1>2 DEF Agents
<1>12. \A r \in e2.asked : UiResponse(r) \in Range(n.in) \/ Asks(r) \in Range(n.replay.requests)
                             \/ Asks(r) \in Range(after)
  BY <1>5, <1>6, <1>7, <1>11
<1> HIDE DEF after
<1>13. QED
  BY <1>6, <1>8, <1>9, <1>10, <1>12 DEF Knows, after

\* The view will see it.
LEMMA WrittenSees ==
  ASSUME NEW h \in Hosts, NEW rest \in Seq(ViewFrames), NEW e, Possible(e), NEW e2, NEW f,
         Tells(e, e2, f), NEW rev, rev # 0 => rev \in Revisions, Sees(h, rest, e, rev), NEW n,
         n.following = h.following,
         n.overflow = h.overflow, n.replay = h.replay, n.todo = h.todo, n.jobs = h.jobs,
         n.view = h.view, n.lost = h.lost,
         \A r \in Requests : UiResponse(r) \in Range(h.in) => UiResponse(r) \in Range(n.in)
  PROVE  Sees(n, Append(rest, f), e2, rev)
<1> DEFINE after == Append(rest, f)
<1>1. SUFFICES ASSUME ShowsHistory(h, rev)
               PROVE  Follows(h.view, Coming(n, after, rev), n.in, h.lost, e2, Outgrown(n, after))
  BY DEF Sees, ShowsHistory
<1>2. Follows(h.view, Coming(h, rest, rev), h.in, h.lost, e, Outgrown(h, rest))
  BY <1>1 DEF Sees
<1>3. f \in ViewFrames /\ rev \in Revisions /\ h \in HostRecords /\ Placing(h.view)
  BY <1>1, Telling DEF ShowsHistory, Hosts, HostTyped, Placing, HostRecords, ViewsHere
<1>4. /\ Coming(h, rest, rev) \in Seq(ViewFrames)
      /\ Coming(n, after, rev) = Append(Coming(h, rest, rev), f)
  <2>1. Coming(n, after, rev) = Coming(h, after, rev)
    BY DEF Coming
  <2>2. QED
    BY <1>3, <2>1, ComingAppend
<1>5. e2.busy /\ Outgrown(h, rest) => Outgrown(n, after)
  <2>1. e2.busy => f \notin TurnOver
    <3>1. TurnOver \subseteq Stops
      BY DEF Stops
    <3>2. QED
      BY <3>1, Turning, StartNoStop
  <2>2. Range(after) = Range(rest) \cup {f}
    BY <1>3, Appended
  <2>3. QED
    BY <2>1, <2>2 DEF Outgrown
<1> HIDE DEF after
<1>6. QED
  BY <1>2, <1>3, <1>4, <1>5, FollowsAppend

\* OMP writes f, of its own or as an answer.
LEMMA WriteKeeps ==
  ASSUME ViewInvariant, NEW e2, e2 = Agent', NEW f, Tells(Agent, e2, f), AgentTyped',
         out' = Append(out, f), UNCHANGED <<chatVars, replay, paneVars, jobs, todo>>,
         NEW in2 \in Seq(ViewCommands), in2 = in',
         \A r \in Requests : UiResponse(r) \in Range(Host.in) => UiResponse(r) \in Range(in2),
         \A n : n.in = in2 /\ n.jobs = Host.jobs /\ n.replay = Host.replay =>
                  Called(n, Append(out, f), <<>>, revision)
  PROVE  ViewInvariant'
<1> DEFINE n == Host'
           after == Append(out, f)
<1>1. /\ Host \in Hosts /\ Host \in HostRecords /\ out \in Seq(ViewFrames) /\ Possible(Agent)
      /\ HostTyped(Host) /\ Phased(Host, revision, page) /\ Knows(Host, out, Agent)
      /\ Sees(Host, out, Agent, revision)
  BY HostNow
<1>2. /\ n.following = Host.following /\ n.active = Host.active /\ n.overflow = Host.overflow
      /\ n.replay = Host.replay /\ n.todo = Host.todo /\ n.jobs = Host.jobs
      /\ n.view = Host.view /\ n.lost = Host.lost /\ n.in = in2
  BY DEF Host, chatVars, paneVars
<1>3. n \in HostRecords
  <2>1. n = [following |-> Host.following, active |-> Host.active, overflow |-> Host.overflow,
             replay |-> Host.replay, view |-> Host.view, jobs |-> Host.jobs, todo |-> Host.todo,
             in |-> in2, lost |-> Host.lost]
    BY <1>2 DEF Host
  <2> HIDE DEF n
  <2>2. QED
    BY <1>1, <2>1, HostFields DEF HostRecords, ViewsHere, Buffers
<1>4. revision' = revision /\ page' = page
  BY DEF paneVars
<1>5. f \in ViewFrames /\ after \in Seq(ViewFrames)
  <2>1. f \in ViewFrames
    BY <1>1, Telling
  <2>2. QED
    BY <1>1, <2>1
<1> DEFINE e == Agent
<1>6. Possible(e) /\ Tells(e, e2, f) /\ Knows(Host, out, e) /\ Sees(Host, out, e, revision)
  BY <1>1
<1>7. n = Host' /\ after = out'
  OBVIOUS
<1> DEFINE h == Host
<1>8. h \in Hosts /\ h = Host /\ after = Append(out, f)
  BY <1>1
<1> HIDE DEF n, after, e, h
<1>9. HostTyped(n)
  BY <1>1, <1>2, <1>3 DEF HostTyped
<1>10. Phased(n, revision, page)
  BY <1>1, <1>2 DEF Phased
<1>11. Called(n, after, <<>>, revision)
  BY <1>2, <1>8
<1>12. Knows(n, after, e2)
  BY <1>1, <1>2, <1>6, <1>8, WrittenKnows
<1>13. Sees(n, after, e2, revision)
  BY <1>1, <1>2, <1>6, <1>8, HostNow, WrittenSees
<1>14. QED
  BY <1>4, <1>5, <1>7, <1>9, <1>10, <1>11, <1>12, <1>13, HostNext

\* A frame that answers no command concerns no rehydration.
LEMMA CalledSaid ==
  ASSUME NEW h, NEW rest \in Seq(ViewFrames), NEW f \in ViewFrames, f \notin ResponseFrames,
         NEW rev, Called(h, rest, <<>>, rev), NEW n, n.in = h.in, n.jobs = h.jobs,
         n.replay = h.replay, NEW after, after = Append(rest, f)
  PROVE  Called(n, after, <<>>, rev)
<1>1. Revs(f) = {}
  BY RevsFrame
<1>2. Apart(rest)
  BY DEF Called
<1>3. Apart(after) /\ RevsOf(after) = RevsOf(rest)
  <2>1. Revs(f) \cap RevsOf(rest) = {}
    BY <1>1
  <2>2. Apart(Append(rest, f)) /\ RevsOf(Append(rest, f)) = RevsOf(rest) \cup Revs(f)
    BY <1>2, <2>1, ApartAppend
  <2>3. QED
    BY <1>1, <2>2
<1>4. Waited(h.jobs, after)
  <2>1. Range(after) = Range(rest) \cup {f}
    BY Appended
  <2>2. QED
    BY <1>1, <2>1 DEF Called, Waited
<1>5. QED
  BY <1>3, <1>4 DEF Called

\* The answer f takes the place of the first command.
LEMMA CalledRead ==
  ASSUME NEW h, NEW rest \in Seq(ViewFrames), NEW f \in ResponseFrames, f \in ViewFrames,
         h.in \in Seq(ViewCommands), h.in # <<>>, NEW c, c = Head(h.in),
         Revs(f) = Revs(c), Waits(f) = Waits(c),
         NEW rev, Called(h, rest, <<>>, rev), NEW n, n.in = Tail(h.in), n.jobs = h.jobs,
         n.replay = h.replay, NEW after, after = Append(rest, f)
  PROVE  Called(n, after, <<>>, rev)
<1> DEFINE in1 == h.in
           in2 == Tail(h.in)
<1>1. in1 \in Seq(ViewCommands) /\ in1 # <<>> /\ in2 = Tail(in1) /\ Apart(in1) /\ Apart(rest)
      /\ RevsOf(in1) \cap RevsOf(rest) = {} /\ Waited(h.jobs, in1) /\ Waited(h.jobs, rest)
      /\ c = Head(in1) /\ n.in = in2
  BY DEF Called
<1> HIDE DEF in1, in2
<1>2. c = in1[1] /\ Range(in1) = {c} \cup Range(in2)
  BY <1>1, HeadAndTail
<1>3. Apart(in2) /\ RevsOf(in1) = Revs(c) \cup RevsOf(in2) /\ Revs(c) \cap RevsOf(in2) = {}
  BY <1>1, <1>2, ApartTail
<1>4. Apart(after) /\ RevsOf(after) = RevsOf(rest) \cup Revs(c)
  <2>1. Revs(f) \cap RevsOf(rest) = {}
    BY <1>1, <1>3
  <2>2. Apart(Append(rest, f)) /\ RevsOf(Append(rest, f)) = RevsOf(rest) \cup Revs(f)
    BY <1>1, <2>1, ApartAppend
  <2>3. QED
    BY <2>2
<1>5. Waited(h.jobs, in2)
  BY <1>1, <1>2 DEF Waited
<1>6. Waited(h.jobs, after)
  <2>1. Range(after) = Range(rest) \cup {f}
    BY Appended
  <2>2. \A r \in Revs(f) : h.jobs[r] = Waits(f)
    BY <1>1, <1>2 DEF Waited
  <2>3. QED
    BY <1>1, <2>1, <2>2 DEF Waited
<1>7. RevsOf(in2) \cap RevsOf(after) = {}
  BY <1>1, <1>3, <1>4
<1>8. QED
  <2>1. RevsOf(<<>>) = {}
    <3>1. DOMAIN <<>> = {}
      OBVIOUS
    <3>2. QED
      BY <3>1 DEF RevsOf, Range
  <2>2. Apart(<<>>) /\ Waited(h.jobs, <<>>)
    BY DEF Called
  <2>3. \A g \in Range(<<>>) : g \in HistoryFrames /\ g.rev = rev => g \in Range(n.replay.frames)
    BY DEF Called
  <2>4. QED
    BY <1>1, <1>3, <1>4, <1>5, <1>6, <1>7, <2>1, <2>2, <2>3 DEF Called

\* OMP writes a frame of its own.
LEMMA SaysKeeps ==
  ASSUME ViewInvariant, NEW e2, e2 = Agent', NEW f, Tells(Agent, e2, f), AgentTyped',
         f \notin ResponseFrames, Says(f), in' = in
  PROVE  ViewInvariant'
<1>1. out' = Append(out, f) /\ UNCHANGED <<chatVars, replay, paneVars, jobs, todo>>
  BY DEF Says, Writes
<1>2. in' \in Seq(ViewCommands) /\ in' = Host.in
  BY HostNow, HostFields, HostIs
<1>3. \A n : n.in = in' /\ n.jobs = Host.jobs /\ n.replay = Host.replay =>
               Called(n, Append(out, f), <<>>, revision)
  <2>1. f \in ViewFrames
    BY HostNow, Telling
  <2>2. QED
    BY <1>2, <2>1, HostNow, CalledSaid
<1> DEFINE in2 == in'
<1>4. in2 = in' /\ in2 \in Seq(ViewCommands) /\ in2 = Host.in
      /\ \A n : n.in = in2 /\ n.jobs = Host.jobs /\ n.replay = Host.replay =>
                  Called(n, Append(out, f), <<>>, revision)
  BY <1>2, <1>3
<1> HIDE DEF in2
<1>5. \A r \in Requests : UiResponse(r) \in Range(Host.in) => UiResponse(r) \in Range(in2)
  BY <1>4
<1>6. QED
  BY <1>1, <1>4, <1>5, WriteKeeps

\* OMP after a step.
LEMMA AgentNext ==
  ASSUME AgentTyped, NEW e2, e2 = Agent', NEW f, Tells(Agent, e2, f),
         log' = Upto(Len(log')), live' \in {0, Len(log') + 1}, asked' \subseteq made',
         busy' \in BOOLEAN, hushed' \in BOOLEAN,
         said' = said \/ (said < MaxSaid /\ said' = said + 1)
  PROVE  AgentTyped'
<1>1. e2 \in Agents
  BY AgentPossible, Telling
<1>2. said' \in 0..MaxSaid
  <2>1. said \in 0..MaxSaid /\ MaxSaid \in Nat
    BY ViewAssumption DEF AgentTyped
  <2>2. QED
    BY <2>1
<1>3. Agent' \in Agents
  BY <1>1
<1>4. QED
  BY <1>2, <1>3 DEF AgentTyped

\* OMP with one of its fields, or two, changed.
AgentOf(n, m, b, a, all) == [done |-> n, live |-> m, busy |-> b, asked |-> a, made |-> all]

\* A field of it changes.
LEMMA AgentChanges ==
  ASSUME NEW n, NEW m, NEW b \in BOOLEAN, NEW a, NEW all, NEW e, e = AgentOf(n, m, b, a, all)
  PROVE  /\ \A x \in BOOLEAN : [e EXCEPT !.busy = x] = AgentOf(n, m, x, a, all)
         /\ \A x : [e EXCEPT !.live = x] = AgentOf(n, x, b, a, all)
         /\ \A x : [e EXCEPT !.asked = x] = AgentOf(n, m, b, x, all)
         /\ \A x : [e EXCEPT !.done = x] = AgentOf(x, m, b, a, all)
         /\ \A x : [e EXCEPT !.made = x] = AgentOf(n, m, b, a, x)
<1>1. \A x \in BOOLEAN : [e EXCEPT !.busy = x] = AgentOf(n, m, x, a, all)
  BY DEF AgentOf
<1>2. \A x : [e EXCEPT !.live = x] = AgentOf(n, x, b, a, all)
  BY DEF AgentOf
<1>3. \A x : [e EXCEPT !.asked = x] = AgentOf(n, m, b, x, all)
  BY DEF AgentOf
<1>4. \A x : [e EXCEPT !.done = x] = AgentOf(x, m, b, a, all)
  BY DEF AgentOf
<1>5. \A x : [e EXCEPT !.made = x] = AgentOf(n, m, b, a, x)
  BY DEF AgentOf
<1>6. QED
  BY <1>1, <1>2, <1>3, <1>4, <1>5

\* The changes OMP makes of it.
AgentSteps(n, m, b, a, all, e) ==
  /\ \A x \in BOOLEAN : [e EXCEPT !.busy = x] = AgentOf(n, m, x, a, all)
  /\ [e EXCEPT !.live = n + 1] = AgentOf(n, n + 1, b, a, all)
  /\ [e EXCEPT !.live = 0, !.done = n + 1] = AgentOf(n + 1, 0, b, a, all)
  /\ \A r : /\ [e EXCEPT !.asked = a \ {r}] = AgentOf(n, m, b, a \ {r}, all)
            /\ Asked(e, r) = AgentOf(n, m, b, a \cup {r}, all \cup {r})

\* The changes by which OMP's actions take it on.
LEMMA AgentChanged ==
  ASSUME NEW n, NEW m, NEW b \in BOOLEAN, NEW a, NEW all, NEW e, e = AgentOf(n, m, b, a, all)
  PROVE  AgentSteps(n, m, b, a, all, e)
<1>1. [e EXCEPT !.live = 0, !.done = n + 1] = AgentOf(n + 1, 0, b, a, all)
  <2> DEFINE e1 == [e EXCEPT !.live = 0]
  <2>1. e1 = AgentOf(n, 0, b, a, all)
    BY AgentChanges
  <2> HIDE DEF e1
  <2>2. [e1 EXCEPT !.done = n + 1] = AgentOf(n + 1, 0, b, a, all)
    BY <2>1, AgentChanges
  <2>3. QED
    BY <2>2 DEF e1
<1>2. ASSUME NEW r PROVE Asked(e, r) = AgentOf(n, m, b, a \cup {r}, all \cup {r})
  <2> DEFINE y == a \cup {r}
             e1 == [e EXCEPT !.asked = y]
             x == all \cup {r}
  <2>1. e.asked = a /\ e.made = all
    BY DEF AgentOf
  <2>2. Asked(e, r) = [e1 EXCEPT !.made = x]
    BY <2>1 DEF Asked
  <2> HIDE DEF y
  <2>3. e1 = AgentOf(n, m, b, y, all)
    BY AgentChanges
  <2> HIDE DEF e1, x
  <2>4. [e1 EXCEPT !.made = x] = AgentOf(n, m, b, y, x)
    BY <2>3, AgentChanges
  <2>5. QED
    BY <2>2, <2>4 DEF x, y
<1>3. ASSUME NEW r PROVE [e EXCEPT !.asked = a \ {r}] = AgentOf(n, m, b, a \ {r}, all)
  <2> DEFINE y == a \ {r}
  <2> HIDE DEF y
  <2>1. [e EXCEPT !.asked = y] = AgentOf(n, m, b, y, all)
    BY AgentChanges
  <2>2. QED
    BY <2>1 DEF y
<1>4. [e EXCEPT !.live = n + 1] = AgentOf(n, n + 1, b, a, all)
  <2> DEFINE y == n + 1
  <2> HIDE DEF y
  <2>1. [e EXCEPT !.live = y] = AgentOf(n, y, b, a, all)
    BY AgentChanges
  <2>2. QED
    BY <2>1 DEF y
<1>5. \A x \in BOOLEAN : [e EXCEPT !.busy = x] = AgentOf(n, m, x, a, all)
  BY AgentChanges
<1>6. QED
  BY <1>1, <1>2, <1>3, <1>4, <1>5 DEF AgentSteps

\* OMP's variables, as fields of Agent.
LEMMA AgentIs ==
  ASSUME AgentTyped
  PROVE  /\ Agent = AgentOf(Len(log), live, Working, asked, made)
         /\ Agent' = AgentOf(Len(log'), live', Working', asked', made')
         /\ log = Upto(Len(log)) /\ Len(log) \in 0..MaxMessages /\ live \in 0..MaxMessages
         /\ live \in {0, Len(log) + 1} /\ busy \in BOOLEAN /\ hushed \in BOOLEAN
         /\ Working \in BOOLEAN /\ asked \in SUBSET Requests
         /\ made \in SUBSET Requests /\ asked \subseteq made
         /\ Agent.done = Len(log) /\ Agent.live = live /\ Agent.busy = Working
         /\ Agent.asked = asked /\ Agent.made = made /\ MaxMessages \in Nat
BY ViewAssumption DEF AgentTyped, Agent, Agents, AgentOf

\* Its changes, likewise.
LEMMA AgentGoes ==
  ASSUME AgentTyped
  PROVE  /\ [Agent EXCEPT !.busy = TRUE] = AgentOf(Len(log), live, TRUE, asked, made)
         /\ [Agent EXCEPT !.busy = FALSE] = AgentOf(Len(log), live, FALSE, asked, made)
         /\ [Agent EXCEPT !.live = Len(log) + 1]
              = AgentOf(Len(log), Len(log) + 1, Working, asked, made)
         /\ [Agent EXCEPT !.live = 0, !.done = Len(log) + 1]
              = AgentOf(Len(log) + 1, 0, Working, asked, made)
         /\ \A r : /\ [Agent EXCEPT !.asked = asked \ {r}]
                        = AgentOf(Len(log), live, Working, asked \ {r}, made)
                   /\ Asked(Agent, r)
                        = AgentOf(Len(log), live, Working, asked \cup {r}, made \cup {r})
<1> DEFINE n == Len(log)
           m == live
           b == Working
           a == asked
           all == made
           e == Agent
<1>1. b \in BOOLEAN /\ e = AgentOf(n, m, b, a, all)
  BY AgentIs
<1> HIDE DEF n, m, b, a, all, e
<1>2. AgentSteps(n, m, b, a, all, e)
  BY <1>1, AgentChanged
<1>3. [e EXCEPT !.busy = TRUE] = AgentOf(n, m, TRUE, a, all)
      /\ [e EXCEPT !.busy = FALSE] = AgentOf(n, m, FALSE, a, all)
  BY <1>2 DEF AgentSteps
<1>4. QED
  BY <1>2, <1>3 DEF AgentSteps, n, m, b, a, all, e

\* The actions in which OMP writes a frame of its own.
LEMMA TurnKeeps ==
  ASSUME ViewInvariant, TurnBegins \/ TurnEnds \/ LocalCommand \/ TurnGoesOn
  PROVE  ViewInvariant'
<1> DEFINE e2 == Agent'
<1>1. AgentTyped
  BY HostNow
<1>2. PICK f \in {AgentStarts, TurnStarts, AgentEnds, LocalResult} :
        /\ Says(f)
        /\ \/ TurnBegins /\ f = AgentStarts
           \/ (TurnEnds \/ LocalCommand) /\ f \in TurnOver
           \/ TurnGoesOn /\ f = TurnStarts
  BY DEF TurnBegins, TurnEnds, LocalCommand, TurnGoesOn, TurnOver
<1>3. /\ in' = in /\ log' = log /\ live' = live /\ asked' = asked /\ made' = made
      /\ said < MaxSaid /\ said' = said + 1
  BY <1>2 DEF TurnBegins, TurnEnds, LocalCommand, TurnGoesOn, Says
<1>4. /\ TurnBegins => ~Working /\ busy' = TRUE /\ hushed' = FALSE
      /\ TurnEnds => busy' = FALSE /\ hushed' = FALSE
      /\ LocalCommand => busy' = busy /\ hushed' = busy
      /\ TurnGoesOn => busy' = busy /\ hushed' = hushed
  BY DEF TurnBegins, TurnEnds, LocalCommand, TurnGoesOn, Working
<1>5. busy' \in BOOLEAN /\ hushed' \in BOOLEAN
  BY <1>1, <1>2, <1>4, AgentIs
<1>6. e2 = AgentOf(Len(log), live, Working', asked, made)
  BY <1>1, <1>3, AgentIs
<1>7. Tells(Agent, e2, f)
  <2>1. CASE TurnBegins /\ f = AgentStarts
    <3>1. Working' = TRUE /\ ~Agent.busy
      BY <1>1, <1>4, <2>1, AgentIs DEF Working
    <3>2. e2 = [Agent EXCEPT !.busy = TRUE]
      BY <1>1, <1>6, <3>1, AgentGoes
    <3> HIDE DEF e2
    <3>3. QED
      BY <2>1, <3>1, <3>2 DEF Tells
  <2>2. CASE (TurnEnds \/ LocalCommand) /\ f \in TurnOver
    <3>1. Working' = FALSE
      BY <1>1, <1>4, <2>2, AgentIs DEF Working
    <3>2. e2 = [Agent EXCEPT !.busy = FALSE]
      BY <1>1, <1>6, <3>1, AgentGoes
    <3> HIDE DEF e2
    <3>3. QED
      BY <2>2, <3>2 DEF Tells
  <2>3. CASE TurnGoesOn /\ f = TurnStarts
    <3>1. Working' = Working
      BY <1>4, <2>3 DEF Working
    <3>2. e2 = Agent
      BY <1>1, <1>6, <3>1, AgentIs
    <3> HIDE DEF e2
    <3>3. QED
      BY <2>3, <3>2 DEF Tells
  <2>4. QED
    BY <1>2, <2>1, <2>2, <2>3
<1>8. f \notin ResponseFrames
  <2>1. f \in ViewFrames
    BY DEF ViewFrames
  <2>2. f.type # "response"
    BY TurnKinds
  <2>3. QED
    BY <2>1, <2>2, FrameKinds
<1>9. e2 = Agent'
  OBVIOUS
<1> HIDE DEF e2
<1>10. AgentTyped'
  BY <1>1, <1>3, <1>5, <1>7, <1>9, AgentIs, AgentNext
<1>11. QED
  BY <1>2, <1>3, <1>7, <1>8, <1>9, <1>10, SaysKeeps

\* OMP begins or ends a message.
LEMMA MessageKeeps ==
  ASSUME ViewInvariant, MessageBegins \/ MessageEnds
  PROVE  ViewInvariant'
<1> DEFINE e2 == Agent'
           f == IF live = 0 THEN Message(Len(log) + 1, "start") ELSE Message(live, "end")
<1>1. AgentTyped
  BY HostNow
<1>2. Says(f) /\ in' = in /\ busy' = busy /\ hushed' = hushed /\ asked' = asked /\ made' = made
      /\ said < MaxSaid /\ said' = said + 1
  BY DEF MessageBegins, MessageEnds, Says
<1>12. Working' = Working
  BY <1>2 DEF Working
<1>3. \/ /\ live = 0 /\ Len(log) < MaxMessages /\ live' = Len(log) + 1 /\ log' = log
      \/ live # 0 /\ live' = 0 /\ log' = Append(log, live)
  BY DEF MessageBegins, MessageEnds
<1>4. log \in Seq(1..MaxMessages)
  BY <1>1, AgentIs, UptoFacts
<1>5. log' = Upto(Len(log')) /\ live' \in {0, Len(log') + 1}
      /\ Len(log') = IF live = 0 THEN Len(log) ELSE Len(log) + 1
  <2>1. CASE live = 0
    BY <1>1, <1>3, <2>1, AgentIs
  <2>2. CASE live # 0
    <3>1. live = Len(log) + 1 /\ live \in 1..MaxMessages /\ log' = Append(log, live) /\ live' = 0
      BY <1>1, <1>3, <2>2, AgentIs
    <3>2. Len(log') = Len(log) + 1 /\ log' = Upto(Len(log) + 1)
      <4> DEFINE k == Len(log)
      <4>1. k \in Nat /\ log = Upto(k) /\ log \in Seq(Nat) /\ k + 1 \in Nat
        BY <1>1, <1>4, AgentIs, UptoFacts
      <4>2. Len(Append(log, k + 1)) = k + 1 /\ Append(log, k + 1) \in Seq(Nat)
            /\ \A i \in 1..(k + 1) : Append(log, k + 1)[i] = i
        <5>1. \A i \in 1..k : log[i] = i
          BY <4>1, UptoFacts
        <5>2. QED
          BY <4>1, <5>1
      <4>3. Append(log, k + 1) = Upto(k + 1)
        <5>1. Upto(k + 1) \in Seq(Nat) /\ Len(Upto(k + 1)) = k + 1
              /\ \A i \in 1..(k + 1) : Upto(k + 1)[i] = i
          BY <4>1, UptoFacts DEF Upto
        <5>2. QED
          BY <4>2, <5>1, SeqEqual
      <4>4. QED
        BY <3>1, <4>2, <4>3
    <3>3. QED
      BY <2>2, <3>1, <3>2
  <2>3. QED
    BY <2>1, <2>2
<1>6. \/ /\ Agent.live = 0 /\ Agent.done < MaxMessages
         /\ f = Message(Agent.done + 1, "start") /\ e2 = [Agent EXCEPT !.live = Agent.done + 1]
      \/ /\ Agent.live # 0 /\ f = Message(Agent.live, "end")
         /\ e2 = [Agent EXCEPT !.live = 0, !.done = Agent.done + 1]
  <2>1. /\ Agent' = AgentOf(Len(log'), live', Working, asked, made)
        /\ Agent.done = Len(log) /\ Agent.live = live
    BY <1>1, <1>2, <1>12, AgentIs
  <2>2. /\ [Agent EXCEPT !.live = Len(log) + 1]
              = AgentOf(Len(log), Len(log) + 1, Working, asked, made)
        /\ [Agent EXCEPT !.live = 0, !.done = Len(log) + 1]
              = AgentOf(Len(log) + 1, 0, Working, asked, made)
    BY <1>1, AgentGoes
  <2>3. QED
    BY <1>3, <1>5, <2>1, <2>2
<1>7. f \notin ResponseFrames
  <2>1. f \in MessageFrames
    <3>1. live = 0 => Len(log) + 1 \in 1..MaxMessages
      BY <1>1, <1>3, AgentIs
    <3>2. live # 0 => live \in 1..MaxMessages
      BY <1>1, AgentIs
    <3>3. QED
      BY <3>1, <3>2 DEF MessageFrames
  <2>2. f \in ViewFrames
    BY <2>1 DEF ViewFrames
  <2>3. QED
    BY <2>1, <2>2, FrameKinds
<1>8. e2 = Agent'
  OBVIOUS
<1> HIDE DEF e2, f
<1>9. Tells(Agent, e2, f)
  BY <1>6 DEF Tells
<1>10. AgentTyped'
  BY <1>1, <1>2, <1>5, <1>8, <1>9, AgentIs, AgentNext
<1>11. QED
  BY <1>2, <1>7, <1>8, <1>9, <1>10, SaysKeeps

\* OMP makes or cancels a request.
LEMMA RequestKeeps ==
  ASSUME ViewInvariant, NEW r \in Requests, RequestMade(r) \/ RequestCancelled(r)
  PROVE  ViewInvariant'
<1> DEFINE e2 == Agent'
           f == IF r \in made THEN Cancels(r) ELSE Asks(r)
<1>1. AgentTyped
  BY HostNow
<1>2. Says(f) /\ in' = in /\ log' = log /\ live' = live /\ busy' = busy
      /\ hushed' = hushed
      /\ said < MaxSaid /\ said' = said + 1
  BY <1>1, AgentIs DEF RequestMade, RequestCancelled, Says
<1>11. Working' = Working
  BY <1>2 DEF Working
<1>3. \/ r \notin made /\ asked' = asked \cup {r} /\ made' = made \cup {r}
      \/ r \in asked /\ r \in made /\ asked' = asked \ {r} /\ made' = made
  BY <1>1, AgentIs DEF RequestMade, RequestCancelled
<1>4. \/ r \notin Agent.made /\ f = Asks(r) /\ e2 = Asked(Agent, r)
      \/ r \in Agent.asked /\ f = Cancels(r) /\ e2 = [Agent EXCEPT !.asked = Agent.asked \ {r}]
  <2>1. /\ Agent' = AgentOf(Len(log), live, Working, asked', made')
        /\ Agent.asked = asked /\ Agent.made = made
    BY <1>1, <1>2, <1>11, AgentIs
  <2>2. /\ [Agent EXCEPT !.asked = asked \ {r}]
             = AgentOf(Len(log), live, Working, asked \ {r}, made)
        /\ Asked(Agent, r) = AgentOf(Len(log), live, Working, asked \cup {r}, made \cup {r})
    BY <1>1, AgentGoes
  <2>3. QED
    BY <1>3, <2>1, <2>2
<1>5. f \notin ResponseFrames
  <2>1. f \in AskFrames \cup CancelFrames
    BY DEF AskFrames, CancelFrames
  <2>2. f \in ViewFrames
    BY <2>1 DEF ViewFrames
  <2>3. QED
    BY <2>1, <2>2, FrameKinds
<1>6. asked' \subseteq made'
  BY <1>1, <1>3, AgentIs
<1>7. e2 = Agent'
  OBVIOUS
<1> HIDE DEF e2, f
<1>8. Tells(Agent, e2, f)
  BY <1>4 DEF Tells
<1>9. AgentTyped'
  BY <1>1, <1>2, <1>6, <1>7, <1>8, AgentIs, AgentNext
<1>10. QED
  BY <1>2, <1>5, <1>7, <1>8, <1>9, SaysKeeps

\* A request less is open.
Fewer(e, e2) ==
  /\ e2.live = e.live /\ e2.done = e.done /\ e2.made = e.made /\ e2.busy = e.busy
  /\ e2.asked \subseteq e.asked

\* What is orderly and finished stays so.
LEMMA FewerAsked ==
  ASSUME NEW e, NEW e2, Fewer(e, e2)
  PROVE  /\ \A s : Orderly(s, e) => Orderly(s, e2)
         /\ \A v, s, lostOf : Finishes(v, s, lostOf, e) => Finishes(v, s, lostOf, e2)
<1>1. \A s : Orderly(s, e) => Orderly(s, e2)
  BY DEF Fewer, Orderly, Ended, Spoken, Told, Settled
<1>2. \A v, s, lostOf : Finishes(v, s, lostOf, e) => Finishes(v, s, lostOf, e2)
  BY DEF Fewer, Finishes
<1>3. QED
  BY <1>1, <1>2

\* OMP reads a command, and answers it.
LEMMA AnswerKeeps ==
  ASSUME ViewInvariant, NEW c, c = Head(in), in # <<>>, in' = Tail(in), NEW f,
         f \in StatesOf(Agent) \cup Histories(Agent.done) \cup BusyFrames,
         Revs(f) = Revs(c), Waits(f) = Waits(c), Revs(c) # {}, Writes(f), UNCHANGED agentVars
  PROVE  ViewInvariant'
<1> DEFINE e2 == Agent'
           in2 == Tail(Host.in)
<1>1. /\ ViewInvariant /\ AgentTyped /\ Host.in \in Seq(ViewCommands) /\ Host.in = in
      /\ out \in Seq(ViewFrames) /\ Called(Host, out, <<>>, revision)
  BY HostNow, HostFields, HostIs
<1>2. e2 = Agent /\ AgentTyped'
  BY <1>1 DEF Agent, AgentTyped, Working, agentVars
<1>3. f \in ResponseFrames /\ f \in ViewFrames
  <2>1. Agent.done \in 0..MaxMessages /\ Agent.busy \in BOOLEAN
    BY <1>1, AgentIs
  <2>2. f \in ResponseFrames
    BY <1>1, <2>1, AgentPossible, StatesAnswered DEF ResponseFrames, HistoryFrames
  <2>3. QED
    BY <2>2 DEF ViewFrames
<1>4. in2 \in Seq(ViewCommands) /\ in2 = in' /\ Host.in # <<>>
      /\ Range(Host.in) = {c} \cup Range(in2) /\ c \in ViewCommands
  BY <1>1, HeadAndTail
<1>5. \A r \in Requests : UiResponse(r) \in Range(Host.in) => UiResponse(r) \in Range(in2)
  <2>1. \A r : c # UiResponse(r)
    BY RevsCommand
  <2>2. QED
    BY <1>4, <2>1
<1>6. out' = Append(out, f) /\ UNCHANGED <<chatVars, replay, paneVars, jobs, todo>>
  BY DEF Writes
<1>7. e2 = Agent' /\ in2 = Tail(Host.in)
  OBVIOUS
<1> HIDE DEF e2, in2
<1>8. Tells(Agent, e2, f)
  BY <1>2 DEF Tells
<1>9. ASSUME NEW n, n.in = in2, n.jobs = Host.jobs, n.replay = Host.replay
      PROVE  Called(n, Append(out, f), <<>>, revision)
  <2> DEFINE after == Append(out, f)
  <2>1. after = Append(out, f) /\ n.in = Tail(Host.in) /\ c = Head(Host.in)
    BY <1>1, <1>7, <1>9
  <2> HIDE DEF after
  <2>2. Called(n, after, <<>>, revision)
    BY <1>1, <1>3, <1>4, <1>9, <2>1, CalledRead
  <2>3. QED
    BY <2>2 DEF after
<1>10. QED
  BY <1>1, <1>2, <1>4, <1>5, <1>6, <1>7, <1>8, <1>9, WriteKeeps

\* OMP reads the user's answer.
LEMMA SettleKeeps ==
  ASSUME ViewInvariant, NEW r \in Requests, in # <<>>, Head(in) = UiResponse(r), in' = Tail(in),
         asked' = asked \ {r},
         UNCHANGED <<log, live, busy, hushed, made, said, out, chatVars, replay, paneVars, jobs,
                     todo>>
  PROVE  ViewInvariant'
<1> DEFINE h == Host
           n == Host'
           e == Agent
           e2 == Agent'
           in1 == Host.in
           in2 == Tail(Host.in)
<1>1. /\ ViewInvariant /\ AgentTyped /\ in1 \in Seq(ViewCommands) /\ Host.in = in
      /\ out \in Seq(ViewFrames) /\ Called(h, out, <<>>, revision) /\ h \in Hosts
      /\ h \in HostRecords /\ HostTyped(h) /\ Phased(h, revision, page) /\ Knows(h, out, e)
      /\ Sees(h, out, e, revision)
  BY HostNow, HostFields, HostIs
<1>2. /\ Fewer(e, e2) /\ e2.asked = e.asked \ {r} /\ AgentTyped'
  <2>1. e = AgentOf(Len(log), live, Working, asked, made)
        /\ e2 = AgentOf(Len(log), live, Working, asked \ {r}, made)
    <3>1. Working' = Working
      BY DEF Working
    <3>2. QED
      BY <1>1, <3>1, AgentIs
  <2>2. Fewer(e, e2) /\ e2.asked = e.asked \ {r}
    BY <2>1 DEF Fewer, AgentOf
  <2>3. e2 \in Agents
    BY <1>1, <2>1, AgentIs DEF Agents, AgentOf
  <2>4. AgentTyped'
    BY <1>1, <2>3, AgentIs DEF AgentTyped
  <2>5. QED
    BY <2>2, <2>4
<1>3. /\ in2 \in Seq(ViewCommands) /\ in1 # <<>> /\ Range(in1) = {UiResponse(r)} \cup Range(in2)
      /\ in1[1] = UiResponse(r)
  BY <1>1, HeadAndTail
<1>4. /\ n.following = h.following /\ n.active = h.active /\ n.overflow = h.overflow
      /\ n.replay = h.replay /\ n.todo = h.todo /\ n.jobs = h.jobs
      /\ n.view = h.view /\ n.lost = h.lost /\ n.in = in2 /\ h.in = in1
  BY DEF Host, chatVars, paneVars
<1>5. n \in HostRecords
  <2>1. n = [following |-> h.following, active |-> h.active, overflow |-> h.overflow,
             replay |-> h.replay, view |-> h.view, jobs |-> h.jobs, todo |-> h.todo,
             in |-> in2, lost |-> h.lost]
    BY <1>4 DEF Host
  <2> HIDE DEF n, h, in2
  <2>2. QED
    BY <1>1, <1>3, <2>1, HostFields DEF HostRecords, ViewsHere, Buffers
<1>6. revision' = revision /\ page' = page /\ out' = out
  BY DEF paneVars
<1>7. n = Host' /\ e2 = Agent' /\ in2 = Tail(in1)
  OBVIOUS
<1> HIDE DEF n, h, e, e2, in1, in2
<1>8. HostTyped(n)
  BY <1>1, <1>4, <1>5 DEF HostTyped
<1>9. Phased(n, revision, page)
  BY <1>1, <1>4 DEF Phased
<1>10. Called(n, out, <<>>, revision)
  <2>1. Apart(in1)
    BY <1>1, <1>4 DEF Called
  <2>2. Apart(in2) /\ RevsOf(in1) = Revs(in1[1]) \cup RevsOf(in2)
    BY <1>1, <1>3, <1>7, <2>1, ApartTail
  <2>3. RevsOf(in1) = RevsOf(in2)
    BY <1>3, <2>2, RevsCommand
  <2>4. Waited(h.jobs, in2)
    BY <1>1, <1>3, <1>4 DEF Called, Waited
  <2>5. QED
    BY <1>1, <1>4, <2>2, <2>3, <2>4 DEF Called
<1>11. \A q : UiResponse(q) \in Range(in1) /\ q # r => UiResponse(q) \in Range(in2)
  BY <1>3 DEF UiResponse
<1>12. e2.busy = e.busy /\ \A q \in e2.asked : q \in e.asked /\ q # r
  BY <1>2 DEF Fewer
<1>13. Knows(n, out, e2)
  <2>1. Orderly(h.active \o out, e2) /\ Orderly(h.replay.frames \o out, e2)
    BY <1>1, <1>2, FewerAsked DEF Knows
  <2>2. QED
    BY <1>1, <1>4, <1>11, <1>12, <2>1 DEF Knows
<1>14. Sees(n, out, e2, revision)
  <2>1. SUFFICES ASSUME ShowsHistory(h, revision)
                 PROVE  Follows(h.view, Coming(h, out, revision), in2, h.lost, e2,
                                Outgrown(h, out))
    BY <1>4 DEF Sees, ShowsHistory, Coming, Outgrown
  <2> DEFINE s == Coming(h, out, revision)
             cover == Outgrown(h, out)
             v == h.view
             l == h.lost
  <2>2. Follows(v, s, in1, l, e, cover)
    BY <1>1, <1>4, <2>1 DEF Sees
  <2> HIDE DEF s, cover, v, l
  <2>3. Orderly(s, e2) /\ Finishes(v, s, l, e2)
    BY <1>2, <2>2, FewerAsked DEF Follows
  <2>4. Requested(v, s, in2, e2)
    BY <1>11, <1>12, <2>2 DEF Follows, Requested
  <2>5. Follows(v, s, in2, l, e2, cover)
    BY <1>12, <2>2, <2>3, <2>4 DEF Follows
  <2>6. QED
    BY <2>5 DEF s, cover, v, l
<1>15. QED
  <2>1. n = Host' /\ revision = revision' /\ page = page' /\ out = out' /\ e2 = Agent'
    BY <1>6, <1>7
  <2>2. out' \in Seq(ViewFrames)
    BY <1>1, <1>6
  <2>3. QED
    BY <1>2, <1>8, <1>9, <1>10, <1>13, <1>14, <2>1, <2>2, HostNext

\* OMP reads a command.
LEMMA CommandKeeps ==
  ASSUME ViewInvariant, CommandRead
  PROVE  ViewInvariant'
<1> DEFINE c == Head(in)
<1>1. in # <<>> /\ in' = Tail(in) /\ log' = log /\ live' = live /\ busy' = busy /\ made' = made
      /\ hushed' = hushed /\ said' = said
  BY DEF CommandRead
<1>2. in \in Seq(ViewCommands) /\ AgentTyped
  BY HostNow, HostFields, HostIs
<1>3. c \in ViewCommands
  BY <1>1, <1>2, HeadAndTail
<1>4. Agent.busy = Working /\ Agent.done = Len(log) /\ log = Upto(Len(log)) /\ busy \in BOOLEAN
  BY <1>2, AgentIs
<1>5. CASE \E r \in Requests : c = UiResponse(r)
  <2>1. PICK r \in Requests : c = UiResponse(r)
    BY <1>5
  <2>2. c.type = "extension_ui_response" /\ c.id = r
    BY <2>1 DEF UiResponse
  <2>3. asked' = asked \ {r} /\ UNCHANGED <<out, chatVars, replay, paneVars, jobs, todo>>
    BY <2>2 DEF CommandRead
  <2>4. QED
    BY <1>1, <2>1, <2>3, SettleKeeps
<1>6. CASE \E type \in CallKinds, r \in Revisions : c = Command(type, r)
  <2>1. PICK type \in CallKinds, r \in Revisions : c = Command(type, r)
    BY <1>6
  <2>2. c.type = type /\ c.rev = r /\ Revs(c) = {r}
        /\ Waits(c) = IF type = "get_state" THEN "state"
                      ELSE IF type = "get_messages" THEN "messages" ELSE "page"
    BY <2>1, RevsCommand DEF Command
  <2>3. asked' = asked /\ UNCHANGED agentVars
    BY <1>1, <2>1, <2>2 DEF CommandRead, agentVars, CallKinds
  <2> DEFINE f == CASE type = "get_state" -> State(busy, r)
                    [] type = "get_messages" -> Messages(log, r)
                    [] OTHER -> IF busy THEN SessionBusy(r) ELSE MessagesPage(log, r)
  <2>4. Writes(f)
    BY <2>1, <2>2 DEF CommandRead, CallKinds
  <2>5. f \in StatesOf(Agent) \cup Histories(Agent.done) \cup BusyFrames
    BY <1>4 DEF StatesOf, Working, Histories, BusyFrames
  <2>6. Revs(f) = {r} /\ Waits(f) = Waits(c)
    <3>1. /\ f.type = "response" /\ f.rev = r /\ f.command = type
      BY <2>1 DEF CallKinds, State, Messages, SessionBusy, MessagesPage
    <3> HIDE DEF f
    <3>2. Revs(f) = {r} /\ Kind(f) = type
      BY <3>1 DEF Revs, Kind
    <3>3. QED
      BY <2>1, <2>2, <3>2 DEF Waits, CallKinds
  <2>7. c = Head(in) /\ Revs(c) # {}
    BY <2>2
  <2> HIDE DEF f, c
  <2>8. QED
    BY <1>1, <2>2, <2>3, <2>4, <2>5, <2>6, <2>7, AnswerKeeps
<1>7. QED
  BY <1>3, <1>5, <1>6, RevsCommand

-----------------------------------------------------------------------------
(* The invariant and what follows from it. *)

\* At the start nothing is shown and nothing is under way.
LEMMA ViewInitially ==
  ASSUME ViewInit
  PROVE  ViewInvariant
<1>1. <<>> \in Seq(ViewFrames) /\ <<>> \in Seq(AskFrames) /\ <<>> \in Seq(ViewCommands)
      /\ <<>> \in Seq(1..MaxMessages) /\ Len(<<>>) = 0 /\ DOMAIN <<>> = {} /\ <<>> \o <<>> = <<>>
  OBVIOUS
<1>2. Range(<<>>) = {} /\ RevsOf(<<>>) = {}
  <2>1. Range(<<>>) = {}
    BY <1>1 DEF Range
  <2>2. QED
    BY <2>1 DEF RevsOf
<1>3. AgentTyped
  <2>1. Agent = [done |-> 0, live |-> 0, busy |-> FALSE, asked |-> {}, made |-> {}]
    BY <1>1 DEF ViewInit, Agent, Working
  <2>2. Agent \in Agents
    BY <2>1, ViewAssumption DEF Agents
  <2>3. Upto(0) = <<>>
    <3>1. Upto(0) \in Seq(1..MaxMessages) /\ Len(Upto(0)) = 0
      BY UptoFacts, ViewAssumption
    <3>2. QED
      BY <3>1, EmptySeq
  <2>4. busy \in BOOLEAN /\ hushed \in BOOLEAN
    BY DEF ViewInit
  <2>5. QED
    BY <1>1, <2>2, <2>3, <2>4, ViewAssumption DEF AgentTyped, ViewInit
<1>4. /\ Host.following = FALSE /\ Host.active = <<>> /\ Host.overflow = FALSE
      /\ Host.replay = NewReplay /\ Host.view = InitialView /\ Host.jobs = jobs
      /\ Host.todo = todo /\ Host.in = <<>> /\ Host.lost = {}
      /\ \A r \in Revisions : jobs[r] = "none" /\ todo[r] = <<>>
      /\ jobs \in [Revisions -> Phases] /\ todo \in [Revisions -> Seq(ViewFrames)]
  BY <1>1, HostIs DEF ViewInit, Phases
<1>5. NewReplay \in Buffers /\ NewReplay.revision = 0 /\ NewReplay.frames = <<>>
      /\ NewReplay.requests = <<>>
  BY <1>1, ViewAssumption DEF NewReplay, Buffers
<1>6. InitialView \in ViewsHere /\ InitialView.live = 0 /\ InitialView.messages = <<>>
      /\ InitialView.transport = "starting"
  BY <1>1 DEF InitialView, ViewsHere, Views
<1>7. HostTyped(Host)
  <2>1. Host = [following |-> FALSE, active |-> <<>>, overflow |-> FALSE, replay |-> NewReplay,
                view |-> InitialView, jobs |-> jobs, todo |-> todo, in |-> <<>>, lost |-> {}]
    BY <1>4 DEF Host
  <2>2. Host \in HostRecords
    BY <1>1, <1>4, <1>5, <1>6, <2>1 DEF HostRecords, Buffers, ViewsHere
  <2>3. Len(Host.active) <= MaxActive
    BY <1>1, <1>4, ViewAssumption
  <2>4. Host.view.live \in 0..Len(Host.view.messages)
    BY <1>1, <1>4, <1>6
  <2>5. QED
    BY <1>4, <2>2, <2>3, <2>4 DEF HostTyped
<1>8. Phased(Host, revision, page)
  BY <1>4, <1>5, <1>6, ViewAssumption DEF Phased, ViewInit
<1>9. Called(Host, out, <<>>, revision)
  BY <1>1, <1>2, <1>4 DEF Called, Apart, Waited, ViewInit
<1>10. Knows(Host, out, Agent)
  <2>1. Orderly(<<>>, Agent)
    BY <1>1, <1>2 DEF Orderly, InOrder, Ended, Spoken, Told, Settled
  <2>2. ~Agent.busy /\ Agent.asked = {}
    BY DEF ViewInit, Agent, Working
  <2>3. QED
    BY <1>1, <1>4, <1>5, <2>1, <2>2 DEF Knows, ViewInit
<1>11. Sees(Host, out, Agent, revision)
  BY DEF Sees, ShowsHistory, ViewInit
<1>12. QED
  BY <1>1, <1>3, <1>7, <1>8, <1>9, <1>10, <1>11 DEF ViewInvariant, Coherent, ViewInit

\* Every action keeps the invariant.
LEMMA ViewSteps ==
  ASSUME ViewInvariant, [ViewNext]_viewVars
  PROVE  ViewInvariant'
<1>1. CASE UNCHANGED viewVars
  <2>1. UNCHANGED <<agentVars, out, in, chatVars, replay, revision, page, view, lost, jobs, todo>>
    BY <1>1 DEF viewVars, paneVars
  <2>2. Host' = Host /\ Agent' = Agent /\ AgentTyped'
    BY <2>1, HostNow DEF Host, Agent, AgentTyped, Working, agentVars, chatVars
  <2>3. QED
    BY <2>1, <2>2, HostNow, HostNext
<1>2. CASE TurnBegins \/ TurnEnds \/ LocalCommand \/ TurnGoesOn
  BY <1>2, TurnKeeps
<1>3. CASE MessageBegins \/ MessageEnds
  BY <1>3, MessageKeeps
<1>4. ASSUME NEW r \in Requests, RequestMade(r) \/ RequestCancelled(r)
      PROVE  ViewInvariant'
  BY <1>4, RequestKeeps
<1>5. ASSUME NEW r \in Requests, Respond(r)
      PROVE  ViewInvariant'
  BY <1>5, RespondKeeps
<1>6. CASE CommandRead
  BY <1>6, CommandKeeps
<1>7. CASE DataEvent
  BY <1>7, DataKeeps
<1>8. ASSUME NEW r \in Revisions, Rehydrate(r)
      PROVE  ViewInvariant'
  BY <1>8, RehydrateKeeps
<1>9. ASSUME NEW r \in Revisions, ParityPosted(r)
      PROVE  ViewInvariant'
  BY <1>9, ParityKeeps
<1>10. ASSUME NEW r \in Revisions, FramePosted(r)
       PROVE  ViewInvariant'
  BY <1>10, FrameKeeps
<1>11. ASSUME NEW r \in Revisions, DrainRehydration(r)
       PROVE  ViewInvariant'
  BY <1>11, DrainKeeps
<1>12. ASSUME NEW r \in Revisions, Rehydrated(r)
       PROVE  ViewInvariant'
  BY <1>12, RehydratedKeeps
<1>13. CASE AttachWebview
  BY <1>13, TurnedKeeps DEF AttachWebview
<1>14. CASE DetachWebview
  BY <1>14, TurnedKeeps DEF DetachWebview
<1>15. CASE Ready
  BY <1>15, ReadyKeeps
<1>16. QED
  BY <1>1, <1>2, <1>3, <1>4, <1>5, <1>6, <1>7, <1>8, <1>9, <1>10, <1>11, <1>12, <1>13, <1>14,
     <1>15 DEF ViewNext

\* What OMP wrote and the host has not handled, what is captured and what is still to
\* be posted always bring the view up to date (#rehydrateWebview, RpcViewReplayBuffer).
THEOREM ViewCoherence == ViewSpec => []ViewInvariant
<1>1. ViewInit => ViewInvariant
  BY ViewInitially
<1>2. ViewInvariant /\ [ViewNext]_viewVars => ViewInvariant'
  BY ViewSteps
<1>3. QED
  BY <1>1, <1>2, PTL DEF ViewSpec

\* The invariant says the types.
LEMMA ViewTyped ==
  ASSUME ViewInvariant
  PROVE  ViewTypeOK
<1>1. /\ log \in Seq(1..MaxMessages) /\ live \in 0..MaxMessages /\ busy \in BOOLEAN
      /\ hushed \in BOOLEAN /\ asked \subseteq made /\ made \subseteq Requests
      /\ said \in 0..MaxSaid
  <2>1. AgentTyped
    BY HostNow
  <2>2. said \in 0..MaxSaid
    BY <2>1 DEF AgentTyped
  <2>3. QED
    BY <2>1, <2>2, AgentIs, UptoFacts
<1>2. /\ following \in BOOLEAN /\ overflow \in BOOLEAN /\ replay \in Buffers
      /\ view \in ViewsHere /\ jobs \in [Revisions -> Phases] /\ lost \subseteq 1..MaxMessages
  BY HostNow, HostFields, HostIs
<1>3. Len(active) <= MaxActive /\ (overflow => active = <<>>)
      /\ view.live \in 0..Len(view.messages)
  BY HostNow, HostIs DEF HostTyped
<1>4. \A i \in DOMAIN replay.requests : replay.requests[i].id \in Requests
  <2>1. replay.requests \in Seq(AskFrames)
    BY <1>2, BufferFields
  <2>2. \A i \in DOMAIN replay.requests : replay.requests[i] \in AskFrames
    BY <2>1
  <2>3. QED
    BY <2>2, RequestFrame
<1>5. replay.revision \in {0, revision} /\ revision \in 0..MaxRevisions
      /\ page \in {"none", "loading", "listening", "ready"}
      /\ \A r \in Revisions : todo[r] # <<>> => jobs[r] = "replay"
  BY HostNow, HostIs DEF Phased
<1>6. view \in Views(1..MaxMessages, Requests)
  BY <1>2 DEF ViewsHere
<1>7. QED
  BY <1>1, <1>2, <1>3, <1>4, <1>5, <1>6 DEF ViewTypeOK

\* The variables keep their types: what is kept of a turn stays within its limit, and
\* only a rehydration that shows its history has frames to post (#rememberActiveTurnFrame,
\* #rehydrateWebview).
THEOREM ViewTypeSafety == ViewSpec => []ViewTypeOK
BY ViewCoherence, ViewTyped, PTL

\* A view that is up to date has nothing to come.
LEMMA NothingComes ==
  ASSUME ViewInvariant, UpToDate
  PROVE  Follows(view, <<>>, in, lost, Agent, Outgrown(Host, out))
<1>1. view.transport = "ready" /\ out = <<>>
  BY DEF UpToDate, PromptReady
<1>2. revision # 0 /\ revision \in Revisions /\ Host.jobs[revision] = "done"
  BY <1>1, HostNow, HostIs DEF Phased
<1>3. Host.todo[revision] = <<>> /\ Host.replay.frames = <<>>
  BY <1>2, HostNow DEF Phased, Rehydrating
<1>4. Coming(Host, out, revision) = <<>>
  <2>1. <<>> \o <<>> = <<>>
    OBVIOUS
  <2>2. QED
    BY <1>1, <1>3, <2>1 DEF Coming
<1>5. QED
  BY <1>2, <1>4, HostNow, HostIs DEF Sees, ShowsHistory

\* The invariant says what a view that takes prompts shows.
LEMMA ViewShowsWork ==
  ASSUME ViewInvariant
  PROVE  WorkShown
<1>1. SUFFICES ASSUME UpToDate
               PROVE  /\ asked \ {r \in Requests : UiResponse(r) \in Range(in)}
                           \subseteq view.requests
                      /\ Working /\ ~overflow => view.streaming
  BY DEF WorkShown, Working
<1>2. Follows(view, <<>>, in, lost, Agent, Outgrown(Host, out))
  BY <1>1, NothingComes
<1>3. Agent.asked = asked /\ Agent.busy = Working /\ asked \in SUBSET Requests
  BY HostNow, AgentIs
<1>4. Range(<<>>) = {} /\ DOMAIN <<>> = {}
  BY DEF Range
<1>5. asked \ {r \in Requests : UiResponse(r) \in Range(in)} \subseteq view.requests
  BY <1>2, <1>3, <1>4 DEF Follows, Requested
<1>6. ASSUME Working, ~overflow PROVE view.streaming
  <2>1. ~Outgrown(Host, out)
    BY <1>6, HostIs DEF Outgrown
  <2>2. Runs(view.streaming, <<>>)
    BY <1>2, <1>3, <1>6, <2>1 DEF Follows
  <2>3. QED
    BY <1>4, <2>2 DEF Runs
<1>7. QED
  BY <1>5, <1>6

\* A view that takes prompts shows every request that is open and, unless the turn has
\* outgrown what is kept of it or a prompt_result without an agent fell into it, that
\* a turn runs (pendingUiRequests, #rememberActiveTurnFrame, #receiveRpcFrame).
THEOREM ViewWorkShown == ViewSpec => []WorkShown
BY ViewCoherence, ViewShowsWork, PTL

-----------------------------------------------------------------------------
(* What the view shows is complete. *)

\* g is what there is of t, after each member, without those that came before.
Sifts(g, t) ==
  /\ g[0] = <<>>
  /\ \A i \in 1..Len(t) :
       g[i] = IF t[i] \in Range(g[i - 1]) THEN g[i - 1] ELSE Append(g[i - 1], t[i])
  /\ Once(t) = g[Len(t)]

\* There are such values.
LEMMA OnceTrace ==
  ASSUME NEW T, NEW t \in Seq(T)
  PROVE  \E g : Sifts(g, t)
<1> DEFINE n == Len(t)
           A == Seq(T)
           Step(kept, x) == IF x \in Range(kept) THEN kept ELSE Append(kept, x)
           step == [i \in 1..n |-> [kept \in A |-> Step(kept, t[i])]]
           Body(it) == [s \in SUBSET DOMAIN t |->
                          IF s = {} THEN <<>> ELSE Step(it[s \ {Max(s)}], t[Max(s)])]
           iter == CHOOSE it : it = Body(it)
<1>1. n \in Nat /\ DOMAIN t = 1..n /\ \A i \in 1..n : t[i] \in T
  OBVIOUS
<1>2. Once(t) = iter[DOMAIN t]
  BY DEF Once, FoldLeft, MapThenFoldSet
<1>3. iter = Body(iter)
  <2>1. step \in [1..n -> [A -> A]]
    <3>1. \A i \in 1..n, kept \in A : Step(kept, t[i]) \in A
      BY <1>1
    <3> HIDE DEF Step, A
    <3>2. QED
      BY <3>1
  <2>2. PICK it \in [SUBSET (1..n) -> A] : Iterates(it, n, <<>>, step)
    <3>1. <<>> \in A
      OBVIOUS
    <3> HIDE DEF step, A, n
    <3>2. QED
      BY <1>1, <2>1, <3>1, IterExists
  <2>3. it = Body(it)
    <3>1. ASSUME NEW s \in SUBSET (1..n), s # {}
          PROVE  Max(s) \in 1..n
      BY <1>1, <3>1, MaxIn
    <3>2. \A s \in SUBSET (1..n) : s # {} =>
            step[Max(s)][it[s \ {Max(s)}]] = Step(it[s \ {Max(s)}], t[Max(s)])
      <4>1. \A s \in SUBSET (1..n) : it[s \ {Max(s)}] \in A
        BY <2>2
      <4> HIDE DEF Step, A
      <4>2. QED
        BY <3>1, <4>1
    <3> HIDE DEF step, Step, A
    <3>3. QED
      BY <1>1, <2>2, <3>2 DEF Iterates
  <2> HIDE DEF Body
  <2>4. QED
    BY <2>3, Zenon
<1>4. iter[{}] = <<>> /\ \A i \in 1..n : iter[1..i] = Step(iter[1..(i - 1)], t[i])
  <2> HIDE DEF iter, Step
  <2>1. \A s \in SUBSET (1..n) :
          iter[s] = IF s = {} THEN <<>> ELSE Step(iter[s \ {Max(s)}], t[Max(s)])
    BY <1>1, <1>3
  <2> HIDE DEF n
  <2>2. QED
    BY <1>1, <2>1, Initial
<1> DEFINE g == [i \in 0..n |-> iter[1..i]]
<1>5. QED
  <2> HIDE DEF iter, n
  <2>1. g[0] = <<>>
    BY <1>1, <1>4
  <2>2. \A i \in 1..n : g[i] = Step(g[i - 1], t[i])
    BY <1>1, <1>4
  <2>3. Once(t) = g[n]
    BY <1>1, <1>2
  <2> HIDE DEF g
  <2>4. Sifts(g, t)
    BY <2>1, <2>2, <2>3 DEF Sifts, n
  <2>5. QED
    BY <2>4

\* k has the first i members of t once; what is smaller than one of them, and not in l,
\* comes before it.
SiftOf(k, t, i, l) ==
  /\ \A x : x \in Range(k) <=> \E j \in 1..i : t[j] = x
  /\ \A a, b \in DOMAIN k : k[a] = k[b] => a = b
  /\ \A a \in DOMAIN k : \A m \in (1..(k[a] - 1)) \ l : \E b \in DOMAIN k : b < a /\ k[b] = m

\* Every number is left, and after the ones below it.
LEMMA OnceFacts ==
  ASSUME NEW t \in Seq(1..MaxMessages), NEW l,
         \A q \in DOMAIN t : \A m \in (1..(t[q] - 1)) \ l : \E p \in 1..(q - 1) : t[p] = m
  PROVE  Once(t) \in Seq(1..MaxMessages) /\ SiftOf(Once(t), t, Len(t), l)
<1> DEFINE T == 1..MaxMessages
           n == Len(t)
<1>1. PICK g : /\ g[0] = <<>>
               /\ \A i \in 1..n :
                    g[i] = IF t[i] \in Range(g[i - 1]) THEN g[i - 1] ELSE Append(g[i - 1], t[i])
               /\ Once(t) = g[n]
  <2>1. PICK g : Sifts(g, t)
    BY OnceTrace
  <2>2. QED
    BY <2>1 DEF Sifts
<1>2. n \in Nat /\ DOMAIN t = 1..n /\ t \in Seq(T) /\ \A i \in 1..n : t[i] \in T
  <2> HIDE DEF T
  <2>1. t \in Seq(T)
    BY DEF T
  <2>2. QED
    BY <2>1
<1>3. \A i \in 1..n : \A m \in (1..(t[i] - 1)) \ l : \E p \in 1..(i - 1) : t[p] = m
  BY <1>2
<1> HIDE DEF n, T
<1> DEFINE U == [i \in 0..n |-> {k \in Seq(T) : SiftOf(k, t, i, l)}]
<1>4. g[0] \in U[0]
  <2>1. Range(<<>>) = {} /\ DOMAIN <<>> = {} /\ <<>> \in Seq(T) /\ 1..0 = {}
    BY DEF Range
  <2>2. SiftOf(<<>>, t, 0, l)
    BY <2>1 DEF SiftOf
  <2>3. QED
    BY <1>1, <1>2, <2>1, <2>2
<1>5. ASSUME NEW i \in 1..n, g[i - 1] \in U[i - 1] PROVE g[i] \in U[i]
  <2> DEFINE k == g[i - 1]
             x == t[i]
             new == Append(k, x)
  <2>1. i \in 0..n /\ i - 1 \in 0..n /\ x \in T
    BY <1>2
  <2>2. k \in Seq(T) /\ SiftOf(k, t, i - 1, l)
    BY <1>5, <2>1
  <2>3. (\A j \in 1..i : j = i \/ j \in 1..(i - 1)) /\ i \in 1..i
        /\ (\A j \in 1..(i - 1) : j \in 1..i /\ j < i)
    BY <1>2
  <2>4. \A y : (\E j \in 1..i : t[j] = y) <=> y = x \/ \E j \in 1..(i - 1) : t[j] = y
    BY <2>3
  <2>5. \A y : y \in Range(k) <=> \E j \in 1..(i - 1) : t[j] = y
    BY <2>2 DEF SiftOf
  <2>6. CASE x \in Range(k)
    <3>1. g[i] = k
      BY <1>1, <2>6
    <3> HIDE DEF k, x
    <3>2. SiftOf(k, t, i, l)
      BY <2>2, <2>4, <2>5, <2>6 DEF SiftOf
    <3>3. QED
      BY <2>1, <2>2, <3>1, <3>2
  <2>7. CASE x \notin Range(k)
    <3>1. g[i] = new
      BY <1>1, <2>7
    <3>2. \A m \in (1..(x - 1)) \ l : \E p \in 1..(i - 1) : t[p] = m
      BY <1>3
    <3> HIDE DEF k, x
    <3>3. /\ new \in Seq(T) /\ Len(k) \in Nat /\ DOMAIN k = 1..Len(k)
          /\ DOMAIN new = 1..(Len(k) + 1) /\ new[Len(k) + 1] = x
          /\ \A a \in 1..Len(k) : new[a] = k[a]
          /\ Range(new) = Range(k) \cup {x}
      BY <2>1, <2>2, Appended
    <3> HIDE DEF new
    <3>4. \A y : y \in Range(new) <=> \E j \in 1..i : t[j] = y
      BY <2>4, <2>5, <3>3
    <3>5. \A a \in 1..(Len(k) + 1) : a = Len(k) + 1 \/ (a \in 1..Len(k) /\ a < Len(k) + 1)
      BY <3>3
    <3>6. \A a \in 1..Len(k) : k[a] # x /\ a \in 1..(Len(k) + 1)
      BY <2>7, <3>3 DEF Range
    <3>7. \A a, b \in DOMAIN new : new[a] = new[b] => a = b
      <4>1. \A a, b \in 1..Len(k) : k[a] = k[b] => a = b
        BY <2>2, <3>3 DEF SiftOf
      <4>2. QED
        BY <3>3, <3>5, <3>6, <4>1
    <3>8. ASSUME NEW a \in DOMAIN new, NEW m \in (1..(new[a] - 1)) \ l
          PROVE  \E b \in DOMAIN new : b < a /\ new[b] = m
      <4>1. CASE a = Len(k) + 1
        <5>1. m \in (1..(x - 1)) \ l
          BY <3>3, <4>1
        <5>2. m \in Range(k)
          BY <2>5, <3>2, <5>1
        <5>3. PICK b \in 1..Len(k) : k[b] = m
          BY <3>3, <5>2 DEF Range
        <5>4. new[b] = m /\ b \in DOMAIN new /\ b < a
          BY <3>3, <3>6, <4>1, <5>3
        <5>5. QED
          BY <5>4
      <4>2. CASE a \in 1..Len(k)
        <5>1. m \in (1..(k[a] - 1)) \ l
          BY <3>3, <4>2
        <5>2. PICK b \in DOMAIN k : b < a /\ k[b] = m
          BY <2>2, <3>3, <4>2, <5>1 DEF SiftOf
        <5>3. new[b] = m /\ b \in DOMAIN new
          BY <3>3, <3>6, <5>2
        <5>4. QED
          BY <5>2, <5>3
      <4>3. QED
        BY <3>3, <3>5, <4>1, <4>2
    <3>9. SiftOf(new, t, i, l)
      BY <3>4, <3>7, <3>8 DEF SiftOf
    <3>10. QED
      BY <2>1, <3>1, <3>3, <3>9
  <2>8. QED
    BY <2>6, <2>7
<1>6. g[n] \in U[n]
  <2>1. n \in 0..n
    BY <1>2
  <2> HIDE DEF U
  <2>2. QED
    BY <1>2, <1>4, <1>5, <2>1, Along
<1>7. QED
  BY <1>1, <1>2, <1>6 DEF n, T

\* A sequence of numbers grows.
Grows(a) == \A i, j \in DOMAIN a : i < j => a[i] < a[j]
\* A sequence that grows has no room for fewer of the numbers of another.
LEMMA NoRoom ==
  ASSUME NEW a \in Seq(Nat), NEW b \in Seq(Nat), Grows(a), Grows(b), Range(a) \subseteq Range(b),
         NEW i \in DOMAIN a, \A j \in 1..(i - 1) : j \in DOMAIN b /\ a[j] = b[j]
  PROVE  i \in DOMAIN b /\ b[i] <= a[i]
<1>1. /\ Len(a) \in Nat /\ Len(b) \in Nat /\ DOMAIN a = 1..Len(a) /\ DOMAIN b = 1..Len(b)
      /\ (\A j \in 1..Len(a) : a[j] \in Nat) /\ \A j \in 1..Len(b) : b[j] \in Nat
  OBVIOUS
<1>2. PICK j \in 1..Len(b) : b[j] = a[i]
  BY <1>1 DEF Range
<1>3. ~(j < i)
  <2>1. SUFFICES ASSUME j < i PROVE FALSE
    OBVIOUS
  <2>2. j \in 1..(i - 1) /\ j \in DOMAIN a
    BY <1>1, <2>1
  <2>3. a[j] < a[i] /\ a[j] = b[j]
    BY <2>1, <2>2 DEF Grows
  <2>4. a[i] \in Nat
    BY <1>1
  <2>5. QED
    BY <1>2, <2>3, <2>4
<1>4. i \in 1..Len(b)
  BY <1>1, <1>3
<1>5. b[i] <= b[j]
  <2>1. i < j => b[i] < b[j]
    BY <1>1, <1>4 DEF Grows
  <2>2. QED
    BY <1>1, <1>3, <1>4, <2>1
<1>6. QED
  BY <1>1, <1>2, <1>4, <1>5

\* Two sequences that grow are the same if the same numbers are in them.
LEMMA GrowsAlike ==
  ASSUME NEW a \in Seq(Nat), NEW b \in Seq(Nat), Grows(a), Grows(b), Range(a) = Range(b)
  PROVE  a = b
<1> DEFINE Alike(i) == i \in DOMAIN a /\ i \in DOMAIN b /\ a[i] = b[i]
           T == {i \in DOMAIN a \cup DOMAIN b : ~Alike(i)}
<1>1. /\ Len(a) \in Nat /\ Len(b) \in Nat /\ DOMAIN a = 1..Len(a) /\ DOMAIN b = 1..Len(b)
      /\ (\A j \in 1..Len(a) : a[j] \in Nat) /\ \A j \in 1..Len(b) : b[j] \in Nat
  OBVIOUS
<1>2. T = {}
  <2>1. SUFFICES ASSUME T # {} PROVE FALSE
    OBVIOUS
  <2>2. T \in SUBSET Nat
    BY <1>1
  <2>3. PICK i \in T : \A j \in T : i <= j
    BY <2>1, <2>2, Least
  <2>4. i \in Nat /\ i >= 1 /\ (i \in DOMAIN a \/ i \in DOMAIN b)
    BY <1>1
  <2>5. \A j \in 1..(i - 1) : Alike(j)
    <3>1. SUFFICES ASSUME NEW j \in 1..(i - 1) PROVE Alike(j)
      OBVIOUS
    <3>2. j < i /\ j \in DOMAIN a \cup DOMAIN b
      BY <1>1, <2>4
    <3>3. j \notin T
      BY <2>2, <2>3, <2>4, <3>2
    <3>4. QED
      BY <3>2, <3>3
  <2>6. i \in DOMAIN a => i \in DOMAIN b /\ b[i] <= a[i]
    BY <2>5, NoRoom
  <2>7. i \in DOMAIN b => i \in DOMAIN a /\ a[i] <= b[i]
    BY <2>5, NoRoom
  <2>8. Alike(i)
    BY <1>1, <2>4, <2>6, <2>7
  <2>9. QED
    BY <2>3, <2>8
<1>3. \A i \in DOMAIN a \cup DOMAIN b : Alike(i)
  BY <1>2
<1>4. Len(a) = Len(b)
  <2>1. Len(a) >= 1 => Len(a) \in 1..Len(b)
    <3>1. Len(a) >= 1 => Len(a) \in DOMAIN a
      BY <1>1
    <3>2. Len(a) \in DOMAIN a => Len(a) \in DOMAIN b
      BY <1>3
    <3>3. QED
      BY <1>1, <3>1, <3>2
  <2>2. Len(b) >= 1 => Len(b) \in 1..Len(a)
    <3>1. Len(b) >= 1 => Len(b) \in DOMAIN b
      BY <1>1
    <3>2. Len(b) \in DOMAIN b => Len(b) \in DOMAIN a
      BY <1>3
    <3>3. QED
      BY <1>1, <3>1, <3>2
  <2> DEFINE m == Len(a)
             n == Len(b)
  <2>3. m \in Nat /\ n \in Nat /\ (m >= 1 => m \in 1..n) /\ (n >= 1 => n \in 1..m)
    BY <1>1, <2>1, <2>2
  <2> HIDE DEF m, n
  <2>4. m = n
    BY <2>3
  <2>5. QED
    BY <2>4 DEF m, n
<1>5. QED
  BY <1>1, <1>3, <1>4, SeqEqual

\* Of sequences without repetitions in which what is smaller comes before, those outside l
\* grow.
LEMMA OnlyGrows ==
  ASSUME NEW k \in Seq(1..MaxMessages), NEW l,
         \A a, b \in DOMAIN k : k[a] = k[b] => a = b,
         \A a \in DOMAIN k : \A m \in (1..(k[a] - 1)) \ l : \E b \in DOMAIN k : b < a /\ k[b] = m,
         NEW S, S \cap l = {}
  PROVE  Only(k, S) \in Seq(Nat) /\ Grows(Only(k, S)) /\ Range(Only(k, S)) = Range(k) \cap S
<1> DEFINE o == Only(k, S)
<1>1. o \in Seq(1..MaxMessages) /\ Range(o) = Range(k) \cap S /\ KeepsOf(o, k, Len(k), S)
  BY OnlyFacts
<1>2. /\ Len(k) \in Nat /\ DOMAIN k = 1..Len(k) /\ \A a \in DOMAIN k : k[a] \in 1..MaxMessages
  BY Numbered
<1> HIDE DEF o
<1>3. /\ Len(o) \in Nat /\ DOMAIN o = 1..Len(o) /\ \A a \in DOMAIN o : o[a] \in 1..MaxMessages
      /\ o \in Seq(Nat)
  <2>1. /\ Len(o) \in Nat /\ DOMAIN o = 1..Len(o) /\ \A a \in DOMAIN o : o[a] \in 1..MaxMessages
    BY <1>1, Numbered
  <2>2. o \in Seq(Nat)
    <3>1. 1..MaxMessages \subseteq Nat
      OBVIOUS
    <3>2. Seq(1..MaxMessages) \subseteq Seq(Nat)
      BY <3>1, SeqMonotonic, Zenon
    <3>3. QED
      BY <1>1, <3>2
  <2>3. QED
    BY <2>1, <2>2
<1>4. PICK place : /\ \A a \in DOMAIN o : place[a] \in 1..Len(k) /\ o[a] = k[place[a]]
                   /\ \A a, b \in DOMAIN o : a < b => place[a] < place[b]
  BY <1>1 DEF KeepsOf
<1>5. ASSUME NEW a \in DOMAIN o, NEW b \in DOMAIN o, a < b PROVE o[a] < o[b]
  <2> DEFINE p == place[a]
             q == place[b]
  <2>1. p \in DOMAIN k /\ q \in DOMAIN k /\ p < q /\ o[a] = k[p] /\ o[b] = k[q]
    BY <1>2, <1>4, <1>5
  <2>2. o[b] \in Range(o)
    BY DEF Range
  <2>3. k[q] \notin l
    BY <1>1, <2>1, <2>2
  <2> HIDE DEF p, q
  <2>4. k[p] # k[q] /\ p \in Nat /\ q \in Nat /\ k[p] \in Nat /\ k[q] \in Nat /\ k[q] >= 1
    BY <1>2, <2>1
  <2>5. ~(k[q] < k[p])
    <3>1. SUFFICES ASSUME k[q] < k[p] PROVE FALSE
      OBVIOUS
    <3>2. k[q] \in (1..(k[p] - 1)) \ l
      BY <2>3, <2>4, <3>1
    <3>3. PICK c \in DOMAIN k : c < p /\ k[c] = k[q]
      BY <2>1, <3>2
    <3>4. c = q
      BY <2>1, <3>3
    <3>5. QED
      BY <2>1, <2>4, <3>3, <3>4
  <2>6. QED
    BY <2>1, <2>4, <2>5
<1>6. QED
  BY <1>1, <1>3, <1>5 DEF Grows, o

\* What the view shows, without what no post brings, is what OMP has finished.
LEMMA ViewShowsTranscript ==
  ASSUME ViewInvariant
  PROVE  TranscriptComplete
<1> DEFINE S == (1..MaxMessages) \ (lost \cup {live})
           shown == view.messages
           once == Once(shown)
           done == Len(log)
<1>1. SUFFICES ASSUME UpToDate PROVE Only(once, S) = Only(log, S)
  BY DEF TranscriptComplete
<1>2. Finishes(view, <<>>, lost, Agent)
  BY <1>1, NothingComes DEF Follows
<1>3. AgentTyped /\ Agent.done = done /\ Agent.live = live /\ log = Upto(done)
      /\ done \in 0..MaxMessages /\ MaxMessages \in Nat
  BY HostNow, AgentIs
<1>4. shown \in Seq(1..MaxMessages) /\ Len(shown) \in Nat /\ DOMAIN shown = 1..Len(shown)
      /\ \A q \in DOMAIN shown : shown[q] \in 1..MaxMessages
  BY HostNow, HostIs, ViewFields, Numbered DEF Placing
<1>5. /\ \A m \in (1..done) \ lost : m \in Range(shown)
      /\ \A q \in DOMAIN shown : \A m \in (1..(shown[q] - 1)) \ lost :
           \E p \in 1..(q - 1) : shown[p] = m
      /\ \A q \in DOMAIN shown : shown[q] <= done \/ shown[q] = live
  <2>1. Range(<<>>) = {}
    BY DEF Range
  <2>2. QED
    BY <1>2, <1>3, <2>1 DEF Finishes
<1>6. S \cap lost = {} /\ S \subseteq 1..MaxMessages /\ live \notin S
  OBVIOUS
<1> HIDE DEF shown, done
<1>7. once \in Seq(1..MaxMessages) /\ SiftOf(once, shown, Len(shown), lost)
  BY <1>4, <1>5, OnceFacts
<1> HIDE DEF once, S
<1>8. /\ Only(once, S) \in Seq(Nat) /\ Grows(Only(once, S))
      /\ Range(Only(once, S)) = Range(once) \cap S
  BY <1>6, <1>7, OnlyGrows DEF SiftOf
<1>9. Only(log, S) \in Seq(Nat) /\ Grows(Only(log, S)) /\ Range(Only(log, S)) = (1..done) \cap S
  <2>1. done \in Nat
    BY <1>3
  <2>2. log \in Seq(1..MaxMessages) /\ DOMAIN log = 1..done /\ Range(log) = 1..done
        /\ \A i \in 1..done : log[i] = i
    BY <1>3, <2>1, UptoFacts
  <2>3. \A a, b \in DOMAIN log : log[a] = log[b] => a = b
    BY <2>2
  <2>4. ASSUME NEW a \in DOMAIN log, NEW m \in (1..(log[a] - 1)) \ lost
        PROVE  \E b \in DOMAIN log : b < a /\ log[b] = m
    <3>1. m \in 1..done /\ m < a
      BY <2>1, <2>2
    <3>2. QED
      BY <2>2, <3>1
  <2>5. Only(log, S) \in Seq(Nat) /\ Grows(Only(log, S)) /\ Range(Only(log, S)) = Range(log) \cap S
    BY <1>6, <2>2, <2>3, <2>4, OnlyGrows
  <2>6. QED
    BY <2>2, <2>5
<1>10. Range(once) \cap S = (1..done) \cap S
  <2>1. \A x : x \in Range(once) <=> x \in Range(shown)
    <3>1. \A x : x \in Range(shown) <=> \E j \in 1..Len(shown) : shown[j] = x
      BY <1>4 DEF Range
    <3>2. QED
      BY <1>7, <3>1 DEF SiftOf
  <2>2. ASSUME NEW x \in S, x \in Range(shown) PROVE x \in 1..done
    <3>1. PICK q \in DOMAIN shown : shown[q] = x
      BY <2>2 DEF Range
    <3>2. x <= done /\ x \in 1..MaxMessages
      BY <1>4, <1>5, <1>6, <2>2, <3>1
    <3>3. QED
      BY <1>3, <3>2
  <2>3. ASSUME NEW x \in S, x \in 1..done PROVE x \in Range(shown)
    BY <1>5, <1>6, <2>3
  <2>4. QED
    BY <2>1, <2>2, <2>3
<1> DEFINE a == Only(once, S)
           b == Only(log, S)
<1>11. a \in Seq(Nat) /\ b \in Seq(Nat) /\ Grows(a) /\ Grows(b) /\ Range(a) = Range(b)
  BY <1>8, <1>9, <1>10
<1> HIDE DEF a, b
<1>12. a = b
  BY <1>11, GrowsAlike
<1>13. QED
  BY <1>12 DEF a, b

\* A view that takes prompts shows every message OMP has finished, in order, but for those
\* whose end came in one piece with the history (#rehydrateWebview, resetAtHistoryBoundary).
THEOREM ViewTranscriptComplete == ViewSpec => []TranscriptComplete
BY ViewCoherence, ViewShowsTranscript, PTL
=============================================================================
