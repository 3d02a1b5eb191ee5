------------------------ MODULE EphemeralWorktreeProofs ------------------------
(***************************************************************************)
(* Proofs about the worktree of a chat, for any number of prompts, of      *)
(* other windows, of restarts and of faults.                               *)
(*                                                                         *)
(* The argument: a cleanup script runs only under the lease (LeaseHeld),   *)
(* and removes a worktree only when its marker is unused.  While the chat  *)
(* is open the marker says what the entry of #ephemeralWorktrees and the   *)
(* reservation say (MarkerFollows), so a reservation keeps the worktree,   *)
(* also past the death of the window; and the release that close queues    *)
(* comes before the cleanup, so none outlives the close                    *)
(* (ReservationKeeps).                                                     *)
(*                                                                         *)
(* That an acknowledged prompt keeps the worktree needs the order of the   *)
(* queue as well: the mark of the answer is in the queue before the        *)
(* release of a restart or a close, because that waits until nothing is in *)
(* flight (OnlyPrompt).  It holds of a single prompt only; with two, one   *)
(* can give back the reservation under which the other was answered.       *)
(***************************************************************************)
EXTENDS EphemeralWorktree, TLAPS

\* The operations that are queued.
Elements(s) == {s[i] : i \in DOMAIN s}
Queued == Elements(transitions)

\* The sessions that hold the lease of the chat.
Leased == {"leased", "open", "closing", "releasing", "cleaning", "unlocking"}

\* The lease has one holder: the chat while it lives, or the window whose script runs.
LeaseHeld ==
  /\ session \in Leased => lease = Chat
  /\ \A s \in Scanners : scan[s] \in {"leased", "cleaned"} => lease = s

\* A process runs, or is being disposed, only in a chat that is open or closing, and
\* a killed window leaves nothing queued.
RuntimeInChat ==
  /\ omp # "none" => session \in {"open", "closing"}
  /\ session = "dead" => transitions = <<>> /\ restarting = "no"

\* What the marker says follows the chat: unused before the chat opens, and then as
\* the entry of #ephemeralWorktrees and the reservation have it.
MarkerFollows ==
  /\ tree = "removed" => marker = "absent"
  /\ marker = "torn" => session = "dead"
  /\ session \in {"provisioned", "leased"} /\ tree = "present" => marker = "unused"
  /\ entry => session \in {"open", "closing", "releasing", "cleaning", "dead"} /\ ~accepted
  /\ entry /\ session # "dead" => marker = IF reserved THEN "prompting" ELSE "unused"
  /\ ~entry /\ session \in {"open", "closing", "releasing", "cleaning"}
       => marker \in {"prompting", "absent"} /\ (faults = 0 => accepted)
  /\ accepted => marker \in {"prompting", "absent"} /\ (faults = 0 => marker = "absent")
  /\ ~accepted /\ ~entry /\ session \in {"open", "closing", "releasing"} => marker = "prompting"
  /\ accepted => session \notin {"provisioned", "leased", "refused"}

\* A reservation keeps the worktree, and no reservation outlives the close.
ReservationKeeps ==
  /\ reserved => /\ ~accepted /\ tree = "present" /\ marker \in {"prompting", "torn"}
                 /\ session \in {"open", "closing", "releasing", "dead"}
  /\ reserved /\ session = "releasing" => \E o \in Queued : o.for = Nobody
  /\ \A o \in Queued : o.for = Nobody => o.op = "release"

\* From the cleanup on, the marker no longer speaks of a reservation.
Settled ==
  session \in {"unlocking", "closed"} /\ faults = 0 =>
    marker = "absent" \/ (marker = "unused" /\ ~pristine)

\* The inductive invariant.
IInv ==
  /\ TypeOK /\ LeaseHeld /\ RuntimeInChat /\ NeverUnderfoot /\ MarkerFollows
  /\ ReservationKeeps /\ Settled

-------------------------------------------------------------------------------
USE HoldersAssumption, BoundsAssumption

\* What an append, and the removal of the head, do to the elements of a sequence.
LEMMA ElementsAppend ==
  ASSUME NEW S, NEW s \in Seq(S), NEW e
  PROVE  Elements(Append(s, e)) = Elements(s) \cup {e}
<1>1. DOMAIN s = 1..Len(s) /\ DOMAIN Append(s, e) = 1..(Len(s) + 1) /\ Len(s) \in Nat
  OBVIOUS
<1>2. /\ \A i \in 1..Len(s) : Append(s, e)[i] = s[i]
      /\ Append(s, e)[Len(s) + 1] = e
  OBVIOUS
<1>3. 1..(Len(s) + 1) = 1..Len(s) \cup {Len(s) + 1}
  BY <1>1
<1>4. QED
  BY <1>1, <1>2, <1>3 DEF Elements

LEMMA ElementsTail ==
  ASSUME NEW S, NEW s \in Seq(S), s # <<>>
  PROVE  Elements(s) = {Head(s)} \cup Elements(Tail(s)) /\ Head(s) \in S /\ Tail(s) \in Seq(S)
<1>1. /\ Len(s) \in Nat \ {0} /\ DOMAIN s = 1..Len(s)
      /\ Tail(s) \in Seq(S) /\ Head(s) = s[1] /\ Head(s) \in S
      /\ DOMAIN Tail(s) = 1..(Len(s) - 1)
  OBVIOUS
<1>2. \A i \in 1..(Len(s) - 1) : Tail(s)[i] = s[i + 1]
  OBVIOUS
<1>3. ASSUME NEW i \in 1..Len(s)
      PROVE  i = 1 \/ (i - 1 \in 1..(Len(s) - 1) /\ s[i] = Tail(s)[i - 1])
  BY <1>1, <1>2
<1>4. ASSUME NEW e \in Elements(s) PROVE e \in {Head(s)} \cup Elements(Tail(s))
  <2>1. PICK i \in 1..Len(s) : e = s[i]
    BY <1>1 DEF Elements
  <2>2. CASE i = 1
    BY <1>1, <2>1, <2>2
  <2>3. CASE i # 1
    BY <1>1, <1>3, <2>1, <2>3 DEF Elements
  <2>4. QED
    BY <2>2, <2>3
<1>5. {Head(s)} \cup Elements(Tail(s)) \subseteq Elements(s)
  BY <1>1, <1>2 DEF Elements
<1>6. QED
  BY <1>1, <1>4, <1>5

\* What joins the queue is an operation of its own.
LEMMA QueueGrows ==
  ASSUME TypeOK, NEW op \in {"reserve", "mark", "release"}, NEW q \in Prompts \cup {Nobody},
         Enqueue(op, q)
  PROVE  transitions' \in Seq(Operation) /\ Queued' = Queued \cup {[op |-> op, for |-> q]}
<1>1. [op |-> op, for |-> q] \in Operation /\ transitions \in Seq(Operation)
  BY DEF Operation, TypeOK
<1>2. QED
  BY <1>1, ElementsAppend DEF Enqueue, Queued

\* What leaves the queue is its head, and the rest stays.
LEMMA QueueShrinks ==
  ASSUME TypeOK, transitions # <<>>
  PROVE  /\ Head(transitions) \in Operation /\ Tail(transitions) \in Seq(Operation)
         /\ Queued = {Head(transitions)} \cup Elements(Tail(transitions))
  BY ElementsTail DEF TypeOK, Queued

\* Where the catch of sendPrompt leaves the prompt, and what it adds to the queue.
LEMMA CatchOfSend ==
  ASSUME TypeOK, NEW q \in Prompts \cup {Nobody}, NEW rest \in Seq(Operation), SendFails(q, rest)
  PROVE  /\ transitions' \in Seq(Operation)
         /\ pc' = [pc EXCEPT ![q] = "unreserving"] \/ pc' = [pc EXCEPT ![q] = "returned"]
         /\ \/ Elements(transitions') = Elements(rest)
            \/ Elements(transitions') = Elements(rest) \cup {[op |-> "release", for |-> q]}
<1>1. [op |-> "release", for |-> q] \in Operation
  BY DEF Operation
<1>2. ASSUME pc' = [pc EXCEPT ![q] = "unreserving"],
             transitions' = Append(rest, [op |-> "release", for |-> q])
      PROVE  /\ transitions' \in Seq(Operation)
             /\ Elements(transitions') = Elements(rest) \cup {[op |-> "release", for |-> q]}
  BY <1>1, <1>2, ElementsAppend
<1>3. \/ /\ pc' = [pc EXCEPT ![q] = "unreserving"]
         /\ transitions' = Append(rest, [op |-> "release", for |-> q])
      \/ pc' = [pc EXCEPT ![q] = "returned"] /\ transitions' = rest
  BY DEF SendFails
<1>4. QED
  BY <1>2, <1>3

\* Every step keeps the declared types.
LEMMA TypeStep == ASSUME TypeOK, [Next]_vars PROVE TypeOK'
<1> USE DEF TypeOK
<1>1. ASSUME Acquire PROVE TypeOK'
  BY <1>1 DEF Acquire, hostVars, promptVars
<1>2. ASSUME Open PROVE TypeOK'
  BY <1>2 DEF Open, hostVars, promptVars
<1>3. ASSUME OpenFails PROVE TypeOK'
  BY <1>3 DEF OpenFails, Cleanup, hostVars, promptVars
<1>4. ASSUME Close PROVE TypeOK'
  BY <1>4 DEF Close, hostVars, promptVars
<1>5. ASSUME Remove PROVE TypeOK'
  <2>1. tree' \in {"present", "removed"} /\ marker' \in {"unused", "prompting", "absent", "torn"}
    BY <1>5 DEF Remove, Cleanup
  <2>2. entry' = FALSE /\ session' = "unlocking"
    BY <1>5 DEF Remove
  <2>3. UNCHANGED <<pristine, old, lease, omp, generation, restarting, hostVars, promptVars,
                    faults, scan>>
    BY <1>5 DEF Remove
  <2>5. entry' \in BOOLEAN /\ UNCHANGED <<pristine, old, reserved, accepted>>
    BY <2>2, <2>3 DEF hostVars
  <2>4. QED
    BY <2>1, <2>2, <2>3, <2>5 DEF hostVars, promptVars
<1>6. ASSUME Unlock PROVE TypeOK'
  BY <1>6 DEF Unlock, hostVars, promptVars
<1>7. ASSUME NEW q \in Prompts \cup {Nobody}, Reserve(q) PROVE TypeOK'
  <2>1. transitions' \in Seq(Operation)
    BY <1>7, QueueShrinks DEF Reserve
  <2>2. /\ marker' \in {"unused", "prompting", "absent", "torn"}
        /\ faults' \in 0..MaxFaults
    BY <1>7 DEF Reserve, Fault
  <2>7. reserved' \in BOOLEAN
    BY <1>7 DEF Reserve
  <2>3. mine' \in [Prompts -> BOOLEAN]
    BY <1>7 DEF Reserve
  <2>4. pc' \in [Prompts -> {"idle", "reserving", "checking", "inflight", "marking",
                             "unreserving", "taken", "returned"}]
    BY <1>7 DEF Reserve, Advance
  <2>5. UNCHANGED <<tree, pristine, old, lease, session, entry, omp, generation, restarting,
                    accepted, sentTo, answered, scan>>
    BY <1>7 DEF Reserve
  <2>6. QED
    BY <2>1, <2>2, <2>3, <2>4, <2>5, <2>7
<1>8. ASSUME NEW q \in Prompts \cup {Nobody}, Mark(q) PROVE TypeOK'
  <2>1. transitions # <<>> /\ Tail(transitions) \in Seq(Operation)
    BY <1>8, QueueShrinks DEF Mark
  <2>2. /\ transitions' \in Seq(Operation)
        /\ pc' \in [Prompts -> {"idle", "reserving", "checking", "inflight", "marking",
                                "unreserving", "taken", "returned"}]
    <3>1. CASE SendFails(q, Tail(transitions))
      BY <2>1, <3>1, CatchOfSend
    <3>2. CASE /\ transitions' = Tail(transitions)
               /\ Advance(q, "taken") \/ Advance(q, "returned")
      BY <2>1, <3>2 DEF Advance
    <3>3. QED
      BY <1>8, <3>1, <3>2 DEF Mark
  <2>3. /\ marker' \in {"unused", "prompting", "absent", "torn"}
        /\ faults' \in 0..MaxFaults
    BY <1>8 DEF Mark, Fault
  <2>6. reserved' \in BOOLEAN /\ accepted' \in BOOLEAN /\ entry' \in BOOLEAN
    BY <1>8 DEF Mark
  <2>4. UNCHANGED <<tree, pristine, old, lease, session, omp, generation, restarting, mine,
                    sentTo, answered, scan>>
    BY <1>8 DEF Mark
  <2>5. QED
    BY <2>2, <2>3, <2>4, <2>6
<1>9. ASSUME NEW q \in Prompts \cup {Nobody}, Release(q) PROVE TypeOK'
  <2>1. transitions' \in Seq(Operation)
    BY <1>9, QueueShrinks DEF Release
  <2>2. pc' \in [Prompts -> {"idle", "reserving", "checking", "inflight", "marking",
                             "unreserving", "taken", "returned"}]
    BY <1>9 DEF Release, Advance
  <2>3. /\ marker' \in {"unused", "prompting", "absent", "torn"}
        /\ faults' \in 0..MaxFaults
    BY <1>9 DEF Release, Fault
  <2>6. reserved' \in BOOLEAN /\ entry' \in BOOLEAN
    BY <1>9 DEF Release
  <2>4. UNCHANGED <<tree, pristine, old, lease, session, omp, generation, restarting, accepted,
                    mine, sentTo, answered, scan>>
    BY <1>9 DEF Release
  <2>5. QED
    BY <2>1, <2>2, <2>3, <2>4, <2>6
<1>10. ASSUME NEW q \in Prompts, Begin(q) PROVE TypeOK'
  <2>1. transitions' \in Seq(Operation)
    BY <1>10, QueueGrows DEF Begin
  <2>2. pc' \in [Prompts -> {"idle", "reserving", "checking", "inflight", "marking",
                             "unreserving", "taken", "returned"}]
    BY <1>10 DEF Begin
  <2>3. sentTo' \in [Prompts -> 0..MaxRestarts]
    BY <1>10 DEF Begin
  <2>4. UNCHANGED <<tree, pristine, marker, old, lease, session, entry, omp, generation,
                    restarting, reserved, accepted, mine, answered, faults, scan>>
    BY <1>10 DEF Begin
  <2>5. QED
    BY <2>1, <2>2, <2>3, <2>4
<1>11. ASSUME NEW q \in Prompts, Check(q) PROVE TypeOK'
  <2>1. transitions' \in Seq(Operation)
    BY <1>11, QueueGrows DEF Check
  <2>2. pc' \in [Prompts -> {"idle", "reserving", "checking", "inflight", "marking",
                             "unreserving", "taken", "returned"}]
    BY <1>11, <2>1 DEF Check
  <2>3. UNCHANGED <<tree, pristine, marker, old, lease, session, entry, omp, generation,
                    restarting, reserved, accepted, mine, sentTo, answered, faults, scan>>
    BY <1>11 DEF Check
  <2>4. QED
    BY <2>1, <2>2, <2>3
<1>12. ASSUME NEW q \in Prompts, Answer(q) PROVE TypeOK'
  BY <1>12 DEF Answer, Enqueue, hostVars, promptVars, Operation
<1>13. ASSUME NEW q \in Prompts, Reject(q) PROVE TypeOK'
  <2>1. /\ transitions' \in Seq(Operation)
        /\ pc' = [pc EXCEPT ![q] = "unreserving"] \/ pc' = [pc EXCEPT ![q] = "returned"]
    BY <1>13, CatchOfSend DEF Reject
  <2>2. pc' \in [Prompts -> {"idle", "reserving", "checking", "inflight", "marking",
                             "unreserving", "taken", "returned"}]
    BY <1>13, <2>1 DEF Reject
  <2>3. UNCHANGED <<tree, pristine, marker, old, lease, session, entry, omp, generation,
                    restarting, reserved, accepted, mine, sentTo, answered, faults, scan>>
    BY <1>13 DEF Reject
  <2>4. QED
    BY <2>1, <2>2, <2>3
<1>14. ASSUME Work PROVE TypeOK'
  <2>1. pristine' \in BOOLEAN
    BY <1>14 DEF Work
  <2>2. UNCHANGED <<tree, marker, old, lease, session, entry, omp, generation, restarting,
                    hostVars, promptVars, faults, scan>>
    BY <1>14 DEF Work
  <2>3. QED
    BY <2>1, <2>2 DEF hostVars, promptVars
<1>15. ASSUME Restart PROVE TypeOK'
  BY <1>15 DEF Restart, hostVars, promptVars
<1>16. ASSUME TornDown PROVE TypeOK'
  BY <1>16 DEF TornDown, hostVars, promptVars
<1>17. ASSUME Exit PROVE TypeOK'
  BY <1>17 DEF Exit, hostVars, promptVars
<1>18. ASSUME RestartDrained PROVE TypeOK'
  BY <1>18 DEF RestartDrained, Enqueue, hostVars, promptVars, Operation
<1>19. ASSUME CloseDrained PROVE TypeOK'
  BY <1>19 DEF CloseDrained, Enqueue, hostVars, promptVars, Operation
<1>20. ASSUME Restarted PROVE TypeOK'
  BY <1>20 DEF Restarted, NoneQueued, hostVars, promptVars
<1>21. ASSUME CloseReleased PROVE TypeOK'
  BY <1>21 DEF CloseReleased, NoneQueued, hostVars, promptVars
<1>22. ASSUME Kill PROVE TypeOK'
  BY <1>22 DEF Kill, hostVars, promptVars
<1>23. ASSUME Age PROVE TypeOK'
  BY <1>23 DEF Age, hostVars, promptVars
<1>24. ASSUME NEW s \in Scanners, ScanSee(s) PROVE TypeOK'
  BY <1>24 DEF ScanSee, hostVars, promptVars
<1>25. ASSUME NEW s \in Scanners, ScanAcquire(s) PROVE TypeOK'
  BY <1>25 DEF ScanAcquire, hostVars, promptVars
<1>26. ASSUME NEW s \in Scanners, ScanClean(s) PROVE TypeOK'
  BY <1>26 DEF ScanClean, Cleanup, hostVars, promptVars
<1>27. ASSUME NEW s \in Scanners, ScanRelease(s) PROVE TypeOK'
  BY <1>27 DEF ScanRelease, hostVars, promptVars
<1>28. ASSUME NEW s \in Scanners, ScanKill(s) PROVE TypeOK'
  BY <1>28 DEF ScanKill, Fault, hostVars, promptVars
<1>29. ASSUME UNCHANGED vars PROVE TypeOK'
  BY <1>29 DEF vars, hostVars, promptVars
<1>30. QED
  BY <1>1, <1>2, <1>3, <1>4, <1>5, <1>6, <1>7, <1>8, <1>9, <1>10, <1>11, <1>12, <1>13, <1>14,
     <1>15, <1>16, <1>17, <1>18, <1>19, <1>20, <1>21, <1>22, <1>23, <1>24, <1>25, <1>26,
     <1>27, <1>28, <1>29 DEF Next, ChatStep, UserStep, ScanStep, Over

\* A mark leaves the releases of restart and dispose in the queue.
LEMMA MarkQueue ==
  ASSUME TypeOK, ReservationKeeps, NEW q \in Prompts \cup {Nobody}, Mark(q)
  PROVE  /\ q # Nobody
         /\ \A o \in Queued : o.for = Nobody => o \in Queued'
         /\ \A o \in Queued' : o.for = Nobody => o \in Queued
<1>1. /\ transitions # <<>> /\ Head(transitions) = [op |-> "mark", for |-> q]
      /\ transitions' = Tail(transitions) \/ SendFails(q, Tail(transitions))
  BY DEF Mark
<1>2. /\ Tail(transitions) \in Seq(Operation)
      /\ Queued = {Head(transitions)} \cup Elements(Tail(transitions))
  BY <1>1, QueueShrinks
<1>3. q # Nobody
  BY <1>1, <1>2 DEF ReservationKeeps
<1>4. \/ Queued' = Elements(Tail(transitions))
      \/ Queued' = Elements(Tail(transitions)) \cup {[op |-> "release", for |-> q]}
  BY <1>1, <1>2, CatchOfSend DEF Queued
<1>5. QED
  BY <1>1, <1>2, <1>3, <1>4

\* The invariant is inductive.
LEMMA IInvStep == ASSUME IInv, TypeOK', [Next]_vars PROVE IInv'
<1> USE DEF TypeOK, IInv
<1>1. ASSUME Acquire PROVE IInv'
  BY <1>1 DEF Acquire, hostVars, promptVars, LeaseHeld, Leased, RuntimeInChat, NeverUnderfoot,
     MarkerFollows, ReservationKeeps, Queued, Settled
<1>2. ASSUME Open PROVE IInv'
  BY <1>2 DEF Open, hostVars, promptVars, LeaseHeld, Leased, RuntimeInChat, NeverUnderfoot,
     MarkerFollows, ReservationKeeps, Queued, Settled
<1>3. ASSUME OpenFails PROVE IInv'
  BY <1>3 DEF OpenFails, Cleanup, hostVars, promptVars, LeaseHeld, Leased, RuntimeInChat,
     NeverUnderfoot, MarkerFollows, ReservationKeeps, Queued, Settled
<1>4. ASSUME Close PROVE IInv'
  BY <1>4 DEF Close, hostVars, promptVars, LeaseHeld, Leased, RuntimeInChat, NeverUnderfoot,
     MarkerFollows, ReservationKeeps, Queued, Settled
<1>5. ASSUME Remove PROVE IInv'
  BY <1>5 DEF Remove, Cleanup, hostVars, promptVars, LeaseHeld, Leased, RuntimeInChat,
     NeverUnderfoot, MarkerFollows, ReservationKeeps, Queued, Settled
<1>6. ASSUME Unlock PROVE IInv'
  BY <1>6 DEF Unlock, hostVars, promptVars, LeaseHeld, Leased, RuntimeInChat, NeverUnderfoot,
     MarkerFollows, ReservationKeeps, Queued, Settled
<1>7. ASSUME NEW q \in Prompts \cup {Nobody}, Reserve(q) PROVE IInv'
  <2>1. LeaseHeld'
    BY <1>7 DEF Reserve, Advance, Closing, Fault, hostVars, promptVars, LeaseHeld, Leased
  <2>2. RuntimeInChat'
    BY <1>7 DEF Reserve, Advance, Closing, Fault, hostVars, promptVars, RuntimeInChat
  <2>3. NeverUnderfoot'
    BY <1>7 DEF Reserve, Advance, Closing, Fault, hostVars, promptVars, NeverUnderfoot,
       RuntimeInChat, LeaseHeld, Leased, MarkerFollows
  <2>4. MarkerFollows'
    BY <1>7 DEF Reserve, Advance, Closing, Fault, hostVars, promptVars, MarkerFollows,
       LeaseHeld, Leased, ReservationKeeps, NeverUnderfoot
  <2>5. ReservationKeeps'
    <3>1. /\ transitions # <<>> /\ Head(transitions) = [op |-> "reserve", for |-> q]
          /\ transitions' = Tail(transitions)
      BY <1>7 DEF Reserve
    <3>2. Queued = {[op |-> "reserve", for |-> q]} \cup Queued'
      BY <3>1, QueueShrinks DEF Queued
    <3>4. q # Nobody
      <4>1. [op |-> "reserve", for |-> q] \in Queued
        BY <3>2
      <4>2. [op |-> "reserve", for |-> q].op # "release" /\ [op |-> "reserve", for |-> q].for = q
        OBVIOUS
      <4>3. QED
        BY <4>1, <4>2 DEF ReservationKeeps
    <3>5. /\ Queued' \subseteq Queued
          /\ \A o \in Queued : o.for = Nobody => o \in Queued'
      BY <3>2, <3>4
    <3>6. CASE UNCHANGED <<marker, reserved>>
      BY <1>7, <3>5, <3>6 DEF Reserve, ReservationKeeps
    <3>7. CASE ~Closing /\ ~accepted /\ (~entry \/ marker = "unused")
               /\ marker' = IF entry THEN "prompting" ELSE marker
      BY <1>7, <3>5, <3>7 DEF Reserve, Closing, ReservationKeeps, MarkerFollows, NeverUnderfoot
    <3>3. QED
      BY <1>7, <3>6, <3>7 DEF Reserve
  <2>6. Settled'
    BY <1>7 DEF Reserve, Advance, Closing, Fault, hostVars, promptVars, Settled,
       MarkerFollows, LeaseHeld, Leased, ReservationKeeps, NeverUnderfoot
  <2>7. QED
    BY <2>1, <2>2, <2>3, <2>4, <2>5, <2>6
<1>8. ASSUME NEW q \in Prompts \cup {Nobody}, Mark(q) PROVE IInv'
  <2>1. LeaseHeld'
    BY <1>8 DEF Mark, SendFails, Advance, Fault, hostVars, promptVars, LeaseHeld, Leased
  <2>2. RuntimeInChat'
    BY <1>8 DEF Mark, SendFails, Advance, Fault, hostVars, promptVars, RuntimeInChat
  <2>3. NeverUnderfoot'
    BY <1>8 DEF Mark, SendFails, Advance, Fault, hostVars, promptVars, NeverUnderfoot,
       RuntimeInChat, LeaseHeld, Leased, MarkerFollows
  <2>4. MarkerFollows'
    <3>1. UNCHANGED <<tree, session>>
      BY <1>8 DEF Mark
    <3>2. CASE UNCHANGED <<marker, reserved, accepted, entry>>
      <4>1. faults' = 0 => faults = 0
        BY <1>8 DEF Mark, Fault
      <4>2. QED
        BY <3>1, <3>2, <4>1 DEF MarkerFollows
    <3>3. CASE /\ ~accepted /\ reserved
               /\ marker' = IF entry /\ marker = "prompting" THEN "absent" ELSE marker
               /\ entry' = FALSE /\ accepted' = TRUE /\ reserved' = FALSE
               /\ UNCHANGED faults
      <4>1. session \in {"open", "closing", "releasing"}
        BY <1>8, <3>3 DEF Mark, ReservationKeeps, RuntimeInChat
      <4>2. CASE entry
        <5>1. marker' = "absent" /\ tree' = "present"
          BY <3>1, <3>3, <4>1, <4>2 DEF MarkerFollows, ReservationKeeps
        <5>2. QED
          BY <3>1, <3>3, <4>1, <4>2, <5>1 DEF MarkerFollows
      <4>3. CASE ~entry
        <5>1. marker' = "prompting" /\ tree' = "present" /\ faults' # 0
          BY <3>1, <3>3, <4>1, <4>3 DEF MarkerFollows, ReservationKeeps
        <5>2. QED
          BY <3>1, <3>3, <4>1, <4>3, <5>1 DEF MarkerFollows
      <4>4. QED
        BY <4>2, <4>3
    <3>4. QED
      BY <1>8, <3>2, <3>3 DEF Mark
  <2>5. ReservationKeeps'
    <3>1. /\ q # Nobody
          /\ \A o \in Queued : o.for = Nobody => o \in Queued'
          /\ \A o \in Queued' : o.for = Nobody => o \in Queued
      BY <1>8, MarkQueue
    <3>2. reserved' => reserved /\ UNCHANGED <<marker, tree, session, accepted>>
      BY <1>8 DEF Mark, ReservationKeeps
    <3>3. session' = session
      BY <1>8 DEF Mark
    <3>4. QED
      BY <3>1, <3>2, <3>3 DEF ReservationKeeps
  <2>6. Settled'
    BY <1>8 DEF Mark, SendFails, Advance, Fault, hostVars, promptVars, Settled,
       MarkerFollows, LeaseHeld, Leased, ReservationKeeps, NeverUnderfoot
  <2>7. QED
    BY <2>1, <2>2, <2>3, <2>4, <2>5, <2>6
<1>9. ASSUME NEW q \in Prompts \cup {Nobody}, Release(q) PROVE IInv'
  <2>1. LeaseHeld'
    BY <1>9 DEF Release, Advance, Fault, hostVars, promptVars, LeaseHeld, Leased
  <2>2. RuntimeInChat'
    BY <1>9 DEF Release, Advance, Fault, hostVars, promptVars, RuntimeInChat
  <2>3. NeverUnderfoot'
    BY <1>9 DEF Release, Advance, Fault, hostVars, promptVars, NeverUnderfoot,
       RuntimeInChat, LeaseHeld, Leased, MarkerFollows
  <2>4. MarkerFollows'
    BY <1>9 DEF Release, Advance, Fault, hostVars, promptVars, MarkerFollows, LeaseHeld,
       Leased, ReservationKeeps, NeverUnderfoot
  <2>5. ReservationKeeps'
    <3>1. Queued' \subseteq Queued
      BY <1>9, QueueShrinks DEF Release, Queued
    <3>2. reserved' = FALSE
      BY <1>9 DEF Release, ReservationKeeps
    <3>3. QED
      BY <3>1, <3>2 DEF ReservationKeeps
  <2>6. Settled'
    BY <1>9 DEF Release, Advance, Fault, hostVars, promptVars, Settled, MarkerFollows,
       LeaseHeld, Leased, ReservationKeeps, NeverUnderfoot
  <2>7. QED
    BY <2>1, <2>2, <2>3, <2>4, <2>5, <2>6
<1>10. ASSUME NEW q \in Prompts, Begin(q) PROVE IInv'
  <2>0. Queued \subseteq Queued' /\ \A o \in Queued' \ Queued : o.for # Nobody
    BY <1>10, QueueGrows DEF Begin, Queued, Operation
  <2>1. LeaseHeld'
    BY <2>0, <1>10 DEF Begin, Enqueue, hostVars, promptVars, LeaseHeld, Leased
  <2>2. RuntimeInChat'
    BY <2>0, <1>10 DEF Begin, Enqueue, hostVars, promptVars, RuntimeInChat
  <2>3. NeverUnderfoot'
    BY <2>0, <1>10 DEF Begin, Enqueue, hostVars, promptVars, NeverUnderfoot, RuntimeInChat,
       LeaseHeld, Leased, MarkerFollows
  <2>4. MarkerFollows'
    BY <2>0, <1>10 DEF Begin, Enqueue, hostVars, promptVars, MarkerFollows, LeaseHeld,
       Leased, ReservationKeeps, NeverUnderfoot
  <2>5. ReservationKeeps'
    BY <2>0, <1>10 DEF Begin, Enqueue, hostVars, promptVars, ReservationKeeps,
       MarkerFollows, NeverUnderfoot, LeaseHeld, Leased
  <2>6. Settled'
    BY <2>0, <1>10 DEF Begin, Enqueue, hostVars, promptVars, Settled, MarkerFollows,
       LeaseHeld, Leased, ReservationKeeps, NeverUnderfoot
  <2>7. QED
    BY <2>1, <2>2, <2>3, <2>4, <2>5, <2>6
<1>11. ASSUME NEW q \in Prompts, Check(q) PROVE IInv'
  <2>0. Queued \subseteq Queued' /\ \A o \in Queued' \ Queued : o.for # Nobody
    BY <1>11, QueueGrows DEF Check, Queued, Operation
  <2>1. LeaseHeld'
    BY <2>0, <1>11 DEF Check, Enqueue, SameRuntime, Closing, Alive, hostVars, promptVars,
       LeaseHeld, Leased
  <2>2. RuntimeInChat'
    BY <2>0, <1>11 DEF Check, Enqueue, SameRuntime, Closing, Alive, hostVars, promptVars,
       RuntimeInChat
  <2>3. NeverUnderfoot'
    BY <2>0, <1>11 DEF Check, Enqueue, SameRuntime, Closing, Alive, hostVars, promptVars,
       NeverUnderfoot, RuntimeInChat, LeaseHeld, Leased, MarkerFollows
  <2>4. MarkerFollows'
    BY <2>0, <1>11 DEF Check, Enqueue, SameRuntime, Closing, Alive, hostVars, promptVars,
       MarkerFollows, LeaseHeld, Leased, ReservationKeeps, NeverUnderfoot
  <2>5. ReservationKeeps'
    BY <2>0, <1>11 DEF Check, Enqueue, SameRuntime, Closing, Alive, hostVars, promptVars,
       ReservationKeeps, MarkerFollows, NeverUnderfoot, LeaseHeld, Leased
  <2>6. Settled'
    BY <2>0, <1>11 DEF Check, Enqueue, SameRuntime, Closing, Alive, hostVars, promptVars,
       Settled, MarkerFollows, LeaseHeld, Leased, ReservationKeeps, NeverUnderfoot
  <2>7. QED
    BY <2>1, <2>2, <2>3, <2>4, <2>5, <2>6
<1>12. ASSUME NEW q \in Prompts, Answer(q) PROVE IInv'
  <2>0. Queued \subseteq Queued' /\ \A o \in Queued' \ Queued : o.for # Nobody
    BY <1>12, QueueGrows DEF Answer
  <2>1. LeaseHeld'
    BY <2>0, <1>12 DEF Answer, Enqueue, hostVars, promptVars, LeaseHeld, Leased
  <2>2. RuntimeInChat'
    BY <2>0, <1>12 DEF Answer, Enqueue, hostVars, promptVars, RuntimeInChat
  <2>3. NeverUnderfoot'
    BY <2>0, <1>12 DEF Answer, Enqueue, hostVars, promptVars, NeverUnderfoot, RuntimeInChat,
       LeaseHeld, Leased, MarkerFollows
  <2>4. MarkerFollows'
    BY <2>0, <1>12 DEF Answer, Enqueue, hostVars, promptVars, MarkerFollows, LeaseHeld,
       Leased, ReservationKeeps, NeverUnderfoot
  <2>5. ReservationKeeps'
    BY <2>0, <1>12 DEF Answer, Enqueue, hostVars, promptVars, ReservationKeeps,
       MarkerFollows, NeverUnderfoot, LeaseHeld, Leased
  <2>6. Settled'
    BY <2>0, <1>12 DEF Answer, Enqueue, hostVars, promptVars, Settled, MarkerFollows,
       LeaseHeld, Leased, ReservationKeeps, NeverUnderfoot
  <2>7. QED
    BY <2>1, <2>2, <2>3, <2>4, <2>5, <2>6
<1>13. ASSUME NEW q \in Prompts, Reject(q) PROVE IInv'
  <2>1. LeaseHeld'
    BY <1>13 DEF Reject, SendFails, Alive, hostVars, promptVars, LeaseHeld, Leased
  <2>2. RuntimeInChat'
    BY <1>13 DEF Reject, SendFails, Alive, hostVars, promptVars, RuntimeInChat
  <2>3. NeverUnderfoot'
    BY <1>13 DEF Reject, SendFails, Alive, hostVars, promptVars, NeverUnderfoot,
       RuntimeInChat, LeaseHeld, Leased, MarkerFollows
  <2>4. MarkerFollows'
    BY <1>13 DEF Reject, SendFails, Alive, hostVars, promptVars, MarkerFollows, LeaseHeld,
       Leased, ReservationKeeps, NeverUnderfoot
  <2>5. ReservationKeeps'
    <3>1. Queued \subseteq Queued' /\ \A o \in Queued' \ Queued : o.for # Nobody
      BY <1>13, CatchOfSend DEF Reject, Queued
    <3>2. QED
      BY <1>13, <3>1 DEF Reject, ReservationKeeps
  <2>6. Settled'
    BY <1>13 DEF Reject, SendFails, Alive, hostVars, promptVars, Settled, MarkerFollows,
       LeaseHeld, Leased, ReservationKeeps, NeverUnderfoot
  <2>7. QED
    BY <2>1, <2>2, <2>3, <2>4, <2>5, <2>6
<1>14. ASSUME Work PROVE IInv'
  BY <1>14 DEF Work, hostVars, promptVars, LeaseHeld, Leased, RuntimeInChat, NeverUnderfoot,
     MarkerFollows, ReservationKeeps, Queued, Settled
<1>15. ASSUME Restart PROVE IInv'
  BY <1>15 DEF Restart, hostVars, promptVars, LeaseHeld, Leased, RuntimeInChat,
     NeverUnderfoot, MarkerFollows, ReservationKeeps, Queued, Settled
<1>16. ASSUME TornDown PROVE IInv'
  BY <1>16 DEF TornDown, hostVars, promptVars, LeaseHeld, Leased, RuntimeInChat,
     NeverUnderfoot, MarkerFollows, ReservationKeeps, Queued, Settled
<1>17. ASSUME Exit PROVE IInv'
  BY <1>17 DEF Exit, hostVars, promptVars, LeaseHeld, Leased, RuntimeInChat, NeverUnderfoot,
     MarkerFollows, ReservationKeeps, Queued, Settled
<1>18. ASSUME RestartDrained PROVE IInv'
  <2>0. Queued' = Queued \cup {[op |-> "release", for |-> Nobody]}
    BY <1>18, QueueGrows DEF RestartDrained
  <2>1. LeaseHeld'
    BY <2>0, <1>18 DEF RestartDrained, Enqueue, hostVars, promptVars, LeaseHeld, Leased
  <2>2. RuntimeInChat'
    BY <2>0, <1>18 DEF RestartDrained, Enqueue, hostVars, promptVars, RuntimeInChat
  <2>3. NeverUnderfoot'
    BY <2>0, <1>18 DEF RestartDrained, Enqueue, hostVars, promptVars, NeverUnderfoot,
       RuntimeInChat, LeaseHeld, Leased, MarkerFollows
  <2>4. MarkerFollows'
    BY <2>0, <1>18 DEF RestartDrained, Enqueue, hostVars, promptVars, MarkerFollows,
       LeaseHeld, Leased, ReservationKeeps, NeverUnderfoot
  <2>5. ReservationKeeps'
    BY <2>0, <1>18 DEF RestartDrained, Enqueue, hostVars, promptVars, ReservationKeeps,
       MarkerFollows, NeverUnderfoot, LeaseHeld, Leased
  <2>6. Settled'
    BY <2>0, <1>18 DEF RestartDrained, Enqueue, hostVars, promptVars, Settled,
       MarkerFollows, LeaseHeld, Leased, ReservationKeeps, NeverUnderfoot
  <2>7. QED
    BY <2>1, <2>2, <2>3, <2>4, <2>5, <2>6
<1>19. ASSUME CloseDrained PROVE IInv'
  <2>0. Queued' = Queued \cup {[op |-> "release", for |-> Nobody]}
    BY <1>19, QueueGrows DEF CloseDrained
  <2>1. LeaseHeld'
    BY <2>0, <1>19 DEF CloseDrained, Enqueue, hostVars, promptVars, LeaseHeld, Leased
  <2>2. RuntimeInChat'
    BY <2>0, <1>19 DEF CloseDrained, Enqueue, hostVars, promptVars, RuntimeInChat
  <2>3. NeverUnderfoot'
    BY <2>0, <1>19 DEF CloseDrained, Enqueue, hostVars, promptVars, NeverUnderfoot,
       RuntimeInChat, LeaseHeld, Leased, MarkerFollows
  <2>4. MarkerFollows'
    BY <2>0, <1>19 DEF CloseDrained, Enqueue, hostVars, promptVars, MarkerFollows,
       LeaseHeld, Leased, ReservationKeeps, NeverUnderfoot
  <2>5. ReservationKeeps'
    <3>1. UNCHANGED <<reserved, accepted, tree, marker>> /\ session = "closing" /\ session' = "releasing"
      BY <1>19 DEF CloseDrained
    <3>2. [op |-> "release", for |-> Nobody] \in Queued'
      BY <2>0
    <3>3. [op |-> "release", for |-> Nobody].for = Nobody
      OBVIOUS
    <3>4. \E o \in Queued' : o.for = Nobody
      BY <3>2, <3>3
    <3>5. \A o \in Queued' : o.for = Nobody => o.op = "release"
      BY <2>0 DEF ReservationKeeps
    <3>6. QED
      BY <3>1, <3>4, <3>5 DEF ReservationKeeps
  <2>6. Settled'
    BY <2>0, <1>19 DEF CloseDrained, Enqueue, hostVars, promptVars, Settled, MarkerFollows,
       LeaseHeld, Leased, ReservationKeeps, NeverUnderfoot
  <2>7. QED
    BY <2>1, <2>2, <2>3, <2>4, <2>5, <2>6
<1>20. ASSUME Restarted PROVE IInv'
  BY <1>20 DEF Restarted, NoneQueued, hostVars, promptVars, LeaseHeld, Leased, RuntimeInChat,
     NeverUnderfoot, MarkerFollows, ReservationKeeps, Queued, Settled
<1>21. ASSUME CloseReleased PROVE IInv'
  <2>1. LeaseHeld'
    BY <1>21 DEF CloseReleased, NoneQueued, hostVars, promptVars, LeaseHeld, Leased
  <2>2. RuntimeInChat'
    BY <1>21 DEF CloseReleased, NoneQueued, hostVars, promptVars, RuntimeInChat
  <2>3. NeverUnderfoot'
    BY <1>21 DEF CloseReleased, NoneQueued, hostVars, promptVars, NeverUnderfoot,
       RuntimeInChat, LeaseHeld, Leased, MarkerFollows
  <2>4. MarkerFollows'
    BY <1>21 DEF CloseReleased, NoneQueued, hostVars, promptVars, MarkerFollows, LeaseHeld,
       Leased, ReservationKeeps, NeverUnderfoot
  <2>5. ReservationKeeps'
    <3>1. ~reserved /\ UNCHANGED <<reserved, transitions>>
      BY <1>21 DEF CloseReleased, NoneQueued, hostVars, ReservationKeeps, Queued, Elements
    <3>2. QED
      BY <3>1 DEF ReservationKeeps, Queued
  <2>6. Settled'
    BY <1>21 DEF CloseReleased, NoneQueued, hostVars, promptVars, Settled, MarkerFollows,
       LeaseHeld, Leased, ReservationKeeps, NeverUnderfoot
  <2>7. QED
    BY <2>1, <2>2, <2>3, <2>4, <2>5, <2>6
<1>22. ASSUME Kill PROVE IInv'
  <2>1. LeaseHeld'
    BY <1>22 DEF Kill, hostVars, promptVars, LeaseHeld, Leased
  <2>2. RuntimeInChat'
    BY <1>22 DEF Kill, hostVars, promptVars, RuntimeInChat
  <2>3. NeverUnderfoot'
    BY <1>22 DEF Kill, hostVars, promptVars, NeverUnderfoot, RuntimeInChat, LeaseHeld,
       Leased, MarkerFollows
  <2>4. MarkerFollows'
    BY <1>22 DEF Kill, hostVars, promptVars, MarkerFollows, LeaseHeld, Leased,
       ReservationKeeps, NeverUnderfoot
  <2>5. ReservationKeeps'
    <3>1. transitions' = <<>> /\ session' = "dead" /\ marker' \in {marker, "torn"}
      BY <1>22 DEF Kill
    <3>2. Queued' = {}
      BY <3>1 DEF Queued, Elements
    <3>3. QED
      BY <1>22, <3>1, <3>2 DEF Kill, ReservationKeeps
  <2>6. Settled'
    BY <1>22 DEF Kill, hostVars, promptVars, Settled, MarkerFollows, LeaseHeld, Leased,
       ReservationKeeps, NeverUnderfoot
  <2>7. QED
    BY <2>1, <2>2, <2>3, <2>4, <2>5, <2>6
<1>23. ASSUME Age PROVE IInv'
  BY <1>23 DEF Age, hostVars, promptVars, LeaseHeld, Leased, RuntimeInChat, NeverUnderfoot,
     MarkerFollows, ReservationKeeps, Queued, Settled
<1>24. ASSUME NEW s \in Scanners, ScanSee(s) PROVE IInv'
  BY <1>24 DEF ScanSee, hostVars, promptVars, LeaseHeld, Leased, RuntimeInChat,
     NeverUnderfoot, MarkerFollows, ReservationKeeps, Queued, Settled
<1>25. ASSUME NEW s \in Scanners, ScanAcquire(s) PROVE IInv'
  BY <1>25 DEF ScanAcquire, hostVars, promptVars, LeaseHeld, Leased, RuntimeInChat,
     NeverUnderfoot, MarkerFollows, ReservationKeeps, Queued, Settled
<1>26. ASSUME NEW s \in Scanners, ScanClean(s) PROVE IInv'
  BY <1>26 DEF ScanClean, Cleanup, hostVars, promptVars, LeaseHeld, Leased, RuntimeInChat,
     NeverUnderfoot, MarkerFollows, ReservationKeeps, Queued, Settled
<1>27. ASSUME NEW s \in Scanners, ScanRelease(s) PROVE IInv'
  BY <1>27 DEF ScanRelease, hostVars, promptVars, LeaseHeld, Leased, RuntimeInChat,
     NeverUnderfoot, MarkerFollows, ReservationKeeps, Queued, Settled
<1>28. ASSUME NEW s \in Scanners, ScanKill(s) PROVE IInv'
  BY <1>28 DEF ScanKill, Fault, hostVars, promptVars, LeaseHeld, Leased, RuntimeInChat,
     NeverUnderfoot, MarkerFollows, ReservationKeeps, Queued, Settled
<1>29. ASSUME UNCHANGED vars PROVE IInv'
  BY <1>29 DEF vars, hostVars, promptVars, LeaseHeld, Leased, RuntimeInChat, NeverUnderfoot,
     MarkerFollows, ReservationKeeps, Queued, Settled
<1>30. QED
  BY <1>1, <1>2, <1>3, <1>4, <1>5, <1>6, <1>7, <1>8, <1>9, <1>10, <1>11, <1>12, <1>13, <1>14,
     <1>15, <1>16, <1>17, <1>18, <1>19, <1>20, <1>21, <1>22, <1>23, <1>24, <1>25, <1>26,
     <1>27, <1>28, <1>29 DEF Next, ChatStep, UserStep, ScanStep, Over

\* In every reachable state the invariant holds.
LEMMA Invariance == Spec => []IInv
<1>1. Init => IInv
  <2> SUFFICES ASSUME Init PROVE IInv
    OBVIOUS
  <2>1. TypeOK
    <3>1. /\ pristine \in BOOLEAN /\ old \in BOOLEAN /\ entry \in BOOLEAN
          /\ reserved \in BOOLEAN /\ accepted \in BOOLEAN
      BY DEF Init
    <3>2. transitions \in Seq(Operation)
      BY DEF Init
    <3>3. /\ pc \in [Prompts -> {"idle", "reserving", "checking", "inflight", "marking",
                                 "unreserving", "taken", "returned"}]
          /\ scan \in [Scanners -> {"idle", "seen", "leased", "cleaned"}]
      BY DEF Init
    <3>4. mine \in [Prompts -> BOOLEAN] /\ sentTo \in [Prompts -> 0..MaxRestarts]
      BY DEF Init
    <3>5. /\ tree = "present" /\ marker = "unused" /\ lease = Nobody /\ session = "provisioned"
          /\ omp = "none" /\ generation = 0 /\ restarting = "no" /\ answered = {} /\ faults = 0
      BY DEF Init
    <3>6. QED
      BY <3>1, <3>2, <3>3, <3>4, <3>5 DEF TypeOK
  <2>2. Queued = {}
    BY DEF Init, Queued, Elements
  <2>3. QED
    BY <2>1, <2>2 DEF Init, IInv, LeaseHeld, Leased, RuntimeInChat, NeverUnderfoot,
       MarkerFollows, ReservationKeeps, Settled
<1>2. IInv /\ [Next]_vars => IInv'
  BY IInvStep, TypeStep DEF IInv
<1>3. QED
  BY <1>1, <1>2, PTL DEF Spec

-------------------------------------------------------------------------------
(* Theorems                                                                *)

\* All states are well typed (every definition of EphemeralWorktree).
THEOREM TypeSafety == Spec => []TypeOK
  BY Invariance, PTL DEF IInv

\* No cleanup, of this window or of a scan in another, removes a worktree in which a
\* process runs or is about to (the lease around cleanupSelectedDirectory).
THEOREM CleanupSpares == Spec => []NeverUnderfoot
  BY Invariance, PTL DEF IInv

\* A worktree whose window was killed with a reserved first prompt is never taken for
\* unused (reserveFirstPrompt writes the phase before OMP is asked).
THEOREM KilledReservationKept == Spec => []KilledFirstPromptKept
<1>1. IInv => KilledFirstPromptKept
  BY DEF IInv, ReservationKeeps, KilledFirstPromptKept
<1>2. QED
  BY <1>1, Invariance, PTL

\* A closed chat leaves no reservation in the marker, unless a file operation failed
\* (dispose drains the queue before #remove cleans up).
THEOREM CloseSettles == Spec => []ClosedSettles
<1>1. IInv => ClosedSettles
  BY DEF IInv, Settled, ClosedSettles
<1>2. QED
  BY <1>1, Invariance, PTL

-------------------------------------------------------------------------------
(* A single prompt.                                                        *)

\* The stage in which a prompt awaits an operation.
Stage(op) == CASE op = "reserve" -> "reserving" [] op = "mark" -> "marking"
               [] op = "release" -> "unreserving"
\* Each prompt awaits at most one operation, the one its stage asks for.
Own(s, stage) ==
  /\ \A i \in DOMAIN s : s[i].for \in Prompts => stage[s[i].for] = Stage(s[i].op)
  /\ \A i, j \in DOMAIN s : s[i].for \in Prompts /\ s[i].for = s[j].for => i = j
OwnTurn == Own(transitions, pc)

\* A restart lies between a prompt and the release that restart queues.
Generations ==
  /\ \A q \in Prompts :
       /\ sentTo[q] <= generation
       /\ restarting # "no" /\ pc[q] # "idle" => sentTo[q] < generation
       /\ session \in {"provisioned", "leased"} => pc[q] = "idle"
  /\ omp = "running" \/ session \in {"provisioned", "leased"} => restarting = "no"
  /\ restarting = "releasing" => omp = "none"
  /\ (\E o \in Queued : o.for = Nobody) => restarting = "releasing" \/ session = "releasing"

\* Where the only prompt stands, its reservation stands with it.
OnlyPrompt ==
  \A q \in Prompts :
    /\ pc[q] \in {"idle", "reserving"} => ~accepted /\ ~reserved
    /\ pc[q] = "checking" /\ session = "open" /\ sentTo[q] = generation => mine[q] /\ reserved
    /\ pc[q] = "inflight" /\ Alive => mine[q] /\ reserved /\ transitions = <<>> /\ omp # "none"
    /\ pc[q] = "marking" /\ Alive =>
         /\ reserved /\ transitions # <<>>
         /\ Head(transitions) = [op |-> "mark", for |-> q]
    /\ q \in answered /\ faults = 0 =>
         tree = "present" /\ (accepted \/ (pc[q] = "marking" /\ reserved))

\* One prompt is sent in the life of the chat.
SinglePrompt == \A p, q \in Prompts : p = q
\* The invariant with which the acknowledgement of a single prompt is kept.
AnswerInv == IInv /\ OwnTurn /\ Generations /\ OnlyPrompt

\* Popping the head leaves no operation of its prompt.
LEMMA OwnPop ==
  ASSUME NEW s \in Seq(Operation), NEW f, NEW g, Own(s, f), s # <<>>,
         \A p \in Prompts : p # Head(s).for => g[p] = f[p]
  PROVE  /\ Own(Tail(s), g)
         /\ \A i \in DOMAIN Tail(s) : Tail(s)[i].for = Head(s).for => Head(s).for \notin Prompts
<1>1. /\ Len(s) \in Nat \ {0} /\ DOMAIN s = 1..Len(s) /\ Head(s) = s[1]
      /\ DOMAIN Tail(s) = 1..(Len(s) - 1)
      /\ \A i \in 1..(Len(s) - 1) : Tail(s)[i] = s[i + 1]
  OBVIOUS
<1>2. \A i \in 1..(Len(s) - 1) : i + 1 \in DOMAIN s /\ 1 \in DOMAIN s /\ i + 1 # 1
  BY <1>1
<1>3. \A i \in DOMAIN Tail(s) : Tail(s)[i].for = Head(s).for => Head(s).for \notin Prompts
  BY <1>1, <1>2 DEF Own
<1>4. \A i \in DOMAIN Tail(s) :
        Tail(s)[i].for \in Prompts => g[Tail(s)[i].for] = Stage(Tail(s)[i].op)
  BY <1>1, <1>2, <1>3 DEF Own
<1>5. ASSUME NEW i \in 1..(Len(s) - 1), NEW j \in 1..(Len(s) - 1),
             Tail(s)[i].for \in Prompts, Tail(s)[i].for = Tail(s)[j].for
      PROVE  i = j
  <2>1. i + 1 = j + 1
    BY <1>1, <1>2, <1>5 DEF Own
  <2>2. QED
    BY <2>1
<1>6. QED
  BY <1>1, <1>3, <1>4, <1>5 DEF Own

\* Appending an operation for a prompt that has none.
LEMMA OwnPush ==
  ASSUME NEW s \in Seq(Operation), NEW g, Own(s, g),
         NEW q \in Prompts \cup {Nobody}, NEW op \in {"reserve", "mark", "release"},
         \A i \in DOMAIN s : s[i].for = q => q \notin Prompts,
         q \in Prompts => g[q] = Stage(op)
  PROVE  Own(Append(s, [op |-> op, for |-> q]), g)
<1> DEFINE e == [op |-> op, for |-> q]
           t == Append(s, e)
<1>0. e.op = op /\ e.for = q
  OBVIOUS
<1> HIDE DEF e
<1>1. /\ Len(s) \in Nat /\ DOMAIN s = 1..Len(s) /\ DOMAIN t = 1..(Len(s) + 1)
      /\ \A i \in 1..Len(s) : t[i] = s[i]
      /\ t[Len(s) + 1] = e
  OBVIOUS
<1> HIDE DEF t
<1>2. ASSUME NEW i \in DOMAIN t, t[i].for \in Prompts
      PROVE  g[t[i].for] = Stage(t[i].op)
  <2>1. CASE i = Len(s) + 1
    BY <1>0, <1>1, <1>2, <2>1
  <2>2. CASE i # Len(s) + 1
    <3>1. i \in DOMAIN s /\ t[i] = s[i]
      BY <1>1, <2>2
    <3>2. QED
      BY <1>2, <3>1 DEF Own
  <2>3. QED
    BY <2>1, <2>2
<1>3. ASSUME NEW i \in DOMAIN t, NEW j \in DOMAIN t,
             t[i].for \in Prompts, t[i].for = t[j].for
      PROVE  i = j
  <2>1. CASE i = Len(s) + 1 /\ j = Len(s) + 1
    BY <2>1
  <2>2. CASE i = Len(s) + 1 /\ j # Len(s) + 1
    <3>1. j \in DOMAIN s /\ t[j] = s[j] /\ t[i] = e
      BY <1>1, <2>2
    <3>2. QED
      BY <1>0, <1>3, <3>1
  <2>3. CASE i # Len(s) + 1 /\ j = Len(s) + 1
    <3>1. i \in DOMAIN s /\ t[i] = s[i] /\ t[j] = e
      BY <1>1, <2>3
    <3>2. QED
      BY <1>0, <1>3, <3>1
  <2>4. CASE i # Len(s) + 1 /\ j # Len(s) + 1
    <3>1. i \in DOMAIN s /\ j \in DOMAIN s /\ t[i] = s[i] /\ t[j] = s[j]
      BY <1>1, <2>4
    <3>2. QED
      BY <1>3, <3>1 DEF Own
  <2>5. QED
    BY <2>1, <2>2, <2>3, <2>4
<1>4. QED
  BY <1>2, <1>3 DEF Own, t, e

\* A prompt in one of these stages awaits nothing in the queue.
LEMMA NothingAwaited ==
  ASSUME TypeOK, OwnTurn, NEW q \in Prompts,
         pc[q] \notin {"reserving", "marking", "unreserving"}
  PROVE  \A i \in DOMAIN transitions : transitions[i].for # q
<1>1. \A i \in DOMAIN transitions : transitions[i] \in Operation
  BY DEF TypeOK
<1>2. \A i \in DOMAIN transitions :
        Stage(transitions[i].op) \in {"reserving", "marking", "unreserving"}
  BY <1>1 DEF Stage, Operation
<1>3. QED
  BY <1>2 DEF OwnTurn, Own

\* The prompt at the head of the queue stands where its operation has it.
LEMMA HeadStage ==
  ASSUME TypeOK, OwnTurn, transitions # <<>>, NEW q \in Prompts, Head(transitions).for = q
  PROVE  /\ Head(transitions).op = "reserve" => pc[q] = "reserving"
         /\ Head(transitions).op = "mark" => pc[q] = "marking"
         /\ Head(transitions).op = "release" => pc[q] = "unreserving"
<1>1. 1 \in DOMAIN transitions /\ Head(transitions) = transitions[1]
  BY DEF TypeOK
<1>2. pc[q] = Stage(Head(transitions).op)
  BY <1>1 DEF OwnTurn, Own
<1>3. QED
  BY <1>2 DEF Stage

\* Appending leaves the head of the queue where it is.
LEMMA HeadStays ==
  ASSUME NEW s \in Seq(Operation), NEW e, s # <<>>
  PROVE  Append(s, e) # <<>> /\ Head(Append(s, e)) = Head(s)
<1>1. Len(s) \in Nat \ {0} /\ Len(Append(s, e)) = Len(s) + 1
  OBVIOUS
<1>2. Append(s, e)[1] = s[1]
  BY <1>1
<1>3. QED
  BY <1>1, <1>2

\* Reserve, Mark and Release take their own operation from the queue, and a prompt
\* queues one only when it has none.
LEMMA OwnTurnStep == ASSUME IInv, OwnTurn, TypeOK', [Next]_vars PROVE OwnTurn'
<1> USE DEF TypeOK, IInv, OwnTurn
<1>1. ASSUME Acquire PROVE OwnTurn'
  BY <1>1 DEF Acquire, hostVars, promptVars
<1>2. ASSUME Open PROVE OwnTurn'
  BY <1>2 DEF Open, hostVars, promptVars
<1>3. ASSUME OpenFails PROVE OwnTurn'
  BY <1>3 DEF OpenFails, hostVars, promptVars
<1>4. ASSUME Close PROVE OwnTurn'
  BY <1>4 DEF Close, hostVars, promptVars
<1>5. ASSUME Remove PROVE OwnTurn'
  BY <1>5 DEF Remove, hostVars, promptVars
<1>6. ASSUME Unlock PROVE OwnTurn'
  BY <1>6 DEF Unlock, hostVars, promptVars
<1>7. ASSUME NEW q \in Prompts \cup {Nobody}, Reserve(q) PROVE OwnTurn'
  <2>1. /\ transitions # <<>> /\ Head(transitions).for = q /\ transitions' = Tail(transitions)
        /\ \A p \in Prompts : p # q => pc'[p] = pc[p]
    BY <1>7 DEF Reserve, Advance
  <2>2. QED
    BY <2>1, OwnPop
<1>8. ASSUME NEW q \in Prompts \cup {Nobody}, Mark(q) PROVE OwnTurn'
  <2>1. /\ transitions # <<>> /\ Head(transitions).for = q
        /\ \A p \in Prompts : p # q => pc'[p] = pc[p]
        /\ \/ transitions' = Tail(transitions)
           \/ /\ transitions' = Append(Tail(transitions), [op |-> "release", for |-> q])
              /\ pc' = [pc EXCEPT ![q] = "unreserving"]
    BY <1>8 DEF Mark, Advance, SendFails
  <2>2. /\ Own(Tail(transitions), pc')
        /\ \A j \in DOMAIN Tail(transitions) : Tail(transitions)[j].for = q => q \notin Prompts
        /\ Tail(transitions) \in Seq(Operation)
    BY <2>1, OwnPop, QueueShrinks
  <2>3. CASE /\ transitions' = Append(Tail(transitions), [op |-> "release", for |-> q])
             /\ pc' = [pc EXCEPT ![q] = "unreserving"]
    <3>1. q \in Prompts => pc'[q] = Stage("release")
      BY <2>3 DEF Stage
    <3>2. QED
      BY <2>2, <2>3, <3>1, OwnPush
  <2>4. QED
    BY <2>1, <2>2, <2>3
<1>9. ASSUME NEW q \in Prompts \cup {Nobody}, Release(q) PROVE OwnTurn'
  <2>1. /\ transitions # <<>> /\ Head(transitions).for = q /\ transitions' = Tail(transitions)
        /\ \A p \in Prompts : p # q => pc'[p] = pc[p]
    BY <1>9 DEF Release, Advance
  <2>2. QED
    BY <2>1, OwnPop
<1>10. ASSUME NEW q \in Prompts, Begin(q) PROVE OwnTurn'
  <2>1. \A j \in DOMAIN transitions : transitions[j].for # q
    BY <1>10, NothingAwaited DEF Begin
  <2>2. /\ \A p \in Prompts : p # q => pc'[p] = pc[p]
        /\ \/ transitions' = transitions
           \/ /\ transitions' = Append(transitions, [op |-> "reserve", for |-> q])
              /\ pc'[q] = "reserving"
    BY <1>10 DEF Begin, Enqueue
  <2>3. CASE transitions' = transitions
    BY <2>1, <2>2, <2>3 DEF Own
  <2>4. CASE /\ transitions' = Append(transitions, [op |-> "reserve", for |-> q])
             /\ pc'[q] = "reserving"
    <3>1. pc'[q] = Stage("reserve")
      BY <2>4 DEF Stage
    <3>2. Own(transitions, pc')
      BY <2>1, <2>2 DEF Own
    <3>3. Own(Append(transitions, [op |-> "reserve", for |-> q]), pc')
      BY <2>1, <3>1, <3>2, OwnPush
    <3>4. QED
      BY <2>4, <3>3
  <2>5. QED
    BY <2>2, <2>3, <2>4
<1>11. ASSUME NEW q \in Prompts, Check(q) PROVE OwnTurn'
  <2>1. \A j \in DOMAIN transitions : transitions[j].for # q
    BY <1>11, NothingAwaited DEF Check
  <2>2. /\ \A p \in Prompts : p # q => pc'[p] = pc[p]
        /\ \/ transitions' = transitions
           \/ /\ transitions' = Append(transitions, [op |-> "release", for |-> q])
              /\ pc'[q] = "unreserving"
    BY <1>11 DEF Check, Enqueue
  <2>3. CASE transitions' = transitions
    BY <2>1, <2>2, <2>3 DEF Own
  <2>4. CASE /\ transitions' = Append(transitions, [op |-> "release", for |-> q])
             /\ pc'[q] = "unreserving"
    <3>1. pc'[q] = Stage("release")
      BY <2>4 DEF Stage
    <3>2. Own(transitions, pc')
      BY <2>1, <2>2 DEF Own
    <3>3. Own(Append(transitions, [op |-> "release", for |-> q]), pc')
      BY <2>1, <3>1, <3>2, OwnPush
    <3>4. QED
      BY <2>4, <3>3
  <2>5. QED
    BY <2>2, <2>3, <2>4
<1>12. ASSUME NEW q \in Prompts, Answer(q) PROVE OwnTurn'
  <2>1. \A j \in DOMAIN transitions : transitions[j].for # q
    BY <1>12, NothingAwaited DEF Answer
  <2>2. /\ \A p \in Prompts : p # q => pc'[p] = pc[p]
        /\ \/ transitions' = transitions
           \/ /\ transitions' = Append(transitions, [op |-> "mark", for |-> q])
              /\ pc'[q] = "marking"
    BY <1>12 DEF Answer, Enqueue
  <2>3. CASE transitions' = transitions
    BY <2>1, <2>2, <2>3 DEF Own
  <2>4. CASE /\ transitions' = Append(transitions, [op |-> "mark", for |-> q])
             /\ pc'[q] = "marking"
    <3>1. pc'[q] = Stage("mark")
      BY <2>4 DEF Stage
    <3>2. Own(transitions, pc')
      BY <2>1, <2>2 DEF Own
    <3>3. Own(Append(transitions, [op |-> "mark", for |-> q]), pc')
      BY <2>1, <3>1, <3>2, OwnPush
    <3>4. QED
      BY <2>4, <3>3
  <2>5. QED
    BY <2>2, <2>3, <2>4
<1>13. ASSUME NEW q \in Prompts, Reject(q) PROVE OwnTurn'
  <2>1. \A j \in DOMAIN transitions : transitions[j].for # q
    BY <1>13, NothingAwaited DEF Reject
  <2>2. /\ \A p \in Prompts : p # q => pc'[p] = pc[p]
        /\ \/ transitions' = transitions
           \/ /\ transitions' = Append(transitions, [op |-> "release", for |-> q])
              /\ pc'[q] = "unreserving"
    BY <1>13 DEF Reject, SendFails
  <2>3. CASE transitions' = transitions
    BY <2>1, <2>2, <2>3 DEF Own
  <2>4. CASE /\ transitions' = Append(transitions, [op |-> "release", for |-> q])
             /\ pc'[q] = "unreserving"
    <3>1. pc'[q] = Stage("release")
      BY <2>4 DEF Stage
    <3>2. Own(transitions, pc')
      BY <2>1, <2>2 DEF Own
    <3>3. Own(Append(transitions, [op |-> "release", for |-> q]), pc')
      BY <2>1, <3>1, <3>2, OwnPush
    <3>4. QED
      BY <2>4, <3>3
  <2>5. QED
    BY <2>2, <2>3, <2>4
<1>14. ASSUME Work PROVE OwnTurn'
  BY <1>14 DEF Work, hostVars, promptVars
<1>15. ASSUME Restart PROVE OwnTurn'
  BY <1>15 DEF Restart, hostVars, promptVars
<1>16. ASSUME TornDown PROVE OwnTurn'
  BY <1>16 DEF TornDown, hostVars, promptVars
<1>17. ASSUME Exit PROVE OwnTurn'
  BY <1>17 DEF Exit, hostVars, promptVars
<1>18. ASSUME RestartDrained PROVE OwnTurn'
  <2>1. transitions' = Append(transitions, [op |-> "release", for |-> Nobody]) /\ pc' = pc
    BY <1>18 DEF RestartDrained, Enqueue, promptVars
  <2>2. QED
    BY <2>1, OwnPush, HoldersAssumption
<1>19. ASSUME CloseDrained PROVE OwnTurn'
  <2>1. transitions' = Append(transitions, [op |-> "release", for |-> Nobody]) /\ pc' = pc
    BY <1>19 DEF CloseDrained, Enqueue, promptVars
  <2>2. QED
    BY <2>1, OwnPush, HoldersAssumption
<1>20. ASSUME Restarted PROVE OwnTurn'
  BY <1>20 DEF Restarted, hostVars, promptVars
<1>21. ASSUME CloseReleased PROVE OwnTurn'
  BY <1>21 DEF CloseReleased, hostVars, promptVars
<1>22. ASSUME Kill PROVE OwnTurn'
  <2>1. transitions' = <<>>
    BY <1>22 DEF Kill
  <2>2. QED
    BY <2>1 DEF Own
<1>23. ASSUME Age PROVE OwnTurn'
  BY <1>23 DEF Age, hostVars, promptVars
<1>24. ASSUME NEW s \in Scanners, ScanSee(s) PROVE OwnTurn'
  BY <1>24 DEF ScanSee, hostVars, promptVars
<1>25. ASSUME NEW s \in Scanners, ScanAcquire(s) PROVE OwnTurn'
  BY <1>25 DEF ScanAcquire, hostVars, promptVars
<1>26. ASSUME NEW s \in Scanners, ScanClean(s) PROVE OwnTurn'
  BY <1>26 DEF ScanClean, hostVars, promptVars
<1>27. ASSUME NEW s \in Scanners, ScanRelease(s) PROVE OwnTurn'
  BY <1>27 DEF ScanRelease, hostVars, promptVars
<1>28. ASSUME NEW s \in Scanners, ScanKill(s) PROVE OwnTurn'
  BY <1>28 DEF ScanKill, hostVars, promptVars
<1>29. ASSUME UNCHANGED vars PROVE OwnTurn'
  BY <1>29 DEF vars, hostVars, promptVars
<1>30. QED
  BY <1>1, <1>2, <1>3, <1>4, <1>5, <1>6, <1>7, <1>8, <1>9, <1>10, <1>11, <1>12, <1>13, <1>14,
     <1>15, <1>16, <1>17, <1>18, <1>19, <1>20, <1>21, <1>22, <1>23, <1>24, <1>25, <1>26,
     <1>27, <1>28, <1>29 DEF Next, ChatStep, UserStep, ScanStep, Over

\* The generations and the restart stay in step.
LEMMA GenerationsStep == ASSUME IInv, OwnTurn, Generations, TypeOK', [Next]_vars PROVE Generations'
<1> USE DEF TypeOK, IInv, RuntimeInChat, Generations
<1>1. ASSUME Acquire PROVE Generations'
  BY <1>1 DEF Acquire, hostVars, promptVars, Queued
<1>2. ASSUME Open PROVE Generations'
  BY <1>2 DEF Open, hostVars, promptVars, Queued
<1>3. ASSUME OpenFails PROVE Generations'
  BY <1>3 DEF OpenFails, Cleanup, hostVars, promptVars, Queued
<1>4. ASSUME Close PROVE Generations'
  BY <1>4 DEF Close, hostVars, promptVars, Queued
<1>5. ASSUME Remove PROVE Generations'
  BY <1>5 DEF Remove, Cleanup, hostVars, promptVars, Queued
<1>6. ASSUME Unlock PROVE Generations'
  BY <1>6 DEF Unlock, hostVars, promptVars, Queued
<1>7. ASSUME NEW q \in Prompts \cup {Nobody}, Reserve(q) PROVE Generations'
  <2>1. /\ transitions # <<>> /\ Head(transitions) = [op |-> "reserve", for |-> q]
        /\ transitions' = Tail(transitions)
    BY <1>7 DEF Reserve
  <2>2. Queued' \subseteq Queued
    BY <2>1, QueueShrinks DEF Queued
  <2>3. q \in Prompts => pc[q] # "idle"
    BY <2>1, HeadStage
  <2>4. \A p \in Prompts : pc'[p] = "idle" <=> pc[p] = "idle"
    BY <1>7, <2>3 DEF Reserve, Advance
  <2>5. UNCHANGED <<session, omp, generation, restarting, sentTo>> /\ session # "dead"
    BY <1>7 DEF Reserve
  <2>6. QED
    BY <2>2, <2>4, <2>5
<1>8. ASSUME NEW q \in Prompts \cup {Nobody}, Mark(q) PROVE Generations'
  <2>1. \A e \in Queued' : e.for = Nobody => e \in Queued
    BY <1>8, MarkQueue
  <2>2. q \in Prompts /\ pc[q] = "marking"
    <3>1. transitions # <<>> /\ Head(transitions) = [op |-> "mark", for |-> q]
      BY <1>8 DEF Mark
    <3>2. q \in Prompts
      BY <1>8, MarkQueue
    <3>3. QED
      BY <3>1, <3>2, HeadStage
  <2>3. \A p \in Prompts : pc'[p] = "idle" <=> pc[p] = "idle"
    BY <1>8, <2>2 DEF Mark, Advance, SendFails
  <2>4. UNCHANGED <<session, omp, generation, restarting, sentTo>> /\ session # "dead"
    BY <1>8 DEF Mark
  <2>5. QED
    BY <2>1, <2>3, <2>4
<1>9. ASSUME NEW q \in Prompts \cup {Nobody}, Release(q) PROVE Generations'
  <2>1. /\ transitions # <<>> /\ Head(transitions) = [op |-> "release", for |-> q]
        /\ transitions' = Tail(transitions)
    BY <1>9 DEF Release
  <2>2. Queued' \subseteq Queued
    BY <2>1, QueueShrinks DEF Queued
  <2>3. q \in Prompts => pc[q] # "idle"
    BY <2>1, HeadStage
  <2>4. \A p \in Prompts : pc'[p] = "idle" <=> pc[p] = "idle"
    BY <1>9, <2>3 DEF Release, Advance
  <2>5. UNCHANGED <<session, omp, generation, restarting, sentTo>> /\ session # "dead"
    BY <1>9 DEF Release
  <2>6. QED
    BY <2>2, <2>4, <2>5
<1>10. ASSUME NEW q \in Prompts, Begin(q) PROVE Generations'
  <2>1. \A e \in Queued' \ Queued : e.for # Nobody
    BY <1>10, QueueGrows DEF Begin, Queued, Operation
  <2>2. QED
    BY <1>10, <2>1 DEF Begin, Enqueue, hostVars, promptVars
<1>11. ASSUME NEW q \in Prompts, Check(q) PROVE Generations'
  <2>1. \A e \in Queued' \ Queued : e.for # Nobody
    BY <1>11, QueueGrows DEF Check, Queued, Operation
  <2>2. QED
    BY <1>11, <2>1 DEF Check, Enqueue, SameRuntime, Closing, Alive, hostVars, promptVars
<1>12. ASSUME NEW q \in Prompts, Answer(q) PROVE Generations'
  <2>1. \A e \in Queued' \ Queued : e.for # Nobody
    BY <1>12, QueueGrows DEF Answer, Queued, Operation
  <2>2. QED
    BY <1>12, <2>1 DEF Answer, Enqueue, hostVars, promptVars
<1>13. ASSUME NEW q \in Prompts, Reject(q) PROVE Generations'
  <2>1. \A e \in Queued' \ Queued : e.for # Nobody
    <3>1. \/ Queued' = Queued \/ Queued' = Queued \cup {[op |-> "release", for |-> q]}
      BY <1>13, CatchOfSend DEF Reject, Queued
    <3>2. [op |-> "release", for |-> q].for # Nobody
      OBVIOUS
    <3>3. QED
      BY <3>1, <3>2
  <2>2. pc' = [pc EXCEPT ![q] = "unreserving"] \/ pc' = [pc EXCEPT ![q] = "returned"]
    BY <1>13, CatchOfSend DEF Reject
  <2>3. QED
    BY <1>13, <2>1, <2>2 DEF Reject
<1>14. ASSUME Work PROVE Generations'
  BY <1>14 DEF Work, hostVars, promptVars, Queued
<1>15. ASSUME Restart PROVE Generations'
  BY <1>15 DEF Restart, hostVars, promptVars, Queued
<1>16. ASSUME TornDown PROVE Generations'
  BY <1>16 DEF TornDown, hostVars, promptVars, Queued
<1>17. ASSUME Exit PROVE Generations'
  BY <1>17 DEF Exit, hostVars, promptVars, Queued
<1>18. ASSUME RestartDrained PROVE Generations'
  BY <1>18 DEF RestartDrained, promptVars
<1>19. ASSUME CloseDrained PROVE Generations'
  BY <1>19 DEF CloseDrained, promptVars
<1>20. ASSUME Restarted PROVE Generations'
  <2>1. Queued' = Queued /\ \A e \in Queued : e.for # Nobody
    BY <1>20 DEF Restarted, NoneQueued, Queued, Elements, hostVars
  <2>2. QED
    BY <1>20, <2>1 DEF Restarted, promptVars
<1>21. ASSUME CloseReleased PROVE Generations'
  <2>1. Queued' = Queued /\ \A e \in Queued : e.for # Nobody
    BY <1>21 DEF CloseReleased, NoneQueued, Queued, Elements, hostVars
  <2>2. QED
    BY <1>21, <2>1 DEF CloseReleased, promptVars
<1>22. ASSUME Kill PROVE Generations'
  <2>1. Queued' = {}
    BY <1>22 DEF Kill, Queued, Elements
  <2>2. QED
    BY <1>22, <2>1 DEF Kill, promptVars
<1>23. ASSUME Age PROVE Generations'
  BY <1>23 DEF Age, hostVars, promptVars, Queued
<1>24. ASSUME NEW s \in Scanners, ScanSee(s) PROVE Generations'
  BY <1>24 DEF ScanSee, hostVars, promptVars, Queued
<1>25. ASSUME NEW s \in Scanners, ScanAcquire(s) PROVE Generations'
  BY <1>25 DEF ScanAcquire, hostVars, promptVars, Queued
<1>26. ASSUME NEW s \in Scanners, ScanClean(s) PROVE Generations'
  BY <1>26 DEF ScanClean, Cleanup, hostVars, promptVars, Queued
<1>27. ASSUME NEW s \in Scanners, ScanRelease(s) PROVE Generations'
  BY <1>27 DEF ScanRelease, hostVars, promptVars, Queued
<1>28. ASSUME NEW s \in Scanners, ScanKill(s) PROVE Generations'
  BY <1>28 DEF ScanKill, Fault, hostVars, promptVars, Queued
<1>29. ASSUME UNCHANGED vars PROVE Generations'
  BY <1>29 DEF vars, hostVars, promptVars, Queued
<1>30. QED
  BY <1>1, <1>2, <1>3, <1>4, <1>5, <1>6, <1>7, <1>8, <1>9, <1>10, <1>11, <1>12, <1>13, <1>14,
     <1>15, <1>16, <1>17, <1>18, <1>19, <1>20, <1>21, <1>22, <1>23, <1>24, <1>25, <1>26,
     <1>27, <1>28, <1>29 DEF Next, ChatStep, UserStep, ScanStep, Over

\* Nothing takes the reservation from under the only prompt.
LEMMA OnlyPromptStep ==
  ASSUME SinglePrompt, AnswerInv, IInv', [Next]_vars
  PROVE  OnlyPrompt'
<1> USE DEF TypeOK, IInv, AnswerInv, OnlyPrompt, Alive
<1>1. ASSUME Acquire PROVE OnlyPrompt'
  BY <1>1 DEF Acquire, hostVars, promptVars, SinglePrompt, RuntimeInChat, Generations,
     MarkerFollows, ReservationKeeps
<1>2. ASSUME Open PROVE OnlyPrompt'
  BY <1>2 DEF Open, hostVars, promptVars, SinglePrompt, RuntimeInChat, Generations,
     MarkerFollows, ReservationKeeps
<1>3. ASSUME OpenFails PROVE OnlyPrompt'
  BY <1>3 DEF OpenFails, Cleanup, hostVars, promptVars, SinglePrompt, RuntimeInChat,
     Generations, MarkerFollows, ReservationKeeps
<1>4. ASSUME Close PROVE OnlyPrompt'
  BY <1>4 DEF Close, hostVars, promptVars, SinglePrompt, RuntimeInChat, Generations,
     MarkerFollows, ReservationKeeps
<1>5. ASSUME Remove PROVE OnlyPrompt'
  BY <1>5 DEF Remove, Cleanup, hostVars, promptVars, SinglePrompt, RuntimeInChat, Generations,
     MarkerFollows, ReservationKeeps
<1>6. ASSUME Unlock PROVE OnlyPrompt'
  BY <1>6 DEF Unlock, hostVars, promptVars, SinglePrompt, RuntimeInChat, Generations,
     MarkerFollows, ReservationKeeps
<1>7. ASSUME NEW q \in Prompts \cup {Nobody}, Reserve(q) PROVE OnlyPrompt'
  <2>1. transitions # <<>> /\ Head(transitions) = [op |-> "reserve", for |-> q]
    BY <1>7 DEF Reserve
  <2>2. q # Nobody
    <3>1. [op |-> "reserve", for |-> q] \in Queued
      BY <2>1, QueueShrinks
    <3>2. [op |-> "reserve", for |-> q].op # "release" /\ [op |-> "reserve", for |-> q].for = q
      OBVIOUS
    <3>3. QED
      BY <3>1, <3>2 DEF ReservationKeeps
  <2>3. pc[q] = "reserving" /\ ~accepted /\ ~reserved /\ \A p \in Prompts : p = q
    BY <2>1, <2>2, HeadStage DEF SinglePrompt
  <2>4. \/ pc'[q] = "returned"
        \/ pc'[q] = "checking" /\ (session = "open" => reserved' /\ mine'[q])
    BY <1>7, <2>2, <2>3 DEF Reserve, Advance, Closing
  <2>5. UNCHANGED <<tree, session, accepted, answered>> /\ (faults' = 0 => faults = 0)
    BY <1>7 DEF Reserve, Fault
  <2>6. QED
    BY <2>3, <2>4, <2>5
<1>8. ASSUME NEW q \in Prompts \cup {Nobody}, Mark(q) PROVE OnlyPrompt'
  <2>1. transitions # <<>> /\ Head(transitions) = [op |-> "mark", for |-> q] /\ q \in Prompts
    BY <1>8, MarkQueue DEF Mark
  <2>2. pc[q] = "marking" /\ \A p \in Prompts : p = q
    BY <2>1, HeadStage DEF SinglePrompt
  <2>3. reserved /\ ~accepted /\ tree = "present"
    BY <2>1, <2>2 DEF RuntimeInChat, ReservationKeeps
  <2>4. \/ pc'[q] = "taken" /\ accepted'
        \/ pc'[q] \in {"unreserving", "returned"} /\ faults' # 0
    <3>1. CASE SendFails(q, Tail(transitions)) /\ Fault
      <4>1. pc' = [pc EXCEPT ![q] = "unreserving"] \/ pc' = [pc EXCEPT ![q] = "returned"]
        BY <2>1, <3>1, CatchOfSend, QueueShrinks
      <4>2. faults' # 0
        BY <3>1 DEF Fault
      <4>3. QED
        BY <2>1, <4>1, <4>2
    <3>2. CASE accepted' = TRUE /\ Advance(q, "taken")
      BY <2>1, <3>2, HoldersAssumption DEF Advance
    <3>3. QED
      BY <1>8, <2>3, <3>1, <3>2 DEF Mark
  <2>5. UNCHANGED <<tree, session, answered>> /\ (faults' = 0 => faults = 0)
    BY <1>8 DEF Mark, Fault
  <2>6. QED
    BY <2>2, <2>3, <2>4, <2>5
<1>9. ASSUME NEW q \in Prompts \cup {Nobody}, Release(q) PROVE OnlyPrompt'
  <2>1. /\ transitions # <<>> /\ Head(transitions) = [op |-> "release", for |-> q]
        /\ session # "dead" /\ ~reserved'
    BY <1>9 DEF Release, RuntimeInChat, ReservationKeeps
  <2>2. UNCHANGED <<tree, session, accepted, answered, sentTo, generation, restarting, omp>>
        /\ (faults' = 0 => faults = 0)
    BY <1>9 DEF Release, Fault
  <2>3. SUFFICES ASSUME NEW p \in Prompts
                 PROVE  /\ pc'[p] \in {"idle", "reserving"} => ~accepted
                        /\ ~(pc'[p] = "checking" /\ session = "open" /\ sentTo[p] = generation)
                        /\ pc'[p] \notin {"inflight", "marking"}
                        /\ p \in answered /\ faults = 0 => tree = "present" /\ accepted
    BY <2>1, <2>2
  <2>4. CASE q = p
    BY <1>9, <2>1, <2>4, HeadStage DEF Release, Advance
  <2>5. CASE q # p
    <3>1. q = Nobody /\ pc' = pc
      BY <1>9, <2>5 DEF Release, Advance, SinglePrompt
    <3>2. [op |-> "release", for |-> Nobody] \in Queued
      BY <2>1, <3>1, QueueShrinks
    <3>3. restarting = "releasing" \/ session = "releasing"
      BY <3>2 DEF Generations
    <3>4. pc[p] \notin {"inflight", "marking"}
      BY <2>1, <3>1
    <3>5. QED
      BY <3>1, <3>3, <3>4 DEF Generations
  <2>6. QED
    BY <2>4, <2>5
<1>10. ASSUME NEW q \in Prompts, Begin(q) PROVE OnlyPrompt'
  BY <1>10 DEF Begin, Enqueue, hostVars, promptVars, SinglePrompt, RuntimeInChat, Generations,
     MarkerFollows, ReservationKeeps
<1>11. ASSUME NEW q \in Prompts, Check(q) PROVE OnlyPrompt'
  <2>1. pc[q] = "checking" /\ \A p \in Prompts : p = q
    BY <1>11 DEF Check, SinglePrompt
  <2>2. UNCHANGED <<tree, session, accepted, answered, reserved, mine, omp, faults>>
    BY <1>11 DEF Check
  <2>3. CASE pc' = [pc EXCEPT ![q] = "inflight"] /\ UNCHANGED transitions /\ SameRuntime(q)
    <3>1. omp = "running" /\ session = "open" /\ sentTo[q] = generation
      BY <2>3 DEF SameRuntime, Closing
    <3>2. \A j \in DOMAIN transitions : transitions[j].for \notin {q, Nobody}
      <4>1. \A j \in DOMAIN transitions : transitions[j].for # q
        BY <2>1, NothingAwaited
      <4>2. ~\E e \in Queued : e.for = Nobody
        BY <3>1 DEF Generations
      <4>3. QED
        BY <4>1, <4>2 DEF Queued, Elements
    <3>3. \A j \in DOMAIN transitions : transitions[j].for \in {q, Nobody}
      <4>1. \A j \in DOMAIN transitions : transitions[j] \in Operation
        OBVIOUS
      <4>2. QED
        BY <2>1, <4>1 DEF Operation
    <3>4. transitions = <<>>
      <4>1. Len(transitions) \in Nat /\ DOMAIN transitions = 1..Len(transitions)
        OBVIOUS
      <4>2. 1 \notin DOMAIN transitions
        BY <3>2, <3>3
      <4>3. Len(transitions) = 0
        BY <4>1, <4>2
      <4>4. QED
        BY <4>3
    <3>5. QED
      BY <2>1, <2>2, <2>3, <3>1, <3>4
  <2>4. CASE pc' = [pc EXCEPT ![q] = "unreserving"] \/ pc' = [pc EXCEPT ![q] = "returned"]
    BY <2>1, <2>2, <2>4
  <2>5. QED
    BY <1>11, <2>3, <2>4 DEF Check
<1>12. ASSUME NEW q \in Prompts, Answer(q) PROVE OnlyPrompt'
  BY <1>12 DEF Answer, Enqueue, hostVars, promptVars, SinglePrompt, RuntimeInChat,
     Generations, MarkerFollows, ReservationKeeps
<1>13. ASSUME NEW q \in Prompts, Reject(q) PROVE OnlyPrompt'
  BY <1>13 DEF Reject, SendFails, Alive, hostVars, promptVars, SinglePrompt, RuntimeInChat,
     Generations, MarkerFollows, ReservationKeeps
<1>14. ASSUME Work PROVE OnlyPrompt'
  BY <1>14 DEF Work, hostVars, promptVars, SinglePrompt, RuntimeInChat, Generations,
     MarkerFollows, ReservationKeeps
<1>15. ASSUME Restart PROVE OnlyPrompt'
  BY <1>15 DEF Restart, hostVars, promptVars, SinglePrompt, RuntimeInChat, Generations,
     MarkerFollows, ReservationKeeps
<1>16. ASSUME TornDown PROVE OnlyPrompt'
  BY <1>16 DEF TornDown, hostVars, promptVars, SinglePrompt, RuntimeInChat, Generations,
     MarkerFollows, ReservationKeeps
<1>17. ASSUME Exit PROVE OnlyPrompt'
  BY <1>17 DEF Exit, hostVars, promptVars, SinglePrompt, RuntimeInChat, Generations,
     MarkerFollows, ReservationKeeps
<1>18. ASSUME RestartDrained PROVE OnlyPrompt'
  <2>1. /\ transitions' = Append(transitions, [op |-> "release", for |-> Nobody]) /\ omp = "none"
        /\ UNCHANGED <<tree, session, accepted, answered, reserved, mine, omp, faults, generation,
                       pc, sentTo>>
    BY <1>18 DEF RestartDrained, Enqueue, promptVars
  <2>2. transitions # <<>> => transitions' # <<>> /\ Head(transitions') = Head(transitions)
    BY <2>1, HeadStays
  <2>3. QED
    BY <2>1, <2>2
<1>19. ASSUME CloseDrained PROVE OnlyPrompt'
  <2>1. /\ transitions' = Append(transitions, [op |-> "release", for |-> Nobody]) /\ omp = "none"
        /\ session = "closing" /\ session' = "releasing"
        /\ UNCHANGED <<tree, accepted, answered, reserved, mine, omp, faults, generation, pc,
                       sentTo>>
    BY <1>19 DEF CloseDrained, Enqueue, promptVars
  <2>2. transitions # <<>> => transitions' # <<>> /\ Head(transitions') = Head(transitions)
    BY <2>1, HeadStays
  <2>3. QED
    BY <2>1, <2>2
<1>20. ASSUME Restarted PROVE OnlyPrompt'
  BY <1>20 DEF Restarted, NoneQueued, hostVars, promptVars, SinglePrompt, RuntimeInChat,
     Generations, MarkerFollows, ReservationKeeps
<1>21. ASSUME CloseReleased PROVE OnlyPrompt'
  BY <1>21 DEF CloseReleased, NoneQueued, hostVars, promptVars, SinglePrompt, RuntimeInChat,
     Generations, MarkerFollows, ReservationKeeps
<1>22. ASSUME Kill PROVE OnlyPrompt'
  BY <1>22 DEF Kill, hostVars, promptVars, SinglePrompt, RuntimeInChat, Generations,
     MarkerFollows, ReservationKeeps
<1>23. ASSUME Age PROVE OnlyPrompt'
  BY <1>23 DEF Age, hostVars, promptVars, SinglePrompt, RuntimeInChat, Generations,
     MarkerFollows, ReservationKeeps
<1>24. ASSUME NEW s \in Scanners, ScanSee(s) PROVE OnlyPrompt'
  BY <1>24 DEF ScanSee, hostVars, promptVars, SinglePrompt, RuntimeInChat, Generations,
     MarkerFollows, ReservationKeeps
<1>25. ASSUME NEW s \in Scanners, ScanAcquire(s) PROVE OnlyPrompt'
  BY <1>25 DEF ScanAcquire, hostVars, promptVars, SinglePrompt, RuntimeInChat, Generations,
     MarkerFollows, ReservationKeeps
<1>26. ASSUME NEW s \in Scanners, ScanClean(s) PROVE OnlyPrompt'
  BY <1>26 DEF ScanClean, Cleanup, hostVars, promptVars, SinglePrompt, RuntimeInChat,
     Generations, MarkerFollows, ReservationKeeps
<1>27. ASSUME NEW s \in Scanners, ScanRelease(s) PROVE OnlyPrompt'
  BY <1>27 DEF ScanRelease, hostVars, promptVars, SinglePrompt, RuntimeInChat, Generations,
     MarkerFollows, ReservationKeeps
<1>28. ASSUME NEW s \in Scanners, ScanKill(s) PROVE OnlyPrompt'
  BY <1>28 DEF ScanKill, Fault, hostVars, promptVars, SinglePrompt, RuntimeInChat,
     Generations, MarkerFollows, ReservationKeeps
<1>29. ASSUME UNCHANGED vars PROVE OnlyPrompt'
  BY <1>29 DEF vars, hostVars, promptVars, SinglePrompt, RuntimeInChat, Generations,
     MarkerFollows, ReservationKeeps
<1>30. QED
  BY <1>1, <1>2, <1>3, <1>4, <1>5, <1>6, <1>7, <1>8, <1>9, <1>10, <1>11, <1>12, <1>13, <1>14,
     <1>15, <1>16, <1>17, <1>18, <1>19, <1>20, <1>21, <1>22, <1>23, <1>24, <1>25, <1>26,
     <1>27, <1>28, <1>29 DEF Next, ChatStep, UserStep, ScanStep, Over

\* With a single prompt, the whole invariant holds in every reachable state.
LEMMA AnswerInvariance == ASSUME SinglePrompt PROVE Spec => []AnswerInv
<1>1. Init => OwnTurn /\ Generations /\ OnlyPrompt
  <2> SUFFICES ASSUME Init PROVE OwnTurn /\ Generations /\ OnlyPrompt
    OBVIOUS
  <2>1. transitions = <<>> /\ Queued = {}
    BY DEF Init, Queued, Elements
  <2>2. QED
    BY <2>1 DEF Init, OwnTurn, Own, Generations, OnlyPrompt
<1>2. AnswerInv /\ IInv' /\ [Next]_vars => AnswerInv'
  BY OwnTurnStep, GenerationsStep, OnlyPromptStep DEF AnswerInv, IInv
<1>3. QED
  BY <1>1, <1>2, Invariance, PTL DEF Spec, AnswerInv

\* A worktree in which OMP acknowledged its only prompt stays, however the chat goes on
\* and ends, unless a file operation failed (markFirstPromptAccepted).
THEOREM AcknowledgedKept == ASSUME SinglePrompt PROVE Spec => []AnsweredKept
<1>1. AnswerInv => AnsweredKept
  BY DEF AnswerInv, OnlyPrompt, AnsweredKept, IInv, TypeOK
<1>2. QED
  BY <1>1, AnswerInvariance, PTL

====
