--------------------------- MODULE EphemeralWorktree ---------------------------
(***************************************************************************)
(* The ownership of a worktree that the extension created for one chat.    *)
(*                                                                         *)
(* A marker file says that nobody used the worktree yet ("unused"), that   *)
(* its first prompt is under way ("prompting"), or, when it is gone, that  *)
(* the worktree is the user's (ephemeralWorktree.ts).  The chat moves it   *)
(* through a queue of first-prompt transitions (RpcSessionHost.ts), closes *)
(* by cleaning up an unused worktree, and holds the writer lease           *)
(* meanwhile.  Other windows scan for markers that a killed window left    *)
(* behind and clean up under the lease (SessionManager.ts).                *)
(*                                                                         *)
(* The lease is the lock of WriterLock.  A transition is one step: nothing *)
(* outside of it reads what it changes while it runs, except a crash, for  *)
(* which Kill has the half-written marker.                                 *)
(***************************************************************************)
EXTENDS Naturals, Sequences

CONSTANTS Prompts,        \* prompts the user or the startup sends
          Scanners,       \* other windows
          MaxRestarts,    \* bound on restarts of the chat
          MaxFaults,      \* bound on file operations that fail and on kills
                          \* of a scanning window
          Chat,           \* the chat's window as holder of the lease
          Nobody

ASSUME HoldersAssumption ==
  /\ Chat \notin Scanners /\ Nobody \notin Scanners /\ Chat # Nobody
  /\ Nobody \notin Prompts
ASSUME BoundsAssumption == MaxRestarts \in Nat /\ MaxFaults \in Nat

VARIABLES
  tree,        \* the worktree: "present" or "removed"
  pristine,    \* it holds nothing of anybody's work
  marker,      \* "unused", "prompting", "absent" or "torn" (not readable)
  old,         \* the marker is older than ORPHAN_RECOVERY_MIN_AGE_MS
  lease,       \* the holder of the writer lease
  session,     \* the life of the chat in SessionManager
  entry,       \* #ephemeralWorktrees has the worktree of the chat
  omp,         \* the OMP process: "none", "running" or being "disposed"
  generation,  \* #rpcGeneration
  restarting,  \* where restart() stands
  reserved,    \* #firstPromptReserved
  accepted,    \* #firstPromptAccepted
  transitions, \* #firstPromptTransition: the queued operations
  pc,          \* pc[q]: where sendPrompt stands with prompt q
  mine,        \* mine[q]: its local variable reservedByThisPrompt
  sentTo,      \* sentTo[q]: the generation it was begun in
  answered,    \* prompts for which OMP answered with success
  faults,
  scan         \* scan[s]: where the recovery of window s stands

hostVars == <<reserved, accepted, transitions>>
promptVars == <<pc, mine, sentTo, answered>>
vars == <<tree, pristine, marker, old, lease, session, entry, omp, generation,
          restarting, hostVars, promptVars, faults, scan>>

\* An operation in the queue, and the prompt that awaits it.
Operation == [op : {"reserve", "mark", "release"}, for : Prompts \cup {Nobody}]

TypeOK ==
  /\ tree \in {"present", "removed"} /\ pristine \in BOOLEAN
  /\ marker \in {"unused", "prompting", "absent", "torn"} /\ old \in BOOLEAN
  /\ lease \in Scanners \cup {Chat, Nobody}
  /\ session \in {"provisioned", "leased", "open", "closing", "releasing",
                  "cleaning", "unlocking", "closed", "refused", "dead"}
  /\ entry \in BOOLEAN
  /\ omp \in {"none", "running", "disposed"}
  /\ generation \in 0..MaxRestarts
  /\ restarting \in {"no", "draining", "releasing"}
  /\ reserved \in BOOLEAN /\ accepted \in BOOLEAN
  /\ transitions \in Seq(Operation)
  /\ pc \in [Prompts -> {"idle", "reserving", "checking", "inflight", "marking",
                         "unreserving", "taken", "returned"}]
  /\ mine \in [Prompts -> BOOLEAN] /\ sentTo \in [Prompts -> 0..MaxRestarts]
  /\ answered \subseteq Prompts
  /\ faults \in 0..MaxFaults
  /\ scan \in [Scanners -> {"idle", "seen", "leased", "cleaned"}]

\* provisionGitWorktree has written the marker and returned.
Init ==
  /\ tree = "present" /\ pristine = TRUE /\ marker = "unused" /\ old = FALSE
  /\ lease = Nobody /\ session = "provisioned" /\ entry = FALSE
  /\ omp = "none" /\ generation = 0 /\ restarting = "no"
  /\ reserved = FALSE /\ accepted = FALSE /\ transitions = <<>>
  /\ pc = [q \in Prompts |-> "idle"] /\ mine = [q \in Prompts |-> FALSE]
  /\ sentTo = [q \in Prompts |-> 0] /\ answered = {}
  /\ faults = 0 /\ scan = [s \in Scanners |-> "idle"]

-------------------------------------------------------------------------------
(* Files.                                                                  *)

Fault == faults < MaxFaults /\ faults' = faults + 1

\* The repository's own cleanup script: it removes a worktree only when its
\* marker is unused and nothing in it changed, and fails otherwise.
Cleanup ==
  IF tree = "present" /\ marker = "unused" /\ pristine
    THEN tree' = "removed" /\ marker' = "absent"
    ELSE UNCHANGED <<tree, marker>>

-------------------------------------------------------------------------------
(* SessionManager: creating and closing the chat.                          *)

\* #createSession takes the lease of the fresh worktree, or gives up.
Acquire ==
  /\ session = "provisioned"
  /\ IF lease = Nobody /\ tree = "present"
       THEN session' = "leased" /\ lease' = Chat
       ELSE session' = "refused" /\ UNCHANGED lease
  /\ UNCHANGED <<tree, pristine, marker, old, entry, omp, generation, restarting, hostVars,
                 promptVars, faults, scan>>

\* The launch was planned and the chat opens with its first runtime.
Open ==
  /\ session = "leased"
  /\ session' = "open" /\ entry' = TRUE /\ omp' = "running"
  /\ UNCHANGED <<tree, pristine, marker, old, lease, generation, restarting, hostVars,
                 promptVars, faults, scan>>

\* The launch is refused: cleanupSelectedDirectory.
OpenFails ==
  /\ session = "leased"
  /\ Cleanup
  /\ session' = "unlocking"
  /\ UNCHANGED <<pristine, old, lease, entry, omp, generation, restarting, hostVars,
                 promptVars, faults, scan>>

\* dispose(): the runtime's requests are rejected, then its process goes.
Close ==
  /\ session = "open"
  /\ session' = "closing"
  /\ omp' = IF omp = "running" THEN "disposed" ELSE omp
  /\ UNCHANGED <<tree, pristine, marker, old, lease, entry, generation, restarting, hostVars,
                 promptVars, faults, scan>>

\* #remove: an unused worktree is cleaned up, under the lease of the chat ...
Remove ==
  /\ session = "cleaning"
  /\ IF entry THEN Cleanup ELSE UNCHANGED <<tree, marker>>
  /\ entry' = FALSE
  /\ session' = "unlocking"
  /\ UNCHANGED <<pristine, old, lease, omp, generation, restarting, hostVars, promptVars,
                 faults, scan>>

\* ... which is released in the end.
Unlock ==
  /\ session = "unlocking"
  /\ session' = "closed" /\ lease' = Nobody
  /\ UNCHANGED <<tree, pristine, marker, old, entry, omp, generation, restarting, hostVars,
                 promptVars, faults, scan>>

-------------------------------------------------------------------------------
(* The queue of first-prompt transitions.                                  *)

Enqueue(op, q) == transitions' = Append(transitions, [op |-> op, for |-> q])

\* Where prompt q goes when its operation is done (Nobody: restart or close).
Advance(q, next) == pc' = IF q = Nobody THEN pc ELSE [pc EXCEPT ![q] = next]

Closing == session # "open"
Alive == session # "dead"

\* The catch of sendPrompt, with the operations in rest still queued: the
\* reservation goes back if it was this prompt's own and none was accepted.
SendFails(q, rest) ==
  IF mine[q] /\ ~accepted
    THEN /\ pc' = [pc EXCEPT ![q] = "unreserving"]
         /\ transitions' = Append(rest, [op |-> "release", for |-> q])
    ELSE pc' = [pc EXCEPT ![q] = "returned"] /\ transitions' = rest

\* Mutated form of Reserve: the phase is kept in memory only.
ReserveUnwritten(q) ==
  /\ transitions # <<>> /\ Head(transitions) = [op |-> "reserve", for |-> q]
  /\ transitions' = Tail(transitions)
  /\ reserved' = TRUE /\ mine' = [mine EXCEPT ![q] = ~reserved]
  /\ Advance(q, "checking")
  /\ UNCHANGED <<tree, pristine, marker, old, lease, session, entry, omp, generation,
                 restarting, accepted, sentTo, answered, faults, scan>>

\* reserveFirstPrompt, with SessionManager's #reserveEphemeralWorktree; a marker
\* that cannot enter its phase sends the prompt back.
Reserve(q) ==
  /\ transitions # <<>> /\ Head(transitions) = [op |-> "reserve", for |-> q]
  /\ transitions' = Tail(transitions)
  /\ IF Closing \/ accepted \/ reserved
       THEN Advance(q, "checking") /\ UNCHANGED <<marker, reserved, mine, faults>>
       ELSE \/ /\ ~entry \/ marker = "unused"
               /\ marker' = IF entry THEN "prompting" ELSE marker
               /\ reserved' = TRUE /\ mine' = [mine EXCEPT ![q] = TRUE]
               /\ Advance(q, "checking")
               /\ UNCHANGED faults
            \/ /\ entry
               /\ \/ marker # "unused" /\ UNCHANGED faults
                  \/ marker = "unused" /\ Fault
               /\ Advance(q, "returned")
               /\ UNCHANGED <<marker, reserved, mine>>
  /\ UNCHANGED <<tree, pristine, old, lease, session, entry, omp, generation, restarting,
                 accepted, sentTo, answered, scan>>

\* Mutated form of Mark: the marker gets a phase of its own instead of going.
MarkAsPhase(q) ==
  /\ transitions # <<>> /\ Head(transitions) = [op |-> "mark", for |-> q]
  /\ transitions' = Tail(transitions)
  /\ marker' = IF entry /\ marker = "prompting" THEN "claimed" ELSE marker
  /\ entry' = FALSE /\ accepted' = TRUE /\ reserved' = FALSE
  /\ Advance(q, "taken")
  /\ UNCHANGED <<tree, pristine, old, lease, session, omp, generation, restarting, mine,
                 sentTo, answered, faults, scan>>

\* markFirstPromptAccepted, with #claimEphemeralWorktree: the marker is removed,
\* the removal fails, or there is no marker to claim (the worktree stays).
Mark(q) ==
  /\ transitions # <<>> /\ Head(transitions) = [op |-> "mark", for |-> q]
  /\ \/ /\ accepted \/ ~reserved
        /\ transitions' = Tail(transitions)
        /\ Advance(q, IF accepted THEN "taken" ELSE "returned")
        /\ UNCHANGED <<marker, reserved, accepted, entry, faults>>
     \/ /\ ~accepted /\ reserved
        /\ transitions' = Tail(transitions)
        /\ marker' = IF entry /\ marker = "prompting" THEN "absent" ELSE marker
        /\ entry' = FALSE /\ accepted' = TRUE /\ reserved' = FALSE
        /\ Advance(q, "taken")
        /\ UNCHANGED faults
     \/ /\ ~accepted /\ reserved /\ entry /\ marker = "prompting" /\ Fault
        /\ SendFails(q, Tail(transitions))
        /\ UNCHANGED <<marker, reserved, accepted, entry>>
  /\ UNCHANGED <<tree, pristine, old, lease, session, omp, generation, restarting, mine,
                 sentTo, answered, scan>>

\* releaseFirstPromptReservation, with #releaseEphemeralWorktreeReservation.
Release(q) ==
  /\ transitions # <<>> /\ Head(transitions) = [op |-> "release", for |-> q]
  /\ transitions' = Tail(transitions)
  /\ Advance(q, "returned")
  /\ IF ~reserved \/ accepted
       THEN UNCHANGED <<marker, reserved, entry, faults>>
       ELSE /\ reserved' = FALSE
            /\ \/ /\ entry /\ marker = "prompting"
                  /\ marker' = "unused"
                  /\ UNCHANGED <<entry, faults>>
               \/ /\ entry
                  /\ \/ marker # "prompting" /\ UNCHANGED faults
                     \/ marker = "prompting" /\ Fault
                  /\ entry' = FALSE
                  /\ UNCHANGED marker
               \/ ~entry /\ UNCHANGED <<marker, entry, faults>>
  /\ UNCHANGED <<tree, pristine, old, lease, session, omp, generation, restarting, accepted,
                 mine, sentTo, answered, scan>>

-------------------------------------------------------------------------------
(* sendPrompt                                                              *)

\* The chat takes the prompt when its runtime runs.
Begin(q) ==
  /\ session = "open" /\ omp = "running" /\ pc[q] = "idle"
  /\ sentTo' = [sentTo EXCEPT ![q] = generation]
  /\ IF accepted
       THEN pc' = [pc EXCEPT ![q] = "checking"] /\ UNCHANGED transitions
       ELSE pc' = [pc EXCEPT ![q] = "reserving"] /\ Enqueue("reserve", q)
  /\ UNCHANGED <<tree, pristine, marker, old, lease, session, entry, omp, generation,
                 restarting, reserved, accepted, mine, answered, faults, scan>>

\* Is the runtime still the one the prompt was begun with?
SameRuntime(q) == ~Closing /\ omp = "running" /\ sentTo[q] = generation

\* After the reservation everything is checked again, then OMP is asked.
Check(q) ==
  /\ Alive /\ pc[q] = "checking"
  /\ \/ /\ SameRuntime(q)
        /\ pc' = [pc EXCEPT ![q] = "inflight"] /\ UNCHANGED transitions
     \/ /\ ~SameRuntime(q) /\ mine[q]
        /\ pc' = [pc EXCEPT ![q] = "unreserving"] /\ Enqueue("release", q)
     \/ /\ ~SameRuntime(q) /\ ~mine[q]
        /\ pc' = [pc EXCEPT ![q] = "returned"] /\ UNCHANGED transitions
  /\ UNCHANGED <<tree, pristine, marker, old, lease, session, entry, omp, generation,
                 restarting, reserved, accepted, mine, sentTo, answered, faults, scan>>

\* OMP answers with success.
Answer(q) ==
  /\ pc[q] = "inflight" /\ omp = "running"
  /\ answered' = answered \cup {q}
  /\ pc' = [pc EXCEPT ![q] = "marking"] /\ Enqueue("mark", q)
  /\ UNCHANGED <<tree, pristine, marker, old, lease, session, entry, omp, generation,
                 restarting, reserved, accepted, mine, sentTo, faults, scan>>

\* The request is rejected: an error, a timeout, an exit or a disposal.
Reject(q) ==
  /\ Alive /\ pc[q] = "inflight"
  /\ SendFails(q, transitions)
  /\ UNCHANGED <<tree, pristine, marker, old, lease, session, entry, omp, generation,
                 restarting, reserved, accepted, mine, sentTo, answered, faults, scan>>

\* OMP, or the user, changes something in the worktree.
Work ==
  /\ tree = "present" /\ pristine
  /\ pristine' = FALSE
  /\ UNCHANGED <<tree, marker, old, lease, session, entry, omp, generation, restarting,
                 hostVars, promptVars, faults, scan>>

-------------------------------------------------------------------------------
(* restart() and the rest of dispose()                                     *)

Restart ==
  /\ session = "open" /\ restarting = "no" /\ generation < MaxRestarts
  /\ generation' = generation + 1
  /\ restarting' = "draining"
  /\ omp' = IF omp = "running" THEN "disposed" ELSE omp
  /\ UNCHANGED <<tree, pristine, marker, old, lease, session, entry, hostVars, promptVars,
                 faults, scan>>

\* The process is gone; its requests were rejected when the disposal began.
TornDown ==
  /\ omp = "disposed" /\ \A q \in Prompts : pc[q] # "inflight"
  /\ omp' = "none"
  /\ UNCHANGED <<tree, pristine, marker, old, lease, session, entry, generation, restarting,
                 hostVars, promptVars, faults, scan>>

\* An exit by itself also rejects what is in flight.
Exit ==
  /\ omp = "running"
  /\ omp' = "disposed"
  /\ UNCHANGED <<tree, pristine, marker, old, lease, session, entry, generation, restarting,
                 hostVars, promptVars, faults, scan>>

\* The barrier is through: restart queues a release for nobody.
RestartDrained ==
  /\ restarting = "draining" /\ omp = "none"
  /\ restarting' = "releasing"
  /\ Enqueue("release", Nobody)
  /\ UNCHANGED <<tree, pristine, marker, old, lease, session, entry, omp, generation, reserved,
                 accepted, promptVars, faults, scan>>

\* Mutated form of CloseDrained: the reservation is released past the queue.
CloseDrainedAtOnce ==
  /\ session = "closing" /\ omp = "none"
  /\ session' = "cleaning"
  /\ reserved' = FALSE
  /\ marker' = IF reserved /\ marker = "prompting" THEN "unused" ELSE marker
  /\ UNCHANGED <<tree, pristine, old, lease, entry, omp, generation, restarting, accepted,
                 transitions, promptVars, faults, scan>>

\* Mutated form of CloseDrained: a reservation is forgotten.
CloseDrainedForgetting ==
  /\ session = "closing" /\ omp = "none"
  /\ session' = "cleaning"
  /\ UNCHANGED <<tree, pristine, marker, old, lease, entry, omp, generation, restarting,
                 hostVars, promptVars, faults, scan>>

\* The same barrier in dispose.
CloseDrained ==
  /\ session = "closing" /\ omp = "none"
  /\ session' = "releasing"
  /\ Enqueue("release", Nobody)
  /\ UNCHANGED <<tree, pristine, marker, old, lease, entry, omp, generation, restarting,
                 reserved, accepted, promptVars, faults, scan>>

\* No release of restart or dispose is pending.
NoneQueued == \A i \in DOMAIN transitions : transitions[i].for # Nobody

\* When that is done restart starts a new runtime, unless the chat is closing.
Restarted ==
  /\ restarting = "releasing" /\ NoneQueued
  /\ restarting' = "no"
  /\ omp' = IF session = "open" THEN "running" ELSE omp
  /\ UNCHANGED <<tree, pristine, marker, old, lease, session, entry, generation, hostVars,
                 promptVars, faults, scan>>

\* dispose is over, and #remove goes on.
CloseReleased ==
  /\ session = "releasing" /\ NoneQueued
  /\ session' = "cleaning"
  /\ UNCHANGED <<tree, pristine, marker, old, lease, entry, omp, generation, restarting,
                 hostVars, promptVars, faults, scan>>

-------------------------------------------------------------------------------
(* Crashes, and the recovery of abandoned worktrees                        *)

\* The window of the chat is killed; a marker being written may be left torn.
Kill ==
  /\ session \notin {"closed", "refused", "dead"}
  /\ session' = "dead" /\ omp' = "none"
  /\ lease' = IF lease = Chat THEN Nobody ELSE lease
  /\ \/ UNCHANGED marker
     \/ /\ transitions # <<>> /\ entry
        /\ \/ Head(transitions).op = "reserve" /\ marker = "unused" /\ ~reserved
           \/ Head(transitions).op = "release" /\ marker = "prompting" /\ reserved
        /\ marker' = "torn"
  /\ transitions' = <<>> /\ restarting' = "no"
  /\ UNCHANGED <<tree, pristine, old, entry, generation, reserved, accepted, promptVars,
                 faults, scan>>

\* The minimum age of an orphan has passed.
Age ==
  /\ ~old
  /\ old' = TRUE
  /\ UNCHANGED <<tree, pristine, marker, lease, session, entry, omp, generation, restarting,
                 hostVars, promptVars, faults, scan>>

\* Mutated form of ScanSee: the age of the marker is compared the wrong way.
ScanSeeYoung(s) ==
  /\ scan[s] = "idle"
  /\ tree = "present" /\ marker \in {"unused", "prompting"} /\ ~old
  /\ scan' = [scan EXCEPT ![s] = "seen"]
  /\ UNCHANGED <<tree, pristine, marker, old, lease, session, entry, omp, generation,
                 restarting, hostVars, promptVars, faults>>

\* A scan finds a readable marker of that age.
ScanSee(s) ==
  /\ scan[s] = "idle"
  /\ tree = "present" /\ marker \in {"unused", "prompting"} /\ old
  /\ scan' = [scan EXCEPT ![s] = "seen"]
  /\ UNCHANGED <<tree, pristine, marker, old, lease, session, entry, omp, generation,
                 restarting, hostVars, promptVars, faults>>

\* Mutated form of ScanAcquire: the scan trusts the age of the marker.
ScanAcquireByAge(s) ==
  /\ scan[s] = "seen"
  /\ scan' = [scan EXCEPT ![s] = "leased"]
  /\ UNCHANGED <<tree, pristine, marker, old, lease, session, entry, omp, generation,
                 restarting, hostVars, promptVars, faults>>

\* It takes the lease, or leaves the worktree to its owner.
ScanAcquire(s) ==
  /\ scan[s] = "seen"
  /\ IF lease = Nobody /\ tree = "present"
       THEN lease' = s /\ scan' = [scan EXCEPT ![s] = "leased"]
       ELSE scan' = [scan EXCEPT ![s] = "idle"] /\ UNCHANGED lease
  /\ UNCHANGED <<tree, pristine, marker, old, session, entry, omp, generation, restarting,
                 hostVars, promptVars, faults>>

\* The script looks at the marker again.
ScanClean(s) ==
  /\ scan[s] = "leased"
  /\ Cleanup
  /\ scan' = [scan EXCEPT ![s] = "cleaned"]
  /\ UNCHANGED <<pristine, old, lease, session, entry, omp, generation, restarting, hostVars,
                 promptVars, faults>>

\* The lease of the scan is released whatever the script said.
ScanRelease(s) ==
  /\ scan[s] = "cleaned"
  /\ scan' = [scan EXCEPT ![s] = "idle"]
  /\ lease' = IF lease = s THEN Nobody ELSE lease
  /\ UNCHANGED <<tree, pristine, marker, old, session, entry, omp, generation, restarting,
                 hostVars, promptVars, faults>>

\* The scanning window is killed: its lease is free.
ScanKill(s) ==
  /\ scan[s] # "idle" /\ Fault
  /\ scan' = [scan EXCEPT ![s] = "idle"]
  /\ lease' = IF lease = s THEN Nobody ELSE lease
  /\ UNCHANGED <<tree, pristine, marker, old, session, entry, omp, generation, restarting,
                 hostVars, promptVars>>

-------------------------------------------------------------------------------
ChatStep ==
  \/ Remove \/ Unlock \/ TornDown \/ RestartDrained \/ CloseDrained
  \/ Restarted \/ CloseReleased
  \/ \E q \in Prompts \cup {Nobody} : Reserve(q) \/ Mark(q) \/ Release(q)
  \/ \E q \in Prompts : Check(q) \/ Answer(q) \/ Reject(q)

UserStep ==
  \/ Acquire \/ Open \/ OpenFails \/ Close \/ Restart \/ Exit \/ Kill \/ Work
  \/ \E q \in Prompts : Begin(q)

ScanStep(s) == ScanSee(s) \/ ScanAcquire(s) \/ ScanClean(s) \/ ScanRelease(s)

\* The chat is gone and no orphan is in sight.
Over ==
  /\ session \in {"closed", "refused", "dead"}
  /\ UNCHANGED vars

Next ==
  \/ ChatStep \/ UserStep \/ Age
  \/ \E s \in Scanners : ScanStep(s) \/ ScanKill(s)
  \/ Over

Spec == Init /\ [][Next]_vars

\* Time passes, and windows keep being opened: each scans once it is activated
\* and again when its timer fires.
FairSpec == Spec /\ WF_vars(Age) /\ \A s \in Scanners : WF_vars(ScanStep(s))

-------------------------------------------------------------------------------
(* Properties                                                              *)

\* No cleanup removes the worktree under a chat that has or is about to have a
\* process there, its own or another window's (the lease around the script).
NeverUnderfoot ==
  tree = "removed" =>
    omp = "none" /\ session \notin {"leased", "open", "closing", "releasing"}

\* Without failing file operations, a worktree in which OMP acknowledged a
\* prompt stays, however its chat goes on and ends: an acknowledgement becomes
\* durable before restart or close give the reservation back.
AnsweredKept == answered # {} /\ faults = 0 => tree = "present"

\* A window killed between the reservation and its end leaves a worktree that
\* no later scan takes for unused.
KilledFirstPromptKept == session = "dead" /\ reserved => tree = "present"

\* A chat that was closed leaves no reservation behind: its worktree is the
\* user's, or gone, or free to be taken for unused.
ClosedSettles ==
  session = "closed" /\ faults = 0 =>
    marker = "absent" \/ (marker = "unused" /\ ~pristine)

\* A worktree that nobody used and whose window was killed is reclaimed.
AbandonedReclaimed ==
  session = "dead" /\ marker = "unused" /\ pristine ~> tree = "removed" \/ ~pristine

===============================================================================
