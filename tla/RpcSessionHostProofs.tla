------------------------- MODULE RpcSessionHostProofs -------------------------
(***************************************************************************)
(* Proofs about the runtimes behind one chat, for any number of views and  *)
(* restarts.                                                               *)
(*                                                                         *)
(* Three invariants, each for what the one before leaves open.  TypeInv    *)
(* holds however long a message to the webview takes: it bounds what the   *)
(* teardown barrier counts, as every runtime is queued at most twice.      *)
(* PromptInHand, too: the startup prompt is with one startup or was sent.  *)
(*                                                                         *)
(* IInv is about posts that wait for nothing (SlowPosts = FALSE).  Then    *)
(* no runtime is replaced while its startup posts (PostsAreCurrent), so    *)
(* the failure of a startup drops its own runtime and no other; the        *)
(* barrier holds at most one teardown, with no current runtime beside it   *)
(* (OneBehind), and who waits for it waits for all of it (WaitForAll).     *)
(* With slow posts this fails: a model-checked run shows a process left    *)
(* behind by dispose().                                                    *)
(*                                                                         *)
(* ViewInv is about one view, too (MaxViews = 1): only a restart starts    *)
(* another runtime then, and it resets the parity flags before it does     *)
(* (FlagsCurrent).  When the view is opened again the flags are stale, as  *)
(* another run shows.                                                      *)
(***************************************************************************)
EXTENDS RpcSessionHost, FiniteSets, FiniteSetTheorems, TLAPS

USE BoundsAssumption

-------------------------------------------------------------------------------
(* Types and the startup prompt, however long a post takes                 *)

\* A "ready" message is answered once per view.
BootedViews == booting + (IF view = "loading" THEN 1 ELSE 0) <= views

\* Each teardown was queued when its runtime was dropped or when its failed startup settled.
Gone == {p \in Runtimes : stage[p] # "unused" /\ p # rpc}
Ended == {p \in Runtimes : stage[p] \in {"reaping", "over"}}
QueuedTwice == Enqueued <= Cardinality(Gone) + Cardinality(Ended)

\* The inductive invariant for the types: what bounds the counters of TypeOK.
TypeInv ==
  /\ TypeOK /\ QueuedTwice /\ BootedViews
  /\ rpc # NoRuntime => stage[rpc] # "unused"
  /\ \A p \in Runtimes : stage[p] \in {"delivering", "sending"} => target[p] # NoRuntime

\* The startup prompt is in one hand: with a startup that delivers it or with OMP.
PromptInHand ==
  /\ \A p, q \in Runtimes :
       stage[p] \in {"delivering", "sending"} /\ stage[q] \in {"delivering", "sending"} => p = q
  /\ \A p \in Runtimes : stage[p] \in {"delivering", "sending"} =>
       ownership = "delivered" /\ prompts = {}
  /\ \A p, q \in prompts : p = q
  /\ prompts # {} => ownership = "delivered"

\* The constants the arithmetic needs.
LEMMA Numbers ==
  /\ MaxRuntimes \in Nat /\ Runtimes \subseteq Nat \ {0} /\ NoRuntime = 0
  /\ \A p \in Runtimes : p # NoRuntime /\ p <= MaxRuntimes
  /\ \A n \in 0..MaxRuntimes : n \in Teardowns
  /\ Teardowns \subseteq Nat
BY DEF MaxRuntimes, Runtimes, NoRuntime, Teardowns

\* Of the runtimes there are finitely many.
LEMMA Sizes ==
  \A D \in SUBSET Runtimes :
    IsFiniteSet(D) /\ Cardinality(D) \in Nat /\ Cardinality(D) <= MaxRuntimes
<1>1. IsFiniteSet(Runtimes) /\ Cardinality(Runtimes) <= MaxRuntimes
  <2>1. 1 \in Int /\ MaxRuntimes \in Int /\ MaxRuntimes >= 0
    BY Numbers
  <2>2. IsFiniteSet(1..MaxRuntimes)
        /\ Cardinality(1..MaxRuntimes) = IF 1 > MaxRuntimes THEN 0 ELSE MaxRuntimes - 1 + 1
    BY <2>1, FS_Interval
  <2>3. QED
    BY <2>1, <2>2 DEF Runtimes
<1>2. Cardinality(Runtimes) \in Nat
  BY <1>1, FS_CardinalityType
<1>3. TAKE D \in SUBSET Runtimes
<1>4. IsFiniteSet(D) /\ Cardinality(D) <= Cardinality(Runtimes)
  BY <1>1, FS_Subset
<1>5. Cardinality(D) \in Nat
  BY <1>4, FS_CardinalityType
<1>6. QED
  BY <1>1, <1>2, <1>4, <1>5, Numbers

\* The counters stay within the bounds that TypeOK gives them.
LEMMA Counters ==
  ASSUME TypeOK, QueuedTwice
  PROVE  Enqueued \in Teardowns /\ torn \in Nat /\ Len(queue) \in Nat
<1>1. torn \in Nat /\ Len(queue) \in Nat
  BY Numbers DEF TypeOK
<1>2. Gone \subseteq Runtimes /\ Ended \subseteq Runtimes
  BY DEF Gone, Ended
<1>3. /\ Cardinality(Gone) \in Nat /\ Cardinality(Gone) <= MaxRuntimes
      /\ Cardinality(Ended) \in Nat /\ Cardinality(Ended) <= MaxRuntimes
  BY <1>2, Sizes
<1>4. QED
  BY <1>1, <1>3, Numbers DEF QueuedTwice, Enqueued, Teardowns

\* A runtime is queued when it is dropped or when its startup ends, and each of these once.
LEMMA StillTwice ==
  ASSUME TypeOK, QueuedTwice,
         \A q \in Runtimes : stage[q] # "unused" => stage'[q] # "unused",
         \A q \in Runtimes :
           stage[q] \in {"reaping", "over"} => stage'[q] \in {"reaping", "over"},
         rpc' = rpc \/ rpc' = NoRuntime \/ stage[rpc'] = "unused",
         \/ Enqueued' = Enqueued
         \/ /\ Enqueued' = Enqueued + 1
            /\ \/ \E q \in Runtimes : q = rpc /\ stage[q] # "unused" /\ rpc' = NoRuntime
               \/ \E q \in Runtimes : stage[q] \notin {"reaping", "over"} /\ stage'[q] = "reaping"
  PROVE  QueuedTwice' /\ Enqueued' \in Teardowns /\ Enqueued' \in Nat
<1>1. Gone \subseteq Gone' /\ Ended \subseteq Ended'
  BY Numbers DEF Gone, Ended
<1>2. Gone' \subseteq Runtimes /\ Ended' \subseteq Runtimes
  BY DEF Gone, Ended
<1>3. /\ IsFiniteSet(Gone') /\ Cardinality(Gone') \in Nat /\ Cardinality(Gone') <= MaxRuntimes
      /\ IsFiniteSet(Ended') /\ Cardinality(Ended') \in Nat /\ Cardinality(Ended') <= MaxRuntimes
      /\ Cardinality(Gone) \in Nat /\ Cardinality(Ended) \in Nat
  BY <1>1, <1>2, Sizes
<1>4. Cardinality(Gone) <= Cardinality(Gone') /\ Cardinality(Ended) <= Cardinality(Ended')
  BY <1>1, <1>3, FS_Subset
<1>5. ASSUME NEW q \in Runtimes, q = rpc, stage[q] # "unused", rpc' = NoRuntime
      PROVE  Cardinality(Gone) < Cardinality(Gone')
  <2>1. q \in Gone' /\ q \notin Gone
    BY <1>5, Numbers DEF Gone
  <2>2. Cardinality(Gone) # Cardinality(Gone')
    BY <1>1, <1>3, <2>1, FS_Subset
  <2>3. QED
    BY <1>3, <1>4, <2>2
<1>6. ASSUME NEW q \in Runtimes, stage[q] \notin {"reaping", "over"}, stage'[q] = "reaping"
      PROVE  Cardinality(Ended) < Cardinality(Ended')
  <2>1. q \in Ended' /\ q \notin Ended
    BY <1>6 DEF Ended
  <2>2. Cardinality(Ended) # Cardinality(Ended')
    BY <1>1, <1>3, <2>1, FS_Subset
  <2>3. QED
    BY <1>3, <1>4, <2>2
<1>7. Enqueued \in Nat
  BY Counters, Numbers
<1>8. QueuedTwice'
  BY <1>3, <1>4, <1>5, <1>6, <1>7 DEF QueuedTwice
<1>9. QED
  BY <1>3, <1>7, <1>8, Numbers DEF QueuedTwice, Teardowns

\* What dropping the current runtime does to the barrier.
LEMMA DroppedOnce ==
  ASSUME TypeInv, DropRuntime, torn' = torn
  PROVE  /\ rpc' = NoRuntime /\ queue' \in Seq(Runtimes) /\ Enqueued' = torn + Len(queue')
         /\ \/ Enqueued' = Enqueued
            \/ /\ Enqueued' = Enqueued + 1
               /\ \E q \in Runtimes : q = rpc /\ stage[q] # "unused" /\ rpc' = NoRuntime
<1>1. queue \in Seq(Runtimes) /\ torn \in Nat /\ Len(queue) \in Nat
  BY Numbers DEF TypeInv, TypeOK
<1>2. CASE rpc = NoRuntime
  BY <1>1, <1>2 DEF DropRuntime, Enqueued
<1>3. CASE rpc # NoRuntime
  <2>1. rpc \in Runtimes /\ stage[rpc] # "unused"
    BY <1>3 DEF TypeInv, TypeOK
  <2>2. queue' = Append(queue, rpc) /\ rpc' = NoRuntime
    BY <1>3 DEF DropRuntime
  <2>3. queue' \in Seq(Runtimes) /\ Len(queue') = Len(queue) + 1
    BY <1>1, <2>1, <2>2
  <2>4. QED
    BY <1>1, <2>1, <2>2, <2>3 DEF Enqueued
<1>4. QED
  BY <1>2, <1>3

\* Every step keeps the types and what bounds them.
LEMMA TypeStep == ASSUME TypeInv, [Next]_vars PROVE TypeInv'
<1> USE DEF TypeOK, TypeInv
<1>1. ASSUME NEW s \in starters, StartRpc(s) PROVE TypeInv'
  <2>1. UNCHANGED <<queue, torn>> /\ Enqueued' = Enqueued
    BY <1>1 DEF StartRpc, Enqueued, barrierVars
  <2>2. stage' \in [Runtimes -> Stages]
    <3>1. "spawning" \in Stages
      BY DEF Stages
    <3>2. UNCHANGED stage \/ \E q \in Runtimes : stage' = [stage EXCEPT ![q] = "spawning"]
      BY <1>1 DEF StartRpc, Create, Goto
    <3>3. QED
      BY <3>1, <3>2
  <2>3. /\ \/ rpc' = rpc
           \/ rpc' \in Runtimes /\ stage[rpc'] = "unused" /\ stage'[rpc'] = "spawning"
        /\ \A q \in Runtimes : \/ stage[q] = "unused" /\ stage'[q] = "spawning"
                               \/ stage'[q] = stage[q]
    BY <1>1, Numbers DEF StartRpc, Create, FirstUnused, Goto
  <2>4. QueuedTwice' /\ Enqueued' \in Teardowns /\ Enqueued' \in Nat
    BY <1>1, <2>1, <2>2, <2>3, StillTwice
  <2>5. starters' \subseteq [by : {"ready", "restart"}, after : Teardowns]
    BY <1>1 DEF StartRpc
  <2>6. alive' \in [Runtimes -> BOOLEAN]
    BY <1>1 DEF StartRpc, Create
  <2>7. status' \in {"starting", "idle", "running", "failed", "finished"}
    BY <1>1 DEF StartRpc, Create
  <2>8. restart' \in [at : {"none", "draining", "releasing", "probing", "posting",
                        "starting", "startup"}, after : Teardowns]
    BY <1>1 DEF StartRpc, Create, RestartAfter, Teardowns, MaxRuntimes, Runtimes
  <2>9. UNCHANGED <<faulty, conv, target, queue, torn, broken, restarts, view, views, booting,
                    disposed, parityPassed, parityFailed, sessionFile, resume, ownership,
                    validated, uiHandled, prompts, chat>>
    BY <1>1 DEF StartRpc, processVars, barrierVars, restartVars, viewVars, parityVars,
       fileVars, history
  <2>9a. late' \in BOOLEAN
    BY <1>1, Zenon DEF StartRpc, Create
  <2>10. /\ BootedViews' /\ (rpc' # NoRuntime => stage'[rpc'] # "unused")
        /\ \A q \in Runtimes :
             stage'[q] \in {"delivering", "sending"} => target'[q] # NoRuntime
    BY <1>1, <2>1, <2>2, <2>3, <2>4, <2>5, <2>6, <2>7, <2>8, <2>9 DEF StartRpc, Create,
       FirstUnused, Goto, BootedViews, Stages
  <2>11. QED
    BY <2>1, <2>2, <2>3, <2>4, <2>5, <2>6, <2>7, <2>8, <2>9, <2>9a, <2>10
<1>2. ASSUME NEW s \in starters, StartRejected(s) PROVE TypeInv'
  <2>1. UNCHANGED <<queue, torn>> /\ Enqueued' = Enqueued
    BY <1>2 DEF StartRejected, Enqueued, barrierVars
  <2>2. /\ \A q \in Runtimes : stage[q] # "unused" => stage'[q] # "unused"
        /\ \A q \in Runtimes :
             stage[q] \in {"reaping", "over"} => stage'[q] \in {"reaping", "over"}
    BY <1>2 DEF StartRejected
  <2>3. QueuedTwice' /\ Enqueued' \in Teardowns /\ Enqueued' \in Nat
    BY <1>2, <2>1, <2>2, StillTwice DEF StartRejected
  <2>4. starters' \subseteq [by : {"ready", "restart"}, after : Teardowns]
    BY <1>2 DEF StartRejected, RestartAfter, Teardowns, MaxRuntimes, Runtimes
  <2>5. restart' \in [at : {"none", "draining", "releasing", "probing", "posting",
                        "starting", "startup"}, after : Teardowns]
    BY <1>2 DEF StartRejected, RestartAfter, Teardowns, MaxRuntimes, Runtimes
  <2>6. UNCHANGED <<rpc, stage, alive, faulty, conv, target, queue, torn, broken, restarts,
                    view, views, booting, disposed, parityPassed, parityFailed, status,
                    sessionFile, resume, ownership, validated, uiHandled, prompts, late, chat>>
    BY <1>2 DEF StartRejected, processVars, barrierVars, restartVars, viewVars, parityVars,
       fileVars, history
  <2>7. /\ BootedViews' /\ (rpc' # NoRuntime => stage'[rpc'] # "unused")
        /\ \A q \in Runtimes :
             stage'[q] \in {"delivering", "sending"} => target'[q] # NoRuntime
    BY <1>2, <2>1, <2>2, <2>3, <2>4, <2>5, <2>6 DEF StartRejected, BootedViews
  <2>8. QED
    BY <2>1, <2>2, <2>3, <2>4, <2>5, <2>6, <2>7
<1>3. ASSUME RestartDrained PROVE TypeInv'
  <2>1. UNCHANGED <<queue, torn>> /\ Enqueued' = Enqueued
    BY <1>3 DEF RestartDrained, Enqueued, barrierVars
  <2>2. /\ \A q \in Runtimes : stage[q] # "unused" => stage'[q] # "unused"
        /\ \A q \in Runtimes :
             stage[q] \in {"reaping", "over"} => stage'[q] \in {"reaping", "over"}
    BY <1>3 DEF RestartDrained
  <2>3. QueuedTwice' /\ Enqueued' \in Teardowns /\ Enqueued' \in Nat
    BY <1>3, <2>1, <2>2, StillTwice DEF RestartDrained
  <2>4. restart' \in [at : {"none", "draining", "releasing", "probing", "posting",
                        "starting", "startup"}, after : Teardowns]
    BY <1>3 DEF RestartDrained, RestartTo, Teardowns, MaxRuntimes, Runtimes
  <2>5. UNCHANGED <<rpc, stage, alive, faulty, conv, target, queue, torn, broken, starters,
                    restarts, view, views, booting, disposed, parityPassed, parityFailed,
                    status, sessionFile, resume, ownership, validated, uiHandled, prompts,
                    late, chat>>
    BY <1>3 DEF RestartDrained, processVars, barrierVars, restartVars, viewVars, parityVars,
       fileVars, history
  <2>6. /\ BootedViews' /\ (rpc' # NoRuntime => stage'[rpc'] # "unused")
        /\ \A q \in Runtimes :
             stage'[q] \in {"delivering", "sending"} => target'[q] # NoRuntime
    BY <1>3, <2>1, <2>2, <2>3, <2>4, <2>5 DEF RestartDrained, BootedViews
  <2>7. QED
    BY <2>1, <2>2, <2>3, <2>4, <2>5, <2>6
<1>4. ASSUME NEW p \in Runtimes, RequestFails(p) PROVE TypeInv'
  <2>1. UNCHANGED <<queue, torn>> /\ Enqueued' = Enqueued
    BY <1>4 DEF RequestFails, Enqueued, barrierVars
  <2>2. stage' \in [Runtimes -> Stages]
    BY <1>4 DEF RequestFails, Goto, RequestStages, ReadyRejected, Stages, RequestStages,
       PostStages
  <2>3. /\ \A q \in Runtimes : stage[q] # "unused" => stage'[q] # "unused"
        /\ \A q \in Runtimes :
             stage[q] \in {"reaping", "over"} => stage'[q] \in {"reaping", "over"}
    BY <1>4 DEF RequestFails, Goto, RequestStages, ReadyRejected
  <2>4. QueuedTwice' /\ Enqueued' \in Teardowns /\ Enqueued' \in Nat
    BY <1>4, <2>1, <2>2, <2>3, StillTwice DEF RequestFails
  <2>5. status' \in {"starting", "idle", "running", "failed", "finished"}
    BY <1>4 DEF RequestFails, Goto
  <2>6. UNCHANGED <<rpc, alive, faulty, conv, target, queue, torn, broken, starters, restart,
                    restarts, view, views, booting, disposed, parityPassed, parityFailed,
                    sessionFile, resume, ownership, validated, uiHandled, prompts, late, chat>>
    BY <1>4 DEF RequestFails, processVars, barrierVars, restartVars, viewVars, parityVars,
       fileVars, history
  <2>7. /\ BootedViews' /\ (rpc' # NoRuntime => stage'[rpc'] # "unused")
        /\ \A q \in Runtimes :
             stage'[q] \in {"delivering", "sending"} => target'[q] # NoRuntime
    BY <1>4, <2>1, <2>2, <2>3, <2>4, <2>5, <2>6 DEF RequestFails, Goto, RequestStages,
       ReadyRejected, BootedViews, Stages
  <2>8. QED
    BY <2>1, <2>2, <2>3, <2>4, <2>5, <2>6, <2>7
<1>5. ASSUME NEW p \in Runtimes, AdvisorFails(p) PROVE TypeInv'
  <2>1. /\ rpc' = rpc \/ rpc' = NoRuntime
        /\ queue' \in Seq(Runtimes)
        /\ \/ Enqueued' = Enqueued
           \/ /\ Enqueued' = Enqueued + 1
              /\ \E q \in Runtimes : q = rpc /\ stage[q] # "unused" /\ rpc' = NoRuntime
    <3>1. CASE Current(p)
      BY <1>5, <3>1, DroppedOnce DEF AdvisorFails, BlockParity
    <3>2. CASE ~Current(p)
      BY <1>5, <3>2 DEF AdvisorFails, Enqueued
    <3>3. QED
      BY <3>1, <3>2
  <2>2. stage' \in [Runtimes -> Stages]
    BY <1>5 DEF AdvisorFails, Goto, Stages, RequestStages, PostStages
  <2>3. /\ \A q \in Runtimes : stage[q] # "unused" => stage'[q] # "unused"
        /\ \A q \in Runtimes :
             stage[q] \in {"reaping", "over"} => stage'[q] \in {"reaping", "over"}
    BY <1>5 DEF AdvisorFails, Goto
  <2>4. QueuedTwice' /\ Enqueued' \in Teardowns /\ Enqueued' \in Nat
    BY <1>5, <2>1, <2>2, <2>3, StillTwice
  <2>5. parityFailed' \in BOOLEAN
    <3>1. CASE Current(p)
      <4>1. parityFailed' = TRUE
        BY <1>5, <3>1, Zenon DEF AdvisorFails, BlockParity
      <4>2. QED
        BY <4>1, Zenon
    <3>2. CASE ~Current(p)
      <4>1. parityFailed' = parityFailed
        BY <1>5, <3>2 DEF AdvisorFails, parityVars
      <4>2. QED
        BY <4>1, Zenon
    <3>3. QED
      BY <3>1, <3>2, Zenon
  <2>6. parityPassed' \in BOOLEAN
    <3>1. CASE Current(p)
      <4>1. parityPassed' = FALSE
        BY <1>5, <3>1, Zenon DEF AdvisorFails, BlockParity
      <4>2. QED
        BY <4>1, Zenon
    <3>2. CASE ~Current(p)
      <4>1. parityPassed' = parityPassed
        BY <1>5, <3>2 DEF AdvisorFails, parityVars
      <4>2. QED
        BY <4>1, Zenon
    <3>3. QED
      BY <3>1, <3>2, Zenon
  <2>7. /\ status' \in {"starting", "idle", "running", "failed", "finished"}
        /\ ownership' \in {"none", "pending", "delivered", "restored"}
    BY <1>5 DEF AdvisorFails, Goto, BlockParity, DropRuntime, RestorePrompt
  <2>8. UNCHANGED <<alive, faulty, conv, target, torn, broken, starters, restart, restarts,
                    view, views, booting, disposed, sessionFile, resume, validated, uiHandled,
                    prompts, late, chat>>
    BY <1>5 DEF AdvisorFails, Goto, BlockParity, DropRuntime, RestorePrompt, processVars,
       barrierVars, restartVars, viewVars, fileVars, history
  <2>9. /\ BootedViews' /\ (rpc' # NoRuntime => stage'[rpc'] # "unused")
        /\ \A q \in Runtimes :
             stage'[q] \in {"delivering", "sending"} => target'[q] # NoRuntime
    BY <1>5, <2>1, <2>2, <2>3, <2>4, <2>5, <2>6, <2>7, <2>8 DEF AdvisorFails, Goto,
       BootedViews, Stages
  <2>10. QED
    BY <2>1, <2>2, <2>3, <2>4, <2>5, <2>6, <2>7, <2>8, <2>9
<1>6. ASSUME Bootstrapped PROVE TypeInv'
  <2>1. UNCHANGED <<queue, torn>> /\ Enqueued' = Enqueued
    BY <1>6 DEF Bootstrapped, Enqueued, barrierVars
  <2>2. /\ \A q \in Runtimes : stage[q] # "unused" => stage'[q] # "unused"
        /\ \A q \in Runtimes :
             stage[q] \in {"reaping", "over"} => stage'[q] \in {"reaping", "over"}
    BY <1>6 DEF Bootstrapped
  <2>3. QueuedTwice' /\ Enqueued' \in Teardowns /\ Enqueued' \in Nat
    BY <1>6, <2>1, <2>2, StillTwice DEF Bootstrapped
  <2>4. booting' \in 0..MaxViews
    BY <1>6 DEF Bootstrapped
  <2>5. starters' \subseteq [by : {"ready", "restart"}, after : Teardowns]
    BY <1>6, Counters DEF Bootstrapped
  <2>6. UNCHANGED <<rpc, stage, alive, faulty, conv, target, queue, torn, broken, restart,
                    restarts, view, views, disposed, parityPassed, parityFailed, status,
                    sessionFile, resume, ownership, validated, uiHandled, prompts, late, chat>>
    BY <1>6 DEF Bootstrapped, processVars, barrierVars, restartVars, viewVars, parityVars,
       fileVars, history
  <2>7. /\ BootedViews' /\ (rpc' # NoRuntime => stage'[rpc'] # "unused")
        /\ \A q \in Runtimes :
             stage'[q] \in {"delivering", "sending"} => target'[q] # NoRuntime
    BY <1>6, <2>1, <2>2, <2>3, <2>4, <2>5, <2>6 DEF Bootstrapped, BootedViews
  <2>8. QED
    BY <2>1, <2>2, <2>3, <2>4, <2>5, <2>6, <2>7
<1>7. ASSUME RestartReleased PROVE TypeInv'
  <2>1. UNCHANGED <<queue, torn>> /\ Enqueued' = Enqueued
    BY <1>7 DEF RestartReleased, Enqueued, barrierVars
  <2>2. /\ \A q \in Runtimes : stage[q] # "unused" => stage'[q] # "unused"
        /\ \A q \in Runtimes :
             stage[q] \in {"reaping", "over"} => stage'[q] \in {"reaping", "over"}
    BY <1>7 DEF RestartReleased
  <2>3. QueuedTwice' /\ Enqueued' \in Teardowns /\ Enqueued' \in Nat
    BY <1>7, <2>1, <2>2, StillTwice DEF RestartReleased
  <2>4. restart' \in [at : {"none", "draining", "releasing", "probing", "posting",
                        "starting", "startup"}, after : Teardowns]
    BY <1>7 DEF RestartReleased, RestartTo, Teardowns, MaxRuntimes, Runtimes
  <2>5. UNCHANGED <<rpc, stage, alive, faulty, conv, target, queue, torn, broken, starters,
                    restarts, view, views, booting, disposed, parityPassed, parityFailed,
                    status, sessionFile, resume, ownership, validated, uiHandled, prompts,
                    late, chat>>
    BY <1>7 DEF RestartReleased, processVars, barrierVars, restartVars, viewVars, parityVars,
       fileVars, history
  <2>6. /\ BootedViews' /\ (rpc' # NoRuntime => stage'[rpc'] # "unused")
        /\ \A q \in Runtimes :
             stage'[q] \in {"delivering", "sending"} => target'[q] # NoRuntime
    BY <1>7, <2>1, <2>2, <2>3, <2>4, <2>5 DEF RestartReleased, BootedViews
  <2>7. QED
    BY <2>1, <2>2, <2>3, <2>4, <2>5, <2>6
<1>8. ASSUME RestartReset PROVE TypeInv'
  <2>1. UNCHANGED <<queue, torn>> /\ Enqueued' = Enqueued
    BY <1>8 DEF RestartReset, Enqueued, barrierVars
  <2>2. /\ \A q \in Runtimes : stage[q] # "unused" => stage'[q] # "unused"
        /\ \A q \in Runtimes :
             stage[q] \in {"reaping", "over"} => stage'[q] \in {"reaping", "over"}
    BY <1>8 DEF RestartReset
  <2>3. QueuedTwice' /\ Enqueued' \in Teardowns /\ Enqueued' \in Nat
    BY <1>8, <2>1, <2>2, StillTwice DEF RestartReset
  <2>4. restart' \in [at : {"none", "draining", "releasing", "probing", "posting",
                        "starting", "startup"}, after : Teardowns]
    BY <1>8 DEF RestartReset, RestartTo, Teardowns, MaxRuntimes, Runtimes
  <2>5. parityPassed' \in BOOLEAN /\ parityFailed' \in BOOLEAN
    BY <1>8, Zenon DEF RestartReset, RestartTo
  <2>6. status' \in {"starting", "idle", "running", "failed", "finished"}
    BY <1>8 DEF RestartReset, RestartTo
  <2>7. UNCHANGED <<rpc, stage, alive, faulty, conv, target, queue, torn, broken, starters,
                    restarts, view, views, booting, disposed, sessionFile, resume, ownership,
                    validated, uiHandled, prompts, late, chat>>
    BY <1>8 DEF RestartReset, processVars, barrierVars, restartVars, viewVars, fileVars, history
  <2>8. /\ BootedViews' /\ (rpc' # NoRuntime => stage'[rpc'] # "unused")
        /\ \A q \in Runtimes :
             stage'[q] \in {"delivering", "sending"} => target'[q] # NoRuntime
    BY <1>8, <2>1, <2>2, <2>3, <2>4, <2>5, <2>6, <2>7 DEF RestartReset, BootedViews
  <2>9. QED
    BY <2>1, <2>2, <2>3, <2>4, <2>5, <2>6, <2>7, <2>8
<1>9. ASSUME RestartPosted PROVE TypeInv'
  <2>1. UNCHANGED <<queue, torn>> /\ Enqueued' = Enqueued
    BY <1>9 DEF RestartPosted, Enqueued, barrierVars
  <2>2. /\ \A q \in Runtimes : stage[q] # "unused" => stage'[q] # "unused"
        /\ \A q \in Runtimes :
             stage[q] \in {"reaping", "over"} => stage'[q] \in {"reaping", "over"}
    BY <1>9 DEF RestartPosted
  <2>3. QueuedTwice' /\ Enqueued' \in Teardowns /\ Enqueued' \in Nat
    BY <1>9, <2>1, <2>2, StillTwice DEF RestartPosted
  <2>4. restart' \in [at : {"none", "draining", "releasing", "probing", "posting",
                        "starting", "startup"}, after : Teardowns]
    BY <1>9 DEF RestartPosted, RestartTo, Teardowns, MaxRuntimes, Runtimes
  <2>5. starters' \subseteq [by : {"ready", "restart"}, after : Teardowns]
    BY <1>9, Counters DEF RestartPosted
  <2>6. UNCHANGED <<rpc, stage, alive, faulty, conv, target, queue, torn, broken, restarts,
                    view, views, booting, disposed, parityPassed, parityFailed, status,
                    sessionFile, resume, ownership, validated, uiHandled, prompts, late, chat>>
    BY <1>9 DEF RestartPosted, processVars, barrierVars, restartVars, viewVars, parityVars,
       fileVars, history
  <2>7. /\ BootedViews' /\ (rpc' # NoRuntime => stage'[rpc'] # "unused")
        /\ \A q \in Runtimes :
             stage'[q] \in {"delivering", "sending"} => target'[q] # NoRuntime
    BY <1>9, <2>1, <2>2, <2>3, <2>4, <2>5, <2>6 DEF RestartPosted, BootedViews
  <2>8. QED
    BY <2>1, <2>2, <2>3, <2>4, <2>5, <2>6, <2>7
<1>10. ASSUME NEW p \in Runtimes, Published(p) PROVE TypeInv'
  <2>1. UNCHANGED <<queue, torn>> /\ Enqueued' = Enqueued
    BY <1>10 DEF Published, Enqueued, barrierVars
  <2>2. stage' \in [Runtimes -> Stages]
    BY <1>10 DEF Published, Goto, Stages, RequestStages, PostStages
  <2>3. /\ \A q \in Runtimes : stage[q] # "unused" => stage'[q] # "unused"
        /\ \A q \in Runtimes :
             stage[q] \in {"reaping", "over"} => stage'[q] \in {"reaping", "over"}
    BY <1>10 DEF Published, Goto
  <2>4. QueuedTwice' /\ Enqueued' \in Teardowns /\ Enqueued' \in Nat
    BY <1>10, <2>1, <2>2, <2>3, StillTwice DEF Published
  <2>5. status' \in {"starting", "idle", "running", "failed", "finished"}
    BY <1>10 DEF Published, Goto
  <2>6. UNCHANGED <<rpc, alive, faulty, conv, target, queue, torn, broken, starters, restart,
                    restarts, view, views, booting, disposed, parityPassed, parityFailed,
                    sessionFile, resume, ownership, validated, uiHandled, prompts, late, chat>>
    BY <1>10 DEF Published, processVars, barrierVars, restartVars, viewVars, parityVars,
       fileVars, history
  <2>7. /\ BootedViews' /\ (rpc' # NoRuntime => stage'[rpc'] # "unused")
        /\ \A q \in Runtimes :
             stage'[q] \in {"delivering", "sending"} => target'[q] # NoRuntime
    BY <1>10, <2>1, <2>2, <2>3, <2>4, <2>5, <2>6 DEF Published, Goto, BootedViews, Stages
  <2>8. QED
    BY <2>1, <2>2, <2>3, <2>4, <2>5, <2>6, <2>7
<1>11. ASSUME NEW p \in Runtimes, Announced(p) PROVE TypeInv'
  <2>1. UNCHANGED <<queue, torn>> /\ Enqueued' = Enqueued
    BY <1>11 DEF Announced, Enqueued, barrierVars
  <2>2. stage' \in [Runtimes -> Stages]
    BY <1>11 DEF Announced, Goto, Stages, RequestStages, PostStages
  <2>3. /\ \A q \in Runtimes : stage[q] # "unused" => stage'[q] # "unused"
        /\ \A q \in Runtimes :
             stage[q] \in {"reaping", "over"} => stage'[q] \in {"reaping", "over"}
    BY <1>11 DEF Announced, Goto
  <2>4. QueuedTwice' /\ Enqueued' \in Teardowns /\ Enqueued' \in Nat
    BY <1>11, <2>1, <2>2, <2>3, StillTwice DEF Announced
  <2>5. /\ resume' \in Conversations \cup {NoFile}
        /\ ownership' \in {"none", "pending", "delivered", "restored"}
        /\ target' \in [Runtimes -> Runtimes \cup {NoRuntime}]
    BY <1>11 DEF Announced, Goto
  <2>6. UNCHANGED <<rpc, alive, faulty, conv, queue, torn, broken, starters, restart, restarts,
                    view, views, booting, disposed, parityPassed, parityFailed, status,
                    sessionFile, validated, uiHandled, prompts, late, chat>>
    BY <1>11 DEF Announced, processVars, barrierVars, restartVars, viewVars, parityVars,
       fileVars, history
  <2>7. /\ BootedViews' /\ (rpc' # NoRuntime => stage'[rpc'] # "unused")
        /\ \A q \in Runtimes :
             stage'[q] \in {"delivering", "sending"} => target'[q] # NoRuntime
    BY <1>11, <2>1, <2>2, <2>3, <2>4, <2>5, <2>6 DEF Announced, Goto, BootedViews, Stages
  <2>8. QED
    BY <2>1, <2>2, <2>3, <2>4, <2>5, <2>6, <2>7
<1>12. ASSUME NEW p \in Runtimes, Send(p) PROVE TypeInv'
  <2>1. UNCHANGED <<queue, torn>> /\ Enqueued' = Enqueued
    BY <1>12 DEF Send, Enqueued, barrierVars
  <2>2. stage' \in [Runtimes -> Stages]
    BY <1>12 DEF Send, Goto, Stages, RequestStages, PostStages
  <2>3. /\ \A q \in Runtimes : stage[q] # "unused" => stage'[q] # "unused"
        /\ \A q \in Runtimes :
             stage[q] \in {"reaping", "over"} => stage'[q] \in {"reaping", "over"}
    BY <1>12 DEF Send, Goto
  <2>4. QueuedTwice' /\ Enqueued' \in Teardowns /\ Enqueued' \in Nat
    BY <1>12, <2>1, <2>2, <2>3, StillTwice DEF Send
  <2>5. prompts' \subseteq Runtimes
    BY <1>12 DEF Send
  <2>6. UNCHANGED <<rpc, alive, faulty, conv, target, queue, torn, broken, starters, restart,
                    restarts, view, views, booting, disposed, parityPassed, parityFailed,
                    status, sessionFile, resume, ownership, validated, uiHandled, late, chat>>
    BY <1>12 DEF Send, processVars, barrierVars, restartVars, viewVars, parityVars, fileVars,
       history
  <2>7. /\ BootedViews' /\ (rpc' # NoRuntime => stage'[rpc'] # "unused")
        /\ \A q \in Runtimes :
             stage'[q] \in {"delivering", "sending"} => target'[q] # NoRuntime
    BY <1>12, <2>1, <2>2, <2>3, <2>4, <2>5, <2>6 DEF Send, Goto, BootedViews, Stages
  <2>8. QED
    BY <2>1, <2>2, <2>3, <2>4, <2>5, <2>6, <2>7
<1>13. ASSUME NEW p \in Runtimes, Settled(p) PROVE TypeInv'
  <2>1. UNCHANGED <<queue, torn>> /\ Enqueued' = Enqueued
    BY <1>13 DEF Settled, Enqueued, barrierVars
  <2>2. stage' \in [Runtimes -> Stages]
    BY <1>13 DEF Settled, Goto, Stages, RequestStages, PostStages
  <2>3. /\ \A q \in Runtimes : stage[q] # "unused" => stage'[q] # "unused"
        /\ \A q \in Runtimes :
             stage[q] \in {"reaping", "over"} => stage'[q] \in {"reaping", "over"}
    BY <1>13 DEF Settled, Goto
  <2>4. QueuedTwice' /\ Enqueued' \in Teardowns /\ Enqueued' \in Nat
    BY <1>13, <2>1, <2>2, <2>3, StillTwice DEF Settled
  <2>5. UNCHANGED <<rpc, alive, faulty, conv, target, queue, torn, broken, starters, restart,
                    restarts, view, views, booting, disposed, parityPassed, parityFailed,
                    status, sessionFile, resume, ownership, validated, uiHandled, prompts,
                    late, chat>>
    BY <1>13 DEF Settled, processVars, barrierVars, restartVars, viewVars, parityVars,
       fileVars, history
  <2>6. /\ BootedViews' /\ (rpc' # NoRuntime => stage'[rpc'] # "unused")
        /\ \A q \in Runtimes :
             stage'[q] \in {"delivering", "sending"} => target'[q] # NoRuntime
    BY <1>13, <2>1, <2>2, <2>3, <2>4, <2>5 DEF Settled, Goto, BootedViews, Stages
  <2>7. QED
    BY <2>1, <2>2, <2>3, <2>4, <2>5, <2>6
<1>14. ASSUME NEW p \in Runtimes, FailurePosted(p) PROVE TypeInv'
  <2>1. UNCHANGED <<queue, torn>> /\ Enqueued' = Enqueued
    BY <1>14 DEF FailurePosted, Enqueued, barrierVars
  <2>2. stage' \in [Runtimes -> Stages]
    BY <1>14 DEF FailurePosted, Goto, Stages, RequestStages, PostStages
  <2>3. /\ \A q \in Runtimes : stage[q] # "unused" => stage'[q] # "unused"
        /\ \A q \in Runtimes :
             stage[q] \in {"reaping", "over"} => stage'[q] \in {"reaping", "over"}
    BY <1>14 DEF FailurePosted, Goto
  <2>4. QueuedTwice' /\ Enqueued' \in Teardowns /\ Enqueued' \in Nat
    BY <1>14, <2>1, <2>2, <2>3, StillTwice DEF FailurePosted
  <2>5. ownership' \in {"none", "pending", "delivered", "restored"}
    BY <1>14 DEF FailurePosted, Goto, RestorePrompt
  <2>6. UNCHANGED <<rpc, alive, faulty, conv, target, queue, torn, broken, starters, restart,
                    restarts, view, views, booting, disposed, parityPassed, parityFailed,
                    status, sessionFile, resume, validated, uiHandled, prompts, late, chat>>
    BY <1>14 DEF FailurePosted, processVars, barrierVars, restartVars, viewVars, parityVars,
       fileVars, history
  <2>7. /\ BootedViews' /\ (rpc' # NoRuntime => stage'[rpc'] # "unused")
        /\ \A q \in Runtimes :
             stage'[q] \in {"delivering", "sending"} => target'[q] # NoRuntime
    BY <1>14, <2>1, <2>2, <2>3, <2>4, <2>5, <2>6 DEF FailurePosted, Goto, BootedViews, Stages
  <2>8. QED
    BY <2>1, <2>2, <2>3, <2>4, <2>5, <2>6, <2>7
<1>15. ASSUME NEW p \in Runtimes, FailureRestored(p) PROVE TypeInv'
  <2>1. rpc' = NoRuntime /\ queue' \in Seq(Runtimes) /\ Enqueued' = Enqueued + 1
    <3>1. queue' = Append(queue, p) /\ queue \in Seq(Runtimes) /\ torn' = torn /\ torn \in Nat
      BY <1>15, Numbers DEF FailureRestored
    <3>2. queue' \in Seq(Runtimes) /\ Len(queue') = Len(queue) + 1 /\ Len(queue) \in Nat
      BY <3>1
    <3>3. QED
      BY <1>15, <3>1, <3>2 DEF FailureRestored, Enqueued
  <2>2. stage' \in [Runtimes -> Stages]
    BY <1>15 DEF FailureRestored, Goto, Stages, RequestStages, PostStages
  <2>3. /\ \A q \in Runtimes : stage[q] # "unused" => stage'[q] # "unused"
        /\ \A q \in Runtimes :
             stage[q] \in {"reaping", "over"} => stage'[q] \in {"reaping", "over"}
    BY <1>15 DEF FailureRestored, Goto
  <2>4. stage[p] \notin {"reaping", "over"} /\ stage'[p] = "reaping"
    BY <1>15 DEF FailureRestored, Goto
  <2>5. QueuedTwice' /\ Enqueued' \in Teardowns /\ Enqueued' \in Nat
    BY <1>15, <2>1, <2>2, <2>3, <2>4, StillTwice
  <2>6. UNCHANGED <<alive, faulty, conv, target, torn, broken, starters, restart, restarts,
                    view, views, booting, disposed, parityPassed, parityFailed, status,
                    sessionFile, resume, ownership, validated, uiHandled, prompts, late, chat>>
    BY <1>15 DEF FailureRestored, processVars, barrierVars, restartVars, viewVars, parityVars,
       fileVars, history
  <2>7. /\ BootedViews' /\ (rpc' # NoRuntime => stage'[rpc'] # "unused")
        /\ \A q \in Runtimes :
             stage'[q] \in {"delivering", "sending"} => target'[q] # NoRuntime
    BY <1>15, <2>1, <2>2, <2>3, <2>4, <2>5, <2>6 DEF FailureRestored, Goto, BootedViews, Stages
  <2>8. QED
    BY <2>1, <2>2, <2>3, <2>4, <2>5, <2>6, <2>7
<1>16. ASSUME Teardown PROVE TypeInv'
  <2>1. queue' \in Seq(Runtimes) /\ torn' \in Nat /\ Len(queue') \in Nat /\ Enqueued' = Enqueued
    <3>1. queue \in Seq(Runtimes) /\ queue # <<>> /\ torn \in Nat
      BY <1>16, Numbers DEF Teardown
    <3>2. /\ Tail(queue) \in Seq(Runtimes) /\ Len(Tail(queue)) = Len(queue) - 1
          /\ Len(queue) \in Nat \ {0}
      BY <3>1
    <3>3. CASE queue' = Tail(queue) /\ torn' = torn + 1
      BY <3>1, <3>2, <3>3 DEF Enqueued
    <3>4. CASE UNCHANGED <<queue, torn>>
      BY <3>1, <3>2, <3>4 DEF Enqueued
    <3>5. QED
      BY <1>16, <3>3, <3>4 DEF Teardown
  <2>2. stage' \in [Runtimes -> Stages]
    BY <1>16 DEF Teardown, Stages, RequestStages, PostStages
  <2>3. /\ \A q \in Runtimes : stage[q] # "unused" => stage'[q] # "unused"
        /\ \A q \in Runtimes :
             stage[q] \in {"reaping", "over"} => stage'[q] \in {"reaping", "over"}
    BY <1>16 DEF Teardown
  <2>4. QueuedTwice' /\ Enqueued' \in Teardowns /\ Enqueued' \in Nat
    BY <1>16, <2>1, <2>2, <2>3, StillTwice DEF Teardown
  <2>5. torn' \in Teardowns
    BY <2>1, <2>4, Numbers DEF Enqueued, Teardowns
  <2>6. alive' \in [Runtimes -> BOOLEAN]
    BY <1>16 DEF Teardown
  <2>7. broken' \in BOOLEAN
    BY <1>16, Zenon DEF Teardown
  <2>8. UNCHANGED <<rpc, faulty, conv, target, starters, restart, restarts, view, views,
                    booting, disposed, parityPassed, parityFailed, status, sessionFile, resume,
                    ownership, validated, uiHandled, prompts, late, chat>>
    BY <1>16 DEF Teardown, processVars, restartVars, viewVars, parityVars, fileVars, history
  <2>9. /\ BootedViews' /\ (rpc' # NoRuntime => stage'[rpc'] # "unused")
        /\ \A q \in Runtimes :
             stage'[q] \in {"delivering", "sending"} => target'[q] # NoRuntime
    BY <1>16, <2>1, <2>2, <2>3, <2>4, <2>5, <2>6, <2>7, <2>8 DEF Teardown, BootedViews, Stages
  <2>10. QED
    BY <2>1, <2>2, <2>3, <2>4, <2>5, <2>6, <2>7, <2>8, <2>9
<1>17. ASSUME DisposeDone PROVE TypeInv'
  <2>1. UNCHANGED <<queue, torn>> /\ Enqueued' = Enqueued
    BY <1>17 DEF DisposeDone, Enqueued, barrierVars
  <2>2. /\ \A q \in Runtimes : stage[q] # "unused" => stage'[q] # "unused"
        /\ \A q \in Runtimes :
             stage[q] \in {"reaping", "over"} => stage'[q] \in {"reaping", "over"}
    BY <1>17 DEF DisposeDone
  <2>3. QueuedTwice' /\ Enqueued' \in Teardowns /\ Enqueued' \in Nat
    BY <1>17, <2>1, <2>2, StillTwice DEF DisposeDone
  <2>4. disposed' \in [at : {"no", "draining", "done"}, after : Teardowns]
    BY <1>17 DEF DisposeDone, Teardowns, MaxRuntimes, Runtimes
  <2>5. UNCHANGED <<rpc, stage, alive, faulty, conv, target, queue, torn, broken, starters,
                    restart, restarts, view, views, booting, parityPassed, parityFailed,
                    status, sessionFile, resume, ownership, validated, uiHandled, prompts,
                    late, chat>>
    BY <1>17 DEF DisposeDone, processVars, barrierVars, restartVars, viewVars, parityVars,
       fileVars, history
  <2>6. /\ BootedViews' /\ (rpc' # NoRuntime => stage'[rpc'] # "unused")
        /\ \A q \in Runtimes :
             stage'[q] \in {"delivering", "sending"} => target'[q] # NoRuntime
    BY <1>17, <2>1, <2>2, <2>3, <2>4, <2>5 DEF DisposeDone, BootedViews
  <2>7. QED
    BY <2>1, <2>2, <2>3, <2>4, <2>5, <2>6
<1>18. ASSUME RestartDone PROVE TypeInv'
  <2>1. UNCHANGED <<queue, torn>> /\ Enqueued' = Enqueued
    BY <1>18 DEF RestartDone, Enqueued, barrierVars
  <2>2. /\ \A q \in Runtimes : stage[q] # "unused" => stage'[q] # "unused"
        /\ \A q \in Runtimes :
             stage[q] \in {"reaping", "over"} => stage'[q] \in {"reaping", "over"}
    BY <1>18 DEF RestartDone
  <2>3. QueuedTwice' /\ Enqueued' \in Teardowns /\ Enqueued' \in Nat
    BY <1>18, <2>1, <2>2, StillTwice DEF RestartDone
  <2>4. restart' \in [at : {"none", "draining", "releasing", "probing", "posting",
                        "starting", "startup"}, after : Teardowns]
    BY <1>18 DEF RestartDone, RestartTo, Teardowns, MaxRuntimes, Runtimes
  <2>5. UNCHANGED <<rpc, stage, alive, faulty, conv, target, queue, torn, broken, starters,
                    restarts, view, views, booting, disposed, parityPassed, parityFailed,
                    status, sessionFile, resume, ownership, validated, uiHandled, prompts,
                    late, chat>>
    BY <1>18 DEF RestartDone, processVars, barrierVars, restartVars, viewVars, parityVars,
       fileVars, history
  <2>6. /\ BootedViews' /\ (rpc' # NoRuntime => stage'[rpc'] # "unused")
        /\ \A q \in Runtimes :
             stage'[q] \in {"delivering", "sending"} => target'[q] # NoRuntime
    BY <1>18, <2>1, <2>2, <2>3, <2>4, <2>5 DEF RestartDone, BootedViews
  <2>7. QED
    BY <2>1, <2>2, <2>3, <2>4, <2>5, <2>6
<1>19. ASSUME NEW p \in Runtimes, FrameReady(p) PROVE TypeInv'
  <2>1. UNCHANGED <<queue, torn>> /\ Enqueued' = Enqueued
    BY <1>19 DEF FrameReady, Enqueued, barrierVars
  <2>2. stage' \in [Runtimes -> Stages]
    BY <1>19 DEF FrameReady, Continue, Goto, Stages, RequestStages, PostStages
  <2>3. /\ \A q \in Runtimes : stage[q] # "unused" => stage'[q] # "unused"
        /\ \A q \in Runtimes :
             stage[q] \in {"reaping", "over"} => stage'[q] \in {"reaping", "over"}
    BY <1>19 DEF FrameReady, Continue, Goto
  <2>4. QueuedTwice' /\ Enqueued' \in Teardowns /\ Enqueued' \in Nat
    BY <1>19, <2>1, <2>2, <2>3, StillTwice DEF FrameReady
  <2>5. UNCHANGED <<rpc, alive, faulty, conv, target, queue, torn, broken, starters, restart,
                    restarts, view, views, booting, disposed, parityPassed, parityFailed,
                    status, sessionFile, resume, ownership, validated, uiHandled, prompts,
                    late, chat>>
    BY <1>19 DEF FrameReady, processVars, barrierVars, restartVars, viewVars, parityVars,
       fileVars, history
  <2>6. /\ BootedViews' /\ (rpc' # NoRuntime => stage'[rpc'] # "unused")
        /\ \A q \in Runtimes :
             stage'[q] \in {"delivering", "sending"} => target'[q] # NoRuntime
    BY <1>19, <2>1, <2>2, <2>3, <2>4, <2>5 DEF FrameReady, Continue, Goto, BootedViews, Stages
  <2>7. QED
    BY <2>1, <2>2, <2>3, <2>4, <2>5, <2>6
<1>20. ASSUME NEW p \in Runtimes, Started(p) PROVE TypeInv'
  <2>1. UNCHANGED <<queue, torn>> /\ Enqueued' = Enqueued
    BY <1>20 DEF Started, Enqueued, barrierVars
  <2>2. stage' \in [Runtimes -> Stages]
    BY <1>20 DEF Started, Continue, Goto, IfCurrent, Stages, RequestStages, PostStages
  <2>3. /\ \A q \in Runtimes : stage[q] # "unused" => stage'[q] # "unused"
        /\ \A q \in Runtimes :
             stage[q] \in {"reaping", "over"} => stage'[q] \in {"reaping", "over"}
    BY <1>20 DEF Started, Continue, Goto, IfCurrent
  <2>4. QueuedTwice' /\ Enqueued' \in Teardowns /\ Enqueued' \in Nat
    BY <1>20, <2>1, <2>2, <2>3, StillTwice DEF Started
  <2>5. conv' \in [Runtimes -> Conversations]
    BY <1>20 DEF Started, Continue, Goto, IfCurrent, MaxRuntimes, Runtimes, Conversations
  <2>6. UNCHANGED <<rpc, alive, faulty, target, queue, torn, broken, starters, restart,
                    restarts, view, views, booting, disposed, parityPassed, parityFailed,
                    status, sessionFile, resume, ownership, validated, uiHandled, prompts,
                    late, chat>>
    BY <1>20 DEF Started, processVars, barrierVars, restartVars, viewVars, parityVars,
       fileVars, history
  <2>7. /\ BootedViews' /\ (rpc' # NoRuntime => stage'[rpc'] # "unused")
        /\ \A q \in Runtimes :
             stage'[q] \in {"delivering", "sending"} => target'[q] # NoRuntime
    BY <1>20, <2>1, <2>2, <2>3, <2>4, <2>5, <2>6 DEF Started, Continue, Goto, IfCurrent,
       BootedViews, Stages
  <2>8. QED
    BY <2>1, <2>2, <2>3, <2>4, <2>5, <2>6, <2>7
<1>21. ASSUME NEW p \in Runtimes, Switched(p) PROVE TypeInv'
  <2>1. UNCHANGED <<queue, torn>> /\ Enqueued' = Enqueued
    BY <1>21 DEF Switched, Enqueued, barrierVars
  <2>2. stage' \in [Runtimes -> Stages]
    BY <1>21 DEF Switched, Continue, Goto, Stages, RequestStages, PostStages
  <2>3. /\ \A q \in Runtimes : stage[q] # "unused" => stage'[q] # "unused"
        /\ \A q \in Runtimes :
             stage[q] \in {"reaping", "over"} => stage'[q] \in {"reaping", "over"}
    BY <1>21 DEF Switched, Continue, Goto
  <2>4. QueuedTwice' /\ Enqueued' \in Teardowns /\ Enqueued' \in Nat
    BY <1>21, <2>1, <2>2, <2>3, StillTwice DEF Switched
  <2>5. UNCHANGED <<rpc, alive, faulty, conv, target, queue, torn, broken, starters, restart,
                    restarts, view, views, booting, disposed, parityPassed, parityFailed,
                    status, sessionFile, resume, ownership, validated, uiHandled, prompts,
                    late, chat>>
    BY <1>21 DEF Switched, processVars, barrierVars, restartVars, viewVars, parityVars,
       fileVars, history
  <2>6. /\ BootedViews' /\ (rpc' # NoRuntime => stage'[rpc'] # "unused")
        /\ \A q \in Runtimes :
             stage'[q] \in {"delivering", "sending"} => target'[q] # NoRuntime
    BY <1>21, <2>1, <2>2, <2>3, <2>4, <2>5 DEF Switched, Continue, Goto, BootedViews, Stages
  <2>7. QED
    BY <2>1, <2>2, <2>3, <2>4, <2>5, <2>6
<1>22. ASSUME NEW p \in Runtimes, ParityPasses(p) PROVE TypeInv'
  <2>1. UNCHANGED <<queue, torn>> /\ Enqueued' = Enqueued
    BY <1>22 DEF ParityPasses, Enqueued, barrierVars
  <2>2. stage' \in [Runtimes -> Stages]
    BY <1>22 DEF ParityPasses, Continue, Goto, Stages, RequestStages, PostStages
  <2>3. /\ \A q \in Runtimes : stage[q] # "unused" => stage'[q] # "unused"
        /\ \A q \in Runtimes :
             stage[q] \in {"reaping", "over"} => stage'[q] \in {"reaping", "over"}
    BY <1>22 DEF ParityPasses, Continue, Goto
  <2>4. QueuedTwice' /\ Enqueued' \in Teardowns /\ Enqueued' \in Nat
    BY <1>22, <2>1, <2>2, <2>3, StillTwice DEF ParityPasses
  <2>5. /\ sessionFile' \in Conversations \cup {NoFile}
        /\ chat' \in Conversations \cup {NoFile} /\ validated' \subseteq Runtimes
    BY <1>22 DEF ParityPasses, Continue, Goto, StateKnown, MaxRuntimes, Runtimes, Conversations
  <2>6. parityPassed' \in BOOLEAN
    BY <1>22, Zenon DEF ParityPasses, Continue, Goto, StateKnown
  <2>6a. status' \in {"starting", "idle", "running", "failed", "finished"}
    BY <1>22 DEF ParityPasses
  <2>7. UNCHANGED <<rpc, alive, faulty, conv, target, queue, torn, broken, starters, restart,
                    restarts, view, views, booting, disposed, parityFailed, resume,
                    ownership, uiHandled, prompts, late>>
    BY <1>22 DEF ParityPasses, StateKnown, processVars, barrierVars, restartVars, viewVars,
       parityVars, fileVars, history
  <2>8. /\ BootedViews' /\ (rpc' # NoRuntime => stage'[rpc'] # "unused")
        /\ \A q \in Runtimes :
             stage'[q] \in {"delivering", "sending"} => target'[q] # NoRuntime
    BY <1>22, <2>1, <2>2, <2>3, <2>4, <2>5, <2>6, <2>6a, <2>7 DEF ParityPasses, Continue, Goto,
       BootedViews, Stages
  <2>9. QED
    BY <2>1, <2>2, <2>3, <2>4, <2>5, <2>6, <2>6a, <2>7, <2>8
<1>23. ASSUME NEW p \in Runtimes, ParityFails(p) PROVE TypeInv'
  <2>1. /\ rpc' = NoRuntime /\ queue' \in Seq(Runtimes) /\ Enqueued' = torn + Len(queue')
        /\ \/ Enqueued' = Enqueued
           \/ /\ Enqueued' = Enqueued + 1
              /\ \E q \in Runtimes : q = rpc /\ stage[q] # "unused" /\ rpc' = NoRuntime
    BY <1>23, DroppedOnce DEF ParityFails, BlockParity
  <2>2. stage' \in [Runtimes -> Stages]
    BY <1>23 DEF ParityFails, Continue, Goto, Stages, RequestStages, PostStages
  <2>3. /\ \A q \in Runtimes : stage[q] # "unused" => stage'[q] # "unused"
        /\ \A q \in Runtimes :
             stage[q] \in {"reaping", "over"} => stage'[q] \in {"reaping", "over"}
    BY <1>23 DEF ParityFails, Continue, Goto
  <2>4. QueuedTwice' /\ Enqueued' \in Teardowns /\ Enqueued' \in Nat
    BY <1>23, <2>1, <2>2, <2>3, StillTwice
  <2>5. /\ sessionFile' \in Conversations \cup {NoFile}
        /\ chat' \in Conversations \cup {NoFile}
        /\ status' \in {"starting", "idle", "running", "failed", "finished"}
        /\ ownership' \in {"none", "pending", "delivered", "restored"}
    BY <1>23 DEF ParityFails, Continue, Goto, StateKnown, BlockParity, DropRuntime,
       RestorePrompt, MaxRuntimes, Runtimes, Conversations
  <2>6. parityFailed' \in BOOLEAN /\ parityPassed' \in BOOLEAN
    BY <1>23, Zenon DEF ParityFails, Continue, Goto, StateKnown, BlockParity, DropRuntime,
       RestorePrompt
  <2>7. UNCHANGED <<alive, faulty, conv, target, torn, broken, starters, restart, restarts,
                    view, views, booting, disposed, resume, validated, uiHandled, prompts, late>>
    BY <1>23 DEF ParityFails, StateKnown, processVars, barrierVars, restartVars, viewVars,
       fileVars, history
  <2>8. /\ BootedViews' /\ (rpc' # NoRuntime => stage'[rpc'] # "unused")
        /\ \A q \in Runtimes :
             stage'[q] \in {"delivering", "sending"} => target'[q] # NoRuntime
    BY <1>23, <2>1, <2>2, <2>3, <2>4, <2>5, <2>6, <2>7 DEF ParityFails, Continue, Goto,
       BootedViews, Stages
  <2>9. QED
    BY <2>1, <2>2, <2>3, <2>4, <2>5, <2>6, <2>7, <2>8
<1>24. ASSUME NEW p \in Runtimes, AdvisorVerified(p) PROVE TypeInv'
  <2>1. UNCHANGED <<queue, torn>> /\ Enqueued' = Enqueued
    BY <1>24 DEF AdvisorVerified, Enqueued, barrierVars
  <2>2. stage' \in [Runtimes -> Stages]
    BY <1>24 DEF AdvisorVerified, Continue, Goto, IfCurrent, Stages, RequestStages, PostStages
  <2>3. /\ \A q \in Runtimes : stage[q] # "unused" => stage'[q] # "unused"
        /\ \A q \in Runtimes :
             stage[q] \in {"reaping", "over"} => stage'[q] \in {"reaping", "over"}
    BY <1>24 DEF AdvisorVerified, Continue, Goto, IfCurrent
  <2>4. QueuedTwice' /\ Enqueued' \in Teardowns /\ Enqueued' \in Nat
    BY <1>24, <2>1, <2>2, <2>3, StillTwice DEF AdvisorVerified
  <2>5. UNCHANGED <<rpc, alive, faulty, conv, target, queue, torn, broken, starters, restart,
                    restarts, view, views, booting, disposed, parityPassed, parityFailed,
                    status, sessionFile, resume, ownership, validated, uiHandled, prompts,
                    late, chat>>
    BY <1>24 DEF AdvisorVerified, processVars, barrierVars, restartVars, viewVars, parityVars,
       fileVars, history
  <2>6. /\ BootedViews' /\ (rpc' # NoRuntime => stage'[rpc'] # "unused")
        /\ \A q \in Runtimes :
             stage'[q] \in {"delivering", "sending"} => target'[q] # NoRuntime
    BY <1>24, <2>1, <2>2, <2>3, <2>4, <2>5 DEF AdvisorVerified, Continue, Goto, IfCurrent,
       BootedViews, Stages
  <2>7. QED
    BY <2>1, <2>2, <2>3, <2>4, <2>5, <2>6
<1>25. ASSUME NEW p \in Runtimes, HistoryLoaded(p) PROVE TypeInv'
  <2>1. UNCHANGED <<queue, torn>> /\ Enqueued' = Enqueued
    BY <1>25 DEF HistoryLoaded, Enqueued, barrierVars
  <2>2. stage' \in [Runtimes -> Stages]
    BY <1>25 DEF HistoryLoaded, Continue, Goto, IfCurrent, Stages, RequestStages, PostStages
  <2>3. /\ \A q \in Runtimes : stage[q] # "unused" => stage'[q] # "unused"
        /\ \A q \in Runtimes :
             stage[q] \in {"reaping", "over"} => stage'[q] \in {"reaping", "over"}
    BY <1>25 DEF HistoryLoaded, Continue, Goto, IfCurrent
  <2>4. QueuedTwice' /\ Enqueued' \in Teardowns /\ Enqueued' \in Nat
    BY <1>25, <2>1, <2>2, <2>3, StillTwice DEF HistoryLoaded
  <2>5. UNCHANGED <<rpc, alive, faulty, conv, target, queue, torn, broken, starters, restart,
                    restarts, view, views, booting, disposed, parityPassed, parityFailed,
                    status, sessionFile, resume, ownership, validated, uiHandled, prompts,
                    late, chat>>
    BY <1>25 DEF HistoryLoaded, processVars, barrierVars, restartVars, viewVars, parityVars,
       fileVars, history
  <2>6. /\ BootedViews' /\ (rpc' # NoRuntime => stage'[rpc'] # "unused")
        /\ \A q \in Runtimes :
             stage'[q] \in {"delivering", "sending"} => target'[q] # NoRuntime
    BY <1>25, <2>1, <2>2, <2>3, <2>4, <2>5 DEF HistoryLoaded, Continue, Goto, IfCurrent,
       BootedViews, Stages
  <2>7. QED
    BY <2>1, <2>2, <2>3, <2>4, <2>5, <2>6
<1>26. ASSUME NEW p \in Runtimes, Deliver(p) PROVE TypeInv'
  <2>1. UNCHANGED <<queue, torn>> /\ Enqueued' = Enqueued
    BY <1>26 DEF Deliver, Enqueued, barrierVars
  <2>2. stage' \in [Runtimes -> Stages]
    BY <1>26 DEF Deliver, Goto, Stages, RequestStages, PostStages
  <2>3. /\ \A q \in Runtimes : stage[q] # "unused" => stage'[q] # "unused"
        /\ \A q \in Runtimes :
             stage[q] \in {"reaping", "over"} => stage'[q] \in {"reaping", "over"}
    BY <1>26 DEF Deliver, Goto
  <2>4. QueuedTwice' /\ Enqueued' \in Teardowns /\ Enqueued' \in Nat
    BY <1>26, <2>1, <2>2, <2>3, StillTwice DEF Deliver
  <2>5. UNCHANGED <<rpc, alive, faulty, conv, target, queue, torn, broken, starters, restart,
                    restarts, view, views, booting, disposed, parityPassed, parityFailed,
                    status, sessionFile, resume, ownership, validated, uiHandled, prompts,
                    late, chat>>
    BY <1>26 DEF Deliver, processVars, barrierVars, restartVars, viewVars, parityVars,
       fileVars, history
  <2>6. /\ BootedViews' /\ (rpc' # NoRuntime => stage'[rpc'] # "unused")
        /\ \A q \in Runtimes :
             stage'[q] \in {"delivering", "sending"} => target'[q] # NoRuntime
    BY <1>26, <2>1, <2>2, <2>3, <2>4, <2>5 DEF Deliver, Goto, BootedViews, Stages
  <2>7. QED
    BY <2>1, <2>2, <2>3, <2>4, <2>5, <2>6
<1>27. ASSUME NEW p \in Runtimes, Reaped(p) PROVE TypeInv'
  <2>1. UNCHANGED <<queue, torn>> /\ Enqueued' = Enqueued
    BY <1>27 DEF Reaped, Enqueued, barrierVars
  <2>2. stage' \in [Runtimes -> Stages]
    BY <1>27 DEF Reaped, Goto, Stages, RequestStages, PostStages
  <2>3. /\ \A q \in Runtimes : stage[q] # "unused" => stage'[q] # "unused"
        /\ \A q \in Runtimes :
             stage[q] \in {"reaping", "over"} => stage'[q] \in {"reaping", "over"}
    BY <1>27 DEF Reaped, Goto
  <2>4. QueuedTwice' /\ Enqueued' \in Teardowns /\ Enqueued' \in Nat
    BY <1>27, <2>1, <2>2, <2>3, StillTwice DEF Reaped
  <2>5. UNCHANGED <<rpc, alive, faulty, conv, target, queue, torn, broken, starters, restart,
                    restarts, view, views, booting, disposed, parityPassed, parityFailed,
                    status, sessionFile, resume, ownership, validated, uiHandled, prompts,
                    late, chat>>
    BY <1>27 DEF Reaped, processVars, barrierVars, restartVars, viewVars, parityVars,
       fileVars, history
  <2>6. /\ BootedViews' /\ (rpc' # NoRuntime => stage'[rpc'] # "unused")
        /\ \A q \in Runtimes :
             stage'[q] \in {"delivering", "sending"} => target'[q] # NoRuntime
    BY <1>27, <2>1, <2>2, <2>3, <2>4, <2>5 DEF Reaped, Goto, BootedViews, Stages
  <2>7. QED
    BY <2>1, <2>2, <2>3, <2>4, <2>5, <2>6
<1>28. ASSUME NEW p \in Runtimes, Block(p) PROVE TypeInv'
  <2>1. /\ rpc' = NoRuntime /\ queue' \in Seq(Runtimes) /\ Enqueued' = torn + Len(queue')
        /\ \/ Enqueued' = Enqueued
           \/ /\ Enqueued' = Enqueued + 1
              /\ \E q \in Runtimes : q = rpc /\ stage[q] # "unused" /\ rpc' = NoRuntime
    BY <1>28, DroppedOnce DEF Block, BlockParity
  <2>2. /\ \A q \in Runtimes : stage[q] # "unused" => stage'[q] # "unused"
        /\ \A q \in Runtimes :
             stage[q] \in {"reaping", "over"} => stage'[q] \in {"reaping", "over"}
    BY <1>28 DEF Block
  <2>3. QueuedTwice' /\ Enqueued' \in Teardowns /\ Enqueued' \in Nat
    BY <1>28, <2>1, <2>2, StillTwice
  <2>4. parityFailed' \in BOOLEAN /\ parityPassed' \in BOOLEAN
    BY <1>28, Zenon DEF Block, BlockParity, DropRuntime, RestorePrompt
  <2>5. /\ status' \in {"starting", "idle", "running", "failed", "finished"}
        /\ ownership' \in {"none", "pending", "delivered", "restored"}
    BY <1>28 DEF Block, BlockParity, DropRuntime, RestorePrompt
  <2>6. UNCHANGED <<stage, alive, faulty, conv, target, torn, broken, starters, restart,
                    restarts, view, views, booting, disposed, sessionFile, resume, validated,
                    uiHandled, prompts, late, chat>>
    BY <1>28 DEF Block, processVars, barrierVars, restartVars, viewVars, fileVars, history
  <2>7. /\ BootedViews' /\ (rpc' # NoRuntime => stage'[rpc'] # "unused")
        /\ \A q \in Runtimes :
             stage'[q] \in {"delivering", "sending"} => target'[q] # NoRuntime
    BY <1>28, <2>1, <2>2, <2>3, <2>4, <2>5, <2>6 DEF Block, BootedViews
  <2>8. QED
    BY <2>1, <2>2, <2>3, <2>4, <2>5, <2>6, <2>7
<1>29. ASSUME NEW p \in Runtimes, Exit(p) PROVE TypeInv'
  <2>1. UNCHANGED <<queue, torn>> /\ Enqueued' = Enqueued
    BY <1>29 DEF Exit, ExitAs, Enqueued, barrierVars
  <2>2. /\ \A q \in Runtimes : stage[q] # "unused" => stage'[q] # "unused"
        /\ \A q \in Runtimes :
             stage[q] \in {"reaping", "over"} => stage'[q] \in {"reaping", "over"}
    BY <1>29 DEF Exit, ExitAs
  <2>3. QueuedTwice' /\ Enqueued' \in Teardowns /\ Enqueued' \in Nat
    BY <1>29, <2>1, <2>2, StillTwice DEF Exit, ExitAs
  <2>4. alive' \in [Runtimes -> BOOLEAN]
    BY <1>29 DEF Exit, ExitAs, RestorePrompt
  <2>5. /\ rpc' \in Runtimes \cup {NoRuntime}
        /\ ownership' \in {"none", "pending", "delivered", "restored"}
        /\ status' \in {"starting", "idle", "running", "failed", "finished"}
    BY <1>29 DEF Exit, ExitAs, RestorePrompt
  <2>6. UNCHANGED <<stage, faulty, conv, target, queue, torn, broken, starters, restart,
                    restarts, view, views, booting, disposed, parityPassed, parityFailed,
                    sessionFile, resume, validated, uiHandled, prompts, late, chat>>
    BY <1>29 DEF Exit, ExitAs, processVars, barrierVars, restartVars, viewVars, parityVars,
       fileVars, history
  <2>7. /\ BootedViews' /\ (rpc' # NoRuntime => stage'[rpc'] # "unused")
        /\ \A q \in Runtimes :
             stage'[q] \in {"delivering", "sending"} => target'[q] # NoRuntime
    BY <1>29, <2>1, <2>2, <2>3, <2>4, <2>5, <2>6 DEF Exit, ExitAs, BootedViews
  <2>8. QED
    BY <2>1, <2>2, <2>3, <2>4, <2>5, <2>6, <2>7
<1>30. ASSUME NEW p \in Runtimes, ProtocolError(p) PROVE TypeInv'
  <2>1. UNCHANGED <<queue, torn>> /\ Enqueued' = Enqueued
    BY <1>30 DEF ProtocolError, Enqueued, barrierVars
  <2>2. /\ \A q \in Runtimes : stage[q] # "unused" => stage'[q] # "unused"
        /\ \A q \in Runtimes :
             stage[q] \in {"reaping", "over"} => stage'[q] \in {"reaping", "over"}
    BY <1>30 DEF ProtocolError
  <2>3. QueuedTwice' /\ Enqueued' \in Teardowns /\ Enqueued' \in Nat
    BY <1>30, <2>1, <2>2, StillTwice DEF ProtocolError
  <2>4. /\ faulty' \subseteq Runtimes
        /\ status' \in {"starting", "idle", "running", "failed", "finished"}
        /\ ownership' \in {"none", "pending", "delivered", "restored"}
    BY <1>30 DEF ProtocolError, RestorePrompt
  <2>5. parityFailed' \in BOOLEAN
    BY <1>30, Zenon DEF ProtocolError, RestorePrompt
  <2>6. UNCHANGED <<rpc, stage, alive, conv, target, queue, torn, broken, starters, restart,
                    restarts, view, views, booting, disposed, parityPassed, sessionFile,
                    resume, validated, uiHandled, prompts, late, chat>>
    BY <1>30 DEF ProtocolError, processVars, barrierVars, restartVars, viewVars, parityVars,
       fileVars, history
  <2>7. /\ BootedViews' /\ (rpc' # NoRuntime => stage'[rpc'] # "unused")
        /\ \A q \in Runtimes :
             stage'[q] \in {"delivering", "sending"} => target'[q] # NoRuntime
    BY <1>30, <2>1, <2>2, <2>3, <2>4, <2>5, <2>6 DEF ProtocolError, BootedViews
  <2>8. QED
    BY <2>1, <2>2, <2>3, <2>4, <2>5, <2>6, <2>7
<1>31a. ASSUME NEW p \in Runtimes, TurnFrame(p) PROVE TypeInv'
  <2>1. UNCHANGED <<queue, torn>> /\ Enqueued' = Enqueued
    BY <1>31a DEF TurnFrame, Enqueued, barrierVars
  <2>2. /\ \A q \in Runtimes : stage[q] # "unused" => stage'[q] # "unused"
        /\ \A q \in Runtimes :
             stage[q] \in {"reaping", "over"} => stage'[q] \in {"reaping", "over"}
    BY <1>31a DEF TurnFrame
  <2>3. QueuedTwice' /\ Enqueued' \in Teardowns /\ Enqueued' \in Nat
    BY <1>31a, <2>1, <2>2, StillTwice DEF TurnFrame
  <2>4. status' \in {"starting", "idle", "running", "failed", "finished"}
    BY <1>31a DEF TurnFrame
  <2>5. late' \in BOOLEAN
    BY <1>31a, Zenon DEF TurnFrame
  <2>6. UNCHANGED <<rpc, stage, alive, faulty, conv, target, queue, torn, broken, starters,
                    restart, restarts, view, views, booting, disposed, parityPassed,
                    parityFailed, sessionFile, resume, ownership, validated, uiHandled,
                    prompts, chat>>
    BY <1>31a DEF TurnFrame, processVars, barrierVars, restartVars, viewVars, parityVars,
       fileVars
  <2>7. /\ BootedViews' /\ (rpc' # NoRuntime => stage'[rpc'] # "unused")
        /\ \A q \in Runtimes :
             stage'[q] \in {"delivering", "sending"} => target'[q] # NoRuntime
    BY <1>31a, <2>1, <2>2, <2>3, <2>4, <2>5, <2>6 DEF TurnFrame, BootedViews
  <2>8. QED
    BY <2>1, <2>2, <2>3, <2>4, <2>5, <2>6, <2>7
<1>31. ASSUME NEW p \in Runtimes, UiRequest(p) PROVE TypeInv'
  <2>1. UNCHANGED <<queue, torn>> /\ Enqueued' = Enqueued
    BY <1>31 DEF UiRequest, Enqueued, barrierVars
  <2>2. /\ \A q \in Runtimes : stage[q] # "unused" => stage'[q] # "unused"
        /\ \A q \in Runtimes :
             stage[q] \in {"reaping", "over"} => stage'[q] \in {"reaping", "over"}
    BY <1>31 DEF UiRequest
  <2>3. QueuedTwice' /\ Enqueued' \in Teardowns /\ Enqueued' \in Nat
    BY <1>31, <2>1, <2>2, StillTwice DEF UiRequest
  <2>4. uiHandled' \subseteq Runtimes
    BY <1>31 DEF UiRequest
  <2>5. UNCHANGED <<rpc, stage, alive, faulty, conv, target, queue, torn, broken, starters,
                    restart, restarts, view, views, booting, disposed, parityPassed,
                    parityFailed, status, sessionFile, resume, ownership, validated, prompts,
                    late, chat>>
    BY <1>31 DEF UiRequest, processVars, barrierVars, restartVars, viewVars, parityVars,
       fileVars, history
  <2>6. /\ BootedViews' /\ (rpc' # NoRuntime => stage'[rpc'] # "unused")
        /\ \A q \in Runtimes :
             stage'[q] \in {"delivering", "sending"} => target'[q] # NoRuntime
    BY <1>31, <2>1, <2>2, <2>3, <2>4, <2>5 DEF UiRequest, BootedViews
  <2>7. QED
    BY <2>1, <2>2, <2>3, <2>4, <2>5, <2>6
<1>32. ASSUME Attach PROVE TypeInv'
  <2>1. UNCHANGED <<queue, torn>> /\ Enqueued' = Enqueued
    BY <1>32 DEF Attach, Enqueued, barrierVars
  <2>2. /\ \A q \in Runtimes : stage[q] # "unused" => stage'[q] # "unused"
        /\ \A q \in Runtimes :
             stage[q] \in {"reaping", "over"} => stage'[q] \in {"reaping", "over"}
    BY <1>32 DEF Attach
  <2>3. QueuedTwice' /\ Enqueued' \in Teardowns /\ Enqueued' \in Nat
    BY <1>32, <2>1, <2>2, StillTwice DEF Attach
  <2>4. view' \in {"none", "loading", "ready"} /\ views' \in 0..MaxViews
    BY <1>32 DEF Attach
  <2>5. UNCHANGED <<rpc, stage, alive, faulty, conv, target, queue, torn, broken, starters,
                    restart, restarts, booting, disposed, parityPassed, parityFailed, status,
                    sessionFile, resume, ownership, validated, uiHandled, prompts, late, chat>>
    BY <1>32 DEF Attach, processVars, barrierVars, restartVars, viewVars, parityVars,
       fileVars, history
  <2>6. /\ BootedViews' /\ (rpc' # NoRuntime => stage'[rpc'] # "unused")
        /\ \A q \in Runtimes :
             stage'[q] \in {"delivering", "sending"} => target'[q] # NoRuntime
    BY <1>32, <2>1, <2>2, <2>3, <2>4, <2>5 DEF Attach, BootedViews
  <2>7. QED
    BY <2>1, <2>2, <2>3, <2>4, <2>5, <2>6
<1>33. ASSUME Detach PROVE TypeInv'
  <2>1. UNCHANGED <<queue, torn>> /\ Enqueued' = Enqueued
    BY <1>33 DEF Detach, Enqueued, barrierVars
  <2>2. /\ \A q \in Runtimes : stage[q] # "unused" => stage'[q] # "unused"
        /\ \A q \in Runtimes :
             stage[q] \in {"reaping", "over"} => stage'[q] \in {"reaping", "over"}
    BY <1>33 DEF Detach
  <2>3. QueuedTwice' /\ Enqueued' \in Teardowns /\ Enqueued' \in Nat
    BY <1>33, <2>1, <2>2, StillTwice DEF Detach
  <2>4. view' \in {"none", "loading", "ready"}
    BY <1>33 DEF Detach
  <2>5. UNCHANGED <<rpc, stage, alive, faulty, conv, target, queue, torn, broken, starters,
                    restart, restarts, views, booting, disposed, parityPassed, parityFailed,
                    status, sessionFile, resume, ownership, validated, uiHandled, prompts,
                    late, chat>>
    BY <1>33 DEF Detach, processVars, barrierVars, restartVars, viewVars, parityVars,
       fileVars, history
  <2>6. /\ BootedViews' /\ (rpc' # NoRuntime => stage'[rpc'] # "unused")
        /\ \A q \in Runtimes :
             stage'[q] \in {"delivering", "sending"} => target'[q] # NoRuntime
    BY <1>33, <2>1, <2>2, <2>3, <2>4, <2>5 DEF Detach, BootedViews
  <2>7. QED
    BY <2>1, <2>2, <2>3, <2>4, <2>5, <2>6
<1>34. ASSUME ViewReady PROVE TypeInv'
  <2>1. UNCHANGED <<queue, torn>> /\ Enqueued' = Enqueued
    BY <1>34 DEF ViewReady, Enqueued, barrierVars
  <2>2. /\ \A q \in Runtimes : stage[q] # "unused" => stage'[q] # "unused"
        /\ \A q \in Runtimes :
             stage[q] \in {"reaping", "over"} => stage'[q] \in {"reaping", "over"}
    BY <1>34 DEF ViewReady
  <2>3. QueuedTwice' /\ Enqueued' \in Teardowns /\ Enqueued' \in Nat
    BY <1>34, <2>1, <2>2, StillTwice DEF ViewReady
  <2>4. view' \in {"none", "loading", "ready"} /\ booting' \in 0..MaxViews
    BY <1>34 DEF ViewReady, BootedViews
  <2>5. UNCHANGED <<rpc, stage, alive, faulty, conv, target, queue, torn, broken, starters,
                    restart, restarts, views, disposed, parityPassed, parityFailed, status,
                    sessionFile, resume, ownership, validated, uiHandled, prompts, late, chat>>
    BY <1>34 DEF ViewReady, processVars, barrierVars, restartVars, viewVars, parityVars,
       fileVars, history
  <2>6. /\ BootedViews' /\ (rpc' # NoRuntime => stage'[rpc'] # "unused")
        /\ \A q \in Runtimes :
             stage'[q] \in {"delivering", "sending"} => target'[q] # NoRuntime
    BY <1>34, <2>1, <2>2, <2>3, <2>4, <2>5 DEF ViewReady, BootedViews
  <2>7. QED
    BY <2>1, <2>2, <2>3, <2>4, <2>5, <2>6
<1>35. ASSUME Restart PROVE TypeInv'
  <2>1. /\ rpc' = NoRuntime /\ queue' \in Seq(Runtimes) /\ Enqueued' = torn + Len(queue')
        /\ \/ Enqueued' = Enqueued
           \/ /\ Enqueued' = Enqueued + 1
              /\ \E q \in Runtimes : q = rpc /\ stage[q] # "unused" /\ rpc' = NoRuntime
    BY <1>35, DroppedOnce DEF Restart
  <2>2. /\ \A q \in Runtimes : stage[q] # "unused" => stage'[q] # "unused"
        /\ \A q \in Runtimes :
             stage[q] \in {"reaping", "over"} => stage'[q] \in {"reaping", "over"}
    BY <1>35 DEF Restart
  <2>3. QueuedTwice' /\ Enqueued' \in Teardowns /\ Enqueued' \in Nat
    BY <1>35, <2>1, <2>2, StillTwice
  <2>4. restarts' \in 0..MaxRestarts /\ resume' \in Conversations \cup {NoFile}
    BY <1>35 DEF Restart, DropRuntime
  <2>5. restart' \in [at : {"none", "draining", "releasing", "probing", "posting",
                        "starting", "startup"}, after : Teardowns]
    BY <1>35, <2>1, <2>3 DEF Restart
  <2>6. UNCHANGED <<stage, alive, faulty, conv, target, torn, broken, starters, view, views,
                    booting, disposed, parityPassed, parityFailed, status, sessionFile,
                    ownership, validated, uiHandled, prompts, late, chat>>
    BY <1>35 DEF Restart, processVars, barrierVars, viewVars, parityVars, fileVars, history
  <2>7. /\ BootedViews' /\ (rpc' # NoRuntime => stage'[rpc'] # "unused")
        /\ \A q \in Runtimes :
             stage'[q] \in {"delivering", "sending"} => target'[q] # NoRuntime
    BY <1>35, <2>1, <2>2, <2>3, <2>4, <2>5, <2>6 DEF Restart, BootedViews
  <2>8. QED
    BY <2>1, <2>2, <2>3, <2>4, <2>5, <2>6, <2>7
<1>36. ASSUME Dispose PROVE TypeInv'
  <2>1. /\ rpc' = NoRuntime /\ queue' \in Seq(Runtimes) /\ Enqueued' = torn + Len(queue')
        /\ \/ Enqueued' = Enqueued
           \/ /\ Enqueued' = Enqueued + 1
              /\ \E q \in Runtimes : q = rpc /\ stage[q] # "unused" /\ rpc' = NoRuntime
    BY <1>36, DroppedOnce DEF Dispose
  <2>2. /\ \A q \in Runtimes : stage[q] # "unused" => stage'[q] # "unused"
        /\ \A q \in Runtimes :
             stage[q] \in {"reaping", "over"} => stage'[q] \in {"reaping", "over"}
    BY <1>36 DEF Dispose
  <2>3. QueuedTwice' /\ Enqueued' \in Teardowns /\ Enqueued' \in Nat
    BY <1>36, <2>1, <2>2, StillTwice
  <2>4. disposed' \in [at : {"no", "draining", "done"}, after : Teardowns]
    BY <1>36, <2>1, <2>3 DEF Dispose
  <2>5. UNCHANGED <<stage, alive, faulty, conv, target, torn, broken, starters, restart,
                    restarts, view, views, booting, parityPassed, parityFailed, status,
                    sessionFile, resume, ownership, validated, uiHandled, prompts, late, chat>>
    BY <1>36 DEF Dispose, processVars, barrierVars, restartVars, viewVars, parityVars,
       fileVars, history
  <2>6. /\ BootedViews' /\ (rpc' # NoRuntime => stage'[rpc'] # "unused")
        /\ \A q \in Runtimes :
             stage'[q] \in {"delivering", "sending"} => target'[q] # NoRuntime
    BY <1>36, <2>1, <2>2, <2>3, <2>4, <2>5 DEF Dispose, BootedViews
  <2>7. QED
    BY <2>1, <2>2, <2>3, <2>4, <2>5, <2>6
<1>37. CASE UNCHANGED vars
  BY <1>37 DEF vars, QueuedTwice, Enqueued, Gone, Ended, BootedViews, processVars,
     barrierVars, restartVars, viewVars, parityVars, fileVars, history
<1>38. QED
  <2>1. CASE Microtask
    BY <2>1, <1>1, <1>2, <1>3, <1>4, <1>5 DEF Microtask
  <2>2. CASE PostStep
    BY <2>2, <1>6, <1>7, <1>8, <1>9, <1>10, <1>11, <1>12, <1>13, <1>14, <1>15 DEF PostStep
  <2>3. CASE HostStep
    BY <2>3, <1>4, <1>5, <1>16, <1>17, <1>18, <1>19, <1>20, <1>21, <1>22, <1>23, <1>24, <1>25,
       <1>26, <1>27 DEF HostStep, RequestSettles
  <2>4. CASE Event
    BY <2>4, <1>28, <1>29, <1>30, <1>31, <1>31a, <1>32, <1>33, <1>34, <1>35, <1>36 DEF Event,
       RuntimeEvent, UserAct
  <2>5. QED
    BY <2>1, <2>2, <2>3, <2>4, <1>37 DEF Next, Progress, AtRest

\* The types hold in every reachable state, whatever the chat is opened with and
\* however its messages are delayed.
LEMMA TypeInvariance == Spec => []TypeInv
<1>1. Init => TypeInv
  <2> SUFFICES ASSUME Init PROVE TypeInv
    OBVIOUS
  <2>1. /\ rpc \in Runtimes \cup {NoRuntime} /\ faulty \subseteq Runtimes
        /\ starters \subseteq [by : {"ready", "restart"}, after : Teardowns]
        /\ validated \subseteq Runtimes /\ uiHandled \subseteq Runtimes
        /\ prompts \subseteq Runtimes
    BY DEF Init
  <2>2. stage \in [Runtimes -> Stages] /\ alive \in [Runtimes -> BOOLEAN]
    BY DEF Init, Stages
  <2>3. conv \in [Runtimes -> Conversations] /\ target \in [Runtimes -> Runtimes \cup {NoRuntime}]
    BY DEF Init, Conversations, Runtimes, MaxRuntimes
  <2>4. queue \in Seq(Runtimes) /\ torn \in Teardowns
    BY Numbers DEF Init, MaxRuntimes
  <2>5. /\ broken \in BOOLEAN /\ parityPassed \in BOOLEAN /\ parityFailed \in BOOLEAN
        /\ late \in BOOLEAN
    BY Zenon DEF Init
  <2>6. /\ restart \in [at : {"none", "draining", "releasing", "probing", "posting",
                              "starting", "startup"}, after : Teardowns]
        /\ disposed \in [at : {"no", "draining", "done"}, after : Teardowns]
    BY Numbers DEF Init, MaxRuntimes
  <2>7. /\ restarts \in 0..MaxRestarts /\ views \in 0..MaxViews /\ booting \in 0..MaxViews
        /\ view \in {"none", "loading", "ready"}
        /\ status \in {"starting", "idle", "running", "failed", "finished"}
        /\ ownership \in {"none", "pending", "delivered", "restored"}
    BY DEF Init
  <2>8. /\ sessionFile \in Conversations \cup {NoFile} /\ resume \in Conversations \cup {NoFile}
        /\ chat \in Conversations \cup {NoFile}
    BY Numbers DEF Init, Conversations
  <2>9. QueuedTwice
    <3>1. Enqueued = 0
      BY DEF Init, Enqueued
    <3>2. Gone \subseteq Runtimes /\ Ended \subseteq Runtimes
      BY DEF Gone, Ended
    <3>3. Cardinality(Gone) \in Nat /\ Cardinality(Ended) \in Nat
      BY <3>2, Sizes
    <3>4. QED
      BY <3>1, <3>3 DEF QueuedTwice
  <2>10. /\ BootedViews /\ rpc = NoRuntime
         /\ \A p \in Runtimes : stage[p] \notin {"delivering", "sending"}
    BY DEF Init, BootedViews
  <2>11. QED
    BY <2>1, <2>2, <2>3, <2>4, <2>5, <2>6, <2>7, <2>8, <2>9, <2>10 DEF TypeInv, TypeOK
<1>2. TypeInv /\ [Next]_vars => TypeInv'
  BY TypeStep
<1>3. QED
  BY <1>1, <1>2, PTL DEF Spec

\* The host's state keeps its types: a runtime is queued for its teardown at most
\* twice, by whoever drops it and by its failed startup, which bounds the barrier.
THEOREM TypeSafety == Spec => []TypeOK
<1>1. TypeInv => TypeOK
  BY DEF TypeInv
<1>2. QED
  BY <1>1, TypeInvariance, PTL

\* A step that hands no prompt on keeps it where it is.
LEMMA PromptStays ==
  ASSUME PromptInHand, prompts' = prompts,
         \A q \in Runtimes :
           stage'[q] \in {"delivering", "sending"} => stage[q] \in {"delivering", "sending"},
         \/ ownership' = ownership
         \/ ownership = "pending" /\ ownership' = "restored"
  PROVE  PromptInHand'
BY DEF PromptInHand

\* Every step keeps the prompt in one hand.
LEMMA PromptStep == ASSUME TypeOK, PromptInHand, [Next]_vars PROVE PromptInHand'
<1> USE DEF TypeOK
<1>1. ASSUME NEW s \in starters, StartRpc(s) PROVE PromptInHand'
  BY <1>1, PromptStays DEF StartRpc, Create, FirstUnused, RestartAfter, Goto, history
<1>2. ASSUME NEW s \in starters, StartRejected(s) PROVE PromptInHand'
  BY <1>2, PromptStays DEF StartRejected, RestartAfter, history
<1>3. ASSUME RestartDrained PROVE PromptInHand'
  BY <1>3, PromptStays DEF RestartDrained, RestartTo, history
<1>4. ASSUME NEW p \in Runtimes, RequestFails(p) PROVE PromptInHand'
  BY <1>4, PromptStays DEF RequestFails, Goto, history
<1>5. ASSUME NEW p \in Runtimes, AdvisorFails(p) PROVE PromptInHand'
  BY <1>5, PromptStays DEF AdvisorFails, Goto, BlockParity, DropRuntime, RestorePrompt, history
<1>6. ASSUME Bootstrapped PROVE PromptInHand'
  BY <1>6, PromptStays DEF Bootstrapped, history
<1>7. ASSUME RestartReleased PROVE PromptInHand'
  BY <1>7, PromptStays DEF RestartReleased, RestartTo, history
<1>8. ASSUME RestartReset PROVE PromptInHand'
  BY <1>8, PromptStays DEF RestartReset, RestartTo, history
<1>9. ASSUME RestartPosted PROVE PromptInHand'
  BY <1>9, PromptStays DEF RestartPosted, RestartTo, history
<1>10. ASSUME NEW p \in Runtimes, Published(p) PROVE PromptInHand'
  BY <1>10, PromptStays DEF Published, Goto, history
<1>11. ASSUME NEW p \in Runtimes, Announced(p) PROVE PromptInHand'
  <2>1. CASE ownership' = ownership /\ stage'[p] \in {"over", "settling"}
    BY <1>11, <2>1, PromptStays DEF Announced, Goto, history
  <2>2. CASE ownership = "pending" /\ ownership' = "delivered"
    <3>1. /\ prompts' = {} /\ \A q \in Runtimes : stage[q] \notin {"delivering", "sending"}
      BY <1>11, <2>2 DEF Announced, PromptInHand, history
    <3>2. \A q \in Runtimes : q # p => stage'[q] = stage[q]
      BY <1>11 DEF Announced, Goto
    <3>3. QED
      BY <2>2, <3>1, <3>2 DEF PromptInHand
  <2>3. QED
    BY <1>11, <2>1, <2>2 DEF Announced, Goto
<1>12. ASSUME NEW p \in Runtimes, Send(p) PROVE PromptInHand'
  <2>1. /\ ownership = "delivered" /\ prompts = {}
        /\ \A q \in Runtimes : q # p => stage[q] \notin {"delivering", "sending"}
    BY <1>12 DEF Send, PromptInHand
  <2>2. /\ ownership' = ownership /\ prompts' \subseteq {target[p]}
        /\ \A q \in Runtimes : stage'[q] \notin {"delivering", "sending"}
    BY <1>12, <2>1 DEF Send, Goto
  <2>3. QED
    BY <2>1, <2>2 DEF PromptInHand
<1>13. ASSUME NEW p \in Runtimes, Settled(p) PROVE PromptInHand'
  BY <1>13, PromptStays DEF Settled, Goto, history
<1>14. ASSUME NEW p \in Runtimes, FailurePosted(p) PROVE PromptInHand'
  BY <1>14, PromptStays DEF FailurePosted, Goto, RestorePrompt, history
<1>15. ASSUME NEW p \in Runtimes, FailureRestored(p) PROVE PromptInHand'
  BY <1>15, PromptStays DEF FailureRestored, Goto, history
<1>16. ASSUME Teardown PROVE PromptInHand'
  BY <1>16, PromptStays DEF Teardown, history
<1>17. ASSUME DisposeDone PROVE PromptInHand'
  BY <1>17, PromptStays DEF DisposeDone, history
<1>18. ASSUME RestartDone PROVE PromptInHand'
  BY <1>18, PromptStays DEF RestartDone, RestartTo, history
<1>19. ASSUME NEW p \in Runtimes, FrameReady(p) PROVE PromptInHand'
  BY <1>19, PromptStays DEF FrameReady, Continue, Goto, history
<1>20. ASSUME NEW p \in Runtimes, Started(p) PROVE PromptInHand'
  BY <1>20, PromptStays DEF Started, Continue, Goto, IfCurrent, history
<1>21. ASSUME NEW p \in Runtimes, Switched(p) PROVE PromptInHand'
  BY <1>21, PromptStays DEF Switched, Continue, Goto, history
<1>22. ASSUME NEW p \in Runtimes, ParityPasses(p) PROVE PromptInHand'
  BY <1>22, PromptStays DEF ParityPasses, Continue, Goto, StateKnown, history
<1>23. ASSUME NEW p \in Runtimes, ParityFails(p) PROVE PromptInHand'
  BY <1>23, PromptStays DEF ParityFails, Continue, Goto, StateKnown, BlockParity, DropRuntime,
     RestorePrompt, history
<1>24. ASSUME NEW p \in Runtimes, AdvisorVerified(p) PROVE PromptInHand'
  BY <1>24, PromptStays DEF AdvisorVerified, Continue, Goto, IfCurrent, history
<1>25. ASSUME NEW p \in Runtimes, HistoryLoaded(p) PROVE PromptInHand'
  BY <1>25, PromptStays DEF HistoryLoaded, Continue, Goto, IfCurrent, history
<1>26. ASSUME NEW p \in Runtimes, Deliver(p) PROVE PromptInHand'
  BY <1>26, PromptStays DEF Deliver, Goto, history
<1>27. ASSUME NEW p \in Runtimes, Reaped(p) PROVE PromptInHand'
  BY <1>27, PromptStays DEF Reaped, Goto, history
<1>28. ASSUME NEW p \in Runtimes, Block(p) PROVE PromptInHand'
  BY <1>28, PromptStays DEF Block, BlockParity, DropRuntime, RestorePrompt, history
<1>29. ASSUME NEW p \in Runtimes, Exit(p) PROVE PromptInHand'
  BY <1>29, PromptStays DEF Exit, ExitAs, RestorePrompt, history
<1>30. ASSUME NEW p \in Runtimes, ProtocolError(p) PROVE PromptInHand'
  BY <1>30, PromptStays DEF ProtocolError, RestorePrompt, history
<1>31a. ASSUME NEW p \in Runtimes, TurnFrame(p) PROVE PromptInHand'
  BY <1>31a, PromptStays DEF TurnFrame
<1>31. ASSUME NEW p \in Runtimes, UiRequest(p) PROVE PromptInHand'
  BY <1>31, PromptStays DEF UiRequest, history
<1>32. ASSUME Attach PROVE PromptInHand'
  BY <1>32, PromptStays DEF Attach, history
<1>33. ASSUME Detach PROVE PromptInHand'
  BY <1>33, PromptStays DEF Detach, history
<1>34. ASSUME ViewReady PROVE PromptInHand'
  BY <1>34, PromptStays DEF ViewReady, history
<1>35. ASSUME Restart PROVE PromptInHand'
  BY <1>35, PromptStays DEF Restart, DropRuntime, history
<1>36. ASSUME Dispose PROVE PromptInHand'
  BY <1>36, PromptStays DEF Dispose, DropRuntime, history
<1>37. CASE UNCHANGED vars
  BY <1>37 DEF vars, history, PromptInHand
<1>38. QED
  BY <1>1, <1>2, <1>3, <1>4, <1>5, <1>6, <1>7, <1>8, <1>9, <1>10, <1>11, <1>12, <1>13, <1>14,
     <1>15, <1>16, <1>17, <1>18, <1>19, <1>20, <1>21, <1>22, <1>23, <1>24, <1>25, <1>26,
     <1>27, <1>28, <1>29, <1>30, <1>31, <1>31a, <1>32, <1>33, <1>34, <1>35, <1>36, <1>37 DEF Next,
     Progress, Microtask, PostStep, HostStep, RequestSettles, Event, RuntimeEvent, UserAct,
     AtRest

\* The startup prompt is sent to one runtime at most and belongs to OMP from then on,
\* however long a startup is held up on its way to send it (sendPrompt takes the prompt
\* from InitialPromptOwnership before it waits for anything).
THEOREM SentOnce ==
  Spec => [](/\ \A p, q \in prompts : p = q
             /\ prompts # {} => ownership = "delivered")
<1>1. Init => PromptInHand
  BY DEF Init, PromptInHand
<1>2. TypeOK /\ PromptInHand /\ [Next]_vars => PromptInHand'
  BY PromptStep
<1>3. PromptInHand => /\ \A p, q \in prompts : p = q
                      /\ prompts # {} => ownership = "delivered"
  BY DEF PromptInHand
<1>4. QED
  BY <1>1, <1>2, <1>3, TypeSafety, PTL DEF Spec

-------------------------------------------------------------------------------
(* Posts that wait for nothing                                             *)

\* Runtimes are created in order and dropped once; one that was not created has nothing
\* behind it.
CreatedInOrder ==
  /\ \A p \in Runtimes : stage[p] = "unused" =>
       ~alive[p] /\ p \notin faulty /\ rpc < p /\ Enqueued < p
  /\ rpc # NoRuntime => stage[rpc] # "unused" /\ Enqueued < rpc
  /\ Enqueued <= MaxRuntimes
  /\ \A i \in DOMAIN queue : stage[queue[i]] # "unused"

\* A process that runs is that of the current runtime or of the one being torn down;
\* there is no current runtime while one is torn down.
OneBehind ==
  /\ rpc # NoRuntime => queue = <<>> /\ alive[rpc]
  /\ queue = <<>> \/ \E p \in Runtimes : queue = <<p>>
  /\ \A p \in Runtimes : alive[p] => p = rpc \/ queue = <<p>>

\* Who waits for the barrier waits for all of it, as nothing is queued meanwhile.
WaitForAll ==
  /\ \A s \in starters : s.after = Enqueued
  /\ rpc # NoRuntime /\ stage[rpc] = "advisor" /\ rpc \in faulty =>
       starters = {} /\ booting = 0
  /\ Disposed => rpc = NoRuntime
  /\ disposed.at = "draining" => disposed.after = Enqueued
  /\ disposed.at = "done" => queue = <<>>

\* No other runtime takes the place of one whose startup posts to the webview.
PostsAreCurrent ==
  \A p \in Runtimes :
    stage[p] \in {"publishing", "announcing", "failing", "restoring"} => rpc = p

\* A restart holds on to nothing: a runtime that is there before its startup was just
\* begun for a view.
Restarting == restart.at \in {"draining", "releasing", "probing", "posting", "starting"}
RestartAlone ==
  /\ Restarting /\ rpc # NoRuntime => stage[rpc] = "spawning" /\ rpc \notin faulty
  /\ restart.at = "draining" => restart.after <= Enqueued
  /\ restart.at = "starting" <=> \E s \in starters : s.by = "restart"

\* A startup that goes beyond parity is that of a validated runtime.
ParityFirst ==
  \A p \in Runtimes :
    stage[p] \in {"advisor", "history", "publishing", "announcing", "delivering", "sending"}
      => p \in validated

\* The startup prompt is with at most one startup, for its own runtime, or was sent.
PromptHeld ==
  /\ \A p, q \in Runtimes :
       stage[p] \in {"delivering", "sending"} /\ stage[q] \in {"delivering", "sending"} => p = q
  /\ \A p \in Runtimes : stage[p] \in {"delivering", "sending"} =>
       target[p] = p /\ ownership = "delivered" /\ prompts = {}
  /\ PromptOnce

\* The inductive invariant for posts that wait for nothing.
IInv ==
  /\ TypeOK /\ CreatedInOrder /\ OneBehind /\ WaitForAll /\ PostsAreCurrent /\ RestartAlone
  /\ BootedViews /\ ParityFirst /\ PromptHeld

\* The barrier holds one teardown or none.
LEMMA QueueShape ==
  ASSUME IInv
  PROVE  /\ torn \in Nat /\ Enqueued \in Nat /\ Enqueued <= MaxRuntimes /\ Enqueued \in Teardowns
         /\ queue = <<>> => Enqueued = torn /\ Len(queue) = 0
         /\ queue # <<>> => Enqueued = torn + 1 /\ Len(queue) = 1 /\ queue = <<Head(queue)>>
                            /\ Head(queue) \in Runtimes /\ Tail(queue) = <<>> /\ rpc = NoRuntime
<1>1. torn \in Nat /\ Enqueued <= MaxRuntimes
  BY Numbers DEF IInv, TypeOK, CreatedInOrder
<1>2. queue = <<>> => Enqueued = torn /\ Len(queue) = 0
  BY <1>1 DEF Enqueued
<1>3. queue # <<>> => Enqueued = torn + 1 /\ Len(queue) = 1 /\ queue = <<Head(queue)>>
                      /\ Head(queue) \in Runtimes /\ Tail(queue) = <<>> /\ rpc = NoRuntime
  <2> SUFFICES ASSUME queue # <<>>
               PROVE  Enqueued = torn + 1 /\ Len(queue) = 1 /\ queue = <<Head(queue)>>
                      /\ Head(queue) \in Runtimes /\ Tail(queue) = <<>> /\ rpc = NoRuntime
    OBVIOUS
  <2>1. PICK q \in Runtimes : queue = <<q>>
    BY DEF IInv, OneBehind
  <2>2. Len(queue) = 1 /\ Head(queue) = q
    BY <2>1
  <2>3. Tail(queue) = <<>>
    BY <2>1
  <2>4. QED
    BY <1>1, <2>1, <2>2, <2>3 DEF Enqueued, IInv, OneBehind
<1>4. Enqueued \in Nat
  BY <1>1, <1>2, <1>3
<1>5. QED
  BY <1>1, <1>2, <1>3, <1>4, Numbers

\* What dropping the current runtime does to the barrier.
LEMMA Dropped ==
  ASSUME IInv, DropRuntime, torn' = torn
  PROVE  /\ rpc' = NoRuntime /\ queue' \in Seq(Runtimes)
         /\ rpc = NoRuntime => queue' = queue /\ Enqueued' = Enqueued
         /\ rpc # NoRuntime => queue = <<>> /\ queue' = <<rpc>> /\ Enqueued' = Enqueued + 1
         /\ Enqueued' = torn + Len(queue') /\ Enqueued' \in Teardowns
<1>1. CASE rpc = NoRuntime
  BY <1>1, QueueShape DEF DropRuntime, Enqueued, IInv, TypeOK
<1>2. CASE rpc # NoRuntime
  <2>1. queue = <<>> /\ queue' = <<rpc>> /\ rpc \in Runtimes
    BY <1>2 DEF DropRuntime, IInv, TypeOK, OneBehind
  <2>2. Len(queue') = 1 /\ Len(queue) = 0
    BY <2>1
  <2>3. Enqueued' = torn + 1 /\ Enqueued = torn
    BY <2>2, QueueShape DEF Enqueued
  <2>4. Enqueued < rpc /\ rpc <= MaxRuntimes
    BY <1>2, <2>1, Numbers DEF IInv, CreatedInOrder
  <2>5. Enqueued + 1 \in Teardowns
    BY <2>1, <2>3, <2>4, QueueShape, Numbers
  <2>6. QED
    BY <1>2, <2>1, <2>2, <2>3, <2>5 DEF DropRuntime
<1>3. QED
  BY <1>1, <1>2

\* When nothing of the host's own is about to run, no call of #startRpc, no "ready" message
\* and no restart waits beside a current runtime, and nothing is being posted.
Calm == NoMicrotask /\ NoPost

LEMMA NothingWaits ==
  ASSUME IInv, NoMicrotask, rpc # NoRuntime
  PROVE  /\ starters = {}
         /\ stage[rpc] = "advisor" => rpc \notin faulty
         /\ restart.at \notin {"draining", "starting"}
<1>1. queue = <<>> /\ rpc \in Runtimes
  BY DEF IInv, TypeOK, OneBehind
<1>2. \A s \in starters : Passes(s.after)
  BY <1>1, QueueShape DEF IInv, WaitForAll, Passes
<1>3. restart.at = "draining" => Passes(restart.after)
  BY <1>1, QueueShape DEF IInv, RestartAlone, Passes
<1>4. starters = {} /\ restart.at # "draining"
  BY <1>2, <1>3 DEF NoMicrotask
<1>5. restart.at # "starting"
  BY <1>4 DEF IInv, RestartAlone
<1>6. QED
  BY <1>1, <1>4, <1>5 DEF NoMicrotask, Answers, Disposing, RequestStages

\* A runtime that answers is the current one.
LEMMA AnsweringIsCurrent ==
  ASSUME IInv, NEW p \in Runtimes, Answers(p)
  PROVE  rpc = p /\ queue = <<>> /\ p \notin faulty /\ stage[p] # "unused"
<1>1. alive[p] /\ p \notin faulty /\ (queue # <<>> => p # Head(queue))
  BY DEF Answers, Disposing
<1>2. queue # <<p>>
  <2>1. Head(<<p>>) = p /\ <<p>> # <<>>
    OBVIOUS
  <2>2. QED
    BY <1>1, <2>1
<1>3. rpc = p
  BY <1>1, <1>2 DEF IInv, OneBehind
<1>4. QED
  BY <1>1, <1>3, Numbers DEF IInv, OneBehind, CreatedInOrder

\* Between two events of the outside no view is being answered and no startup posts.
LEMMA CalmFacts ==
  ASSUME IInv, Calm
  PROVE  /\ booting = 0
         /\ \A p \in Runtimes : stage[p] \notin PostStages
         /\ rpc # NoRuntime => starters = {} /\ ~Restarting
<1>1. booting = 0 /\ \A p \in Runtimes : stage[p] \notin PostStages
  BY DEF Calm, NoPost
<1>2. ASSUME rpc # NoRuntime PROVE starters = {} /\ ~Restarting
  <2>1. starters = {} /\ restart.at \notin {"draining", "starting", "releasing", "posting"}
    BY <1>2, NothingWaits DEF Calm, NoPost
  <2>2. ASSUME restart.at = "probing" PROVE FALSE
    <3>1. PICK p \in Runtimes : stage[p] = "advisor"
      BY <2>2 DEF Calm, NoPost
    <3>2. Answers(p)
      BY <3>1 DEF Calm, NoMicrotask, RequestStages
    <3>3. rpc = p
      BY <3>2, AnsweringIsCurrent
    <3>4. QED
      BY <2>2, <3>1, <3>3, <1>2 DEF IInv, RestartAlone, Restarting
  <2>3. QED
    BY <2>1, <2>2 DEF Restarting
<1>3. QED
  BY <1>1, <1>2

\* What IInv says beyond the types.
CoreInv ==
  /\ CreatedInOrder /\ OneBehind /\ WaitForAll /\ PostsAreCurrent /\ RestartAlone
  /\ BootedViews /\ ParityFirst /\ PromptHeld

\* A startup goes on, and nothing else happens.
LEMMA Moves ==
  ASSUME IInv, NEW p \in Runtimes, stage[p] # "unused", stage'[p] # "unused",
         \A q \in Runtimes : q # p => stage'[q] = stage[q],
         UNCHANGED <<rpc, alive, faulty, target, barrierVars, starters, restart, viewVars,
                     disposed, prompts>>,
         \/ ownership' = ownership
         \/ ownership = "pending" /\ ownership' = "restored",
         validated \subseteq validated',
         stage'[p] \in {"advisor", "history", "publishing", "announcing", "delivering", "sending"}
           => p \in validated',
         stage'[p] \in {"publishing", "announcing", "failing", "restoring"} => rpc = p,
         stage'[p] = "advisor" => p \notin faulty,
         stage'[p] \in {"delivering", "sending"} => stage[p] \in {"delivering", "sending"},
         rpc = p => ~Restarting
  PROVE  CoreInv'
<1> USE DEF IInv, barrierVars, viewVars
<1>1. CreatedInOrder'
  <2>1. Enqueued' = Enqueued
    BY DEF Enqueued
  <2>2. \A q \in Runtimes : stage'[q] = "unused" <=> stage[q] = "unused"
    OBVIOUS
  <2>3. \A i \in DOMAIN queue : queue[i] \in Runtimes
    BY DEF TypeOK
  <2>4. QED
    BY <2>1, <2>2, <2>3 DEF CreatedInOrder, TypeOK
<1>2. OneBehind'
  BY DEF OneBehind
<1>3. WaitForAll'
  BY DEF WaitForAll, Enqueued, Disposed, TypeOK
<1>4. PostsAreCurrent'
  BY DEF PostsAreCurrent
<1>5. RestartAlone'
  BY DEF RestartAlone, Restarting, Enqueued, TypeOK
<1>6. BootedViews'
  BY DEF BootedViews
<1>7. ParityFirst'
  BY DEF ParityFirst
<1>8. PromptHeld'
  <2>1. PromptOnce'
    BY DEF PromptHeld, PromptOnce
  <2>2. \A q \in Runtimes :
          stage'[q] \in {"delivering", "sending"} => stage[q] \in {"delivering", "sending"}
    OBVIOUS
  <2>3. QED
    BY <2>1, <2>2 DEF PromptHeld
<1>9. QED
  BY <1>1, <1>2, <1>3, <1>4, <1>5, <1>6, <1>7, <1>8 DEF CoreInv

\* The current runtime, if any, is dropped, and startups may end with it.
LEMMA Drops ==
  ASSUME IInv, DropRuntime, rpc # NoRuntime => starters = {},
         \A q \in Runtimes :
           \/ stage'[q] = stage[q]
           \/ stage[q] # "unused" /\ stage'[q] \in {"over", "reaping"},
         \A q \in Runtimes :
           stage'[q] \notin {"publishing", "announcing", "failing", "restoring"},
         UNCHANGED <<torn, alive, faulty, target, starters, viewVars, prompts>>,
         \/ ownership' = ownership
         \/ ownership = "pending" /\ ownership' = "restored",
         validated \subseteq validated',
         \/ UNCHANGED restart
         \/ restart.at = "none" /\ restart' = [at |-> "draining", after |-> torn + Len(queue')],
         \/ UNCHANGED disposed
         \/ disposed.at = "no" /\ disposed' = [at |-> "draining", after |-> torn + Len(queue')]
  PROVE  CoreInv'
<1> USE DEF IInv, viewVars
<1>1. /\ rpc' = NoRuntime
      /\ rpc = NoRuntime => queue' = queue /\ Enqueued' = Enqueued
      /\ rpc # NoRuntime => queue = <<>> /\ queue' = <<rpc>> /\ Enqueued' = Enqueued + 1
      /\ Enqueued' = torn + Len(queue')
  BY Dropped
<1>2. rpc \in Runtimes \cup {NoRuntime} /\ NoRuntime \notin Runtimes
  BY Numbers DEF TypeOK
<1>3. CreatedInOrder'
  <2>1. \A q \in Runtimes : stage'[q] = "unused" <=> stage[q] = "unused"
    OBVIOUS
  <2>2. \A q \in Runtimes : stage[q] = "unused" => rpc < q /\ Enqueued < q /\ Enqueued' < q
    BY <1>1, <1>2, Numbers, QueueShape DEF CreatedInOrder
  <2>3. Enqueued' <= MaxRuntimes
    BY <1>1, <1>2, Numbers, QueueShape DEF CreatedInOrder
  <2>4. \A q \in Runtimes : NoRuntime < q
    BY Numbers
  <2>5. \A i \in DOMAIN queue' : stage'[queue'[i]] # "unused"
    <3>1. CASE rpc = NoRuntime
      BY <1>1, <2>1, <3>1 DEF CreatedInOrder, TypeOK
    <3>2. CASE rpc # NoRuntime
      <4>1. queue' = <<rpc>> /\ rpc \in Runtimes /\ stage'[rpc] # "unused"
        BY <1>1, <1>2, <2>1, <3>2 DEF CreatedInOrder
      <4>2. QED
        BY <4>1
    <3>3. QED
      BY <3>1, <3>2
  <2>6. QED
    BY <1>1, <2>1, <2>2, <2>3, <2>4, <2>5 DEF CreatedInOrder
<1>4. OneBehind'
  BY <1>1, <1>2 DEF OneBehind
<1>5. WaitForAll'
  BY <1>1 DEF WaitForAll, Disposed
<1>6. PostsAreCurrent'
  BY DEF PostsAreCurrent
<1>7. RestartAlone'
  <2>1. Enqueued \in Nat /\ Enqueued' \in Nat /\ Enqueued <= Enqueued'
    BY <1>1, QueueShape
  <2>2. restart'.at = "draining" => restart'.after <= Enqueued'
    <3>1. CASE UNCHANGED restart
      <4>1. restart.after \in Nat
        BY Numbers DEF TypeOK
      <4>2. QED
        BY <2>1, <3>1, <4>1 DEF RestartAlone
    <3>2. CASE restart' = [at |-> "draining", after |-> torn + Len(queue')]
      BY <1>1, <2>1, <3>2
    <3>3. QED
      BY <3>1, <3>2
  <2>3. QED
    BY <1>1, <2>2 DEF RestartAlone
<1>8. BootedViews' /\ ParityFirst'
  BY DEF BootedViews, ParityFirst
<1>9. PromptHeld'
  <2>1. PromptOnce'
    BY DEF PromptHeld, PromptOnce
  <2>2. \A q \in Runtimes :
          stage'[q] \in {"delivering", "sending"} => stage[q] \in {"delivering", "sending"}
    OBVIOUS
  <2>3. QED
    BY <2>1, <2>2 DEF PromptHeld
<1>10. QED
  BY <1>3, <1>4, <1>5, <1>6, <1>7, <1>8, <1>9 DEF CoreInv

\* A call of #startRpc ends its wait for the barrier.
LEMMA StarterLeaves ==
  ASSUME IInv, NEW s \in starters, starters' = starters \ {s},
         IF s.by = "restart" THEN restart'.at \in {"none", "startup"} ELSE restart' = restart,
         UNCHANGED <<torn, queue>>
  PROVE  /\ restart'.at = "draining" => restart'.after <= Enqueued'
         /\ restart'.at = "starting" <=> \E t \in starters' : t.by = "restart"
         /\ Restarting' => Restarting
<1> USE DEF IInv, RestartAlone, Enqueued
<1>1. CASE s.by = "restart"
  <2>1. ASSUME NEW t \in starters, t.by = "restart" PROVE t = s
    <3>1. /\ s \in [by : {"ready", "restart"}, after : Teardowns]
          /\ t \in [by : {"ready", "restart"}, after : Teardowns]
      BY DEF TypeOK
    <3>2. s.after = t.after /\ s.by = t.by
      BY <1>1, <2>1 DEF WaitForAll
    <3>3. QED
      BY <3>1, <3>2
  <2>2. QED
    BY <1>1, <2>1 DEF Restarting
<1>2. CASE s.by # "restart"
  <2>1. \A t \in starters : t.by = "restart" => t \in starters'
    BY <1>2
  <2>2. QED
    BY <1>2, <2>1 DEF Restarting
<1>3. QED
  BY <1>1, <1>2

\* Every step keeps it.
LEMMA CoreStep ==
  ASSUME IInv, TypeOK', [Next]_vars, ~SlowPosts PROVE CoreInv'
<1> USE DEF processVars, barrierVars, restartVars, viewVars, parityVars, fileVars, history
<1>1. ASSUME NEW s \in starters, StartRpc(s) PROVE CoreInv'
  <2>1. /\ s.after = Enqueued /\ starters' = starters \ {s}
        /\ IF s.by = "restart" THEN restart'.at \in {"none", "startup"} ELSE restart' = restart
        /\ UNCHANGED <<faulty, target, torn, queue, viewVars, disposed, ownership, validated,
                        uiHandled, prompts, chat>>
    BY <1>1 DEF StartRpc, Create, RestartAfter, IInv, WaitForAll
  <2>2. /\ restart'.at = "draining" => restart'.after <= Enqueued'
        /\ restart'.at = "starting" <=> \E t \in starters' : t.by = "restart"
        /\ Restarting' => Restarting
    BY <2>1, StarterLeaves
  <2>3. Enqueued' = Enqueued
    BY <2>1 DEF Enqueued
  <2>4. CASE Disposed \/ rpc # NoRuntime
    <3>1. UNCHANGED <<rpc, stage, alive>>
      BY <1>1, <2>4 DEF StartRpc
    <3>2. QED
      BY <2>1, <2>2, <2>3, <3>1 DEF IInv, CoreInv, CreatedInOrder, OneBehind, WaitForAll,
         PostsAreCurrent, RestartAlone, BootedViews, ParityFirst, PromptHeld, PromptOnce, Disposed
  <2>5. CASE ~Disposed /\ rpc = NoRuntime
    <3>1. PICK p \in Runtimes : FirstUnused(p) /\ Create(s, p)
      BY <1>1, <2>5 DEF StartRpc
    <3>2. queue = <<>>
      BY <1>1, <2>1, QueueShape DEF StartRpc, Passes
    <3>3. /\ rpc' = p /\ stage[p] = "unused" /\ stage'[p] = "spawning"
          /\ \A q \in Runtimes : q # p => stage'[q] = stage[q] /\ alive'[q] = alive[q]
          /\ alive'[p] /\ p \notin faulty /\ Enqueued < p
      BY <3>1 DEF FirstUnused, Create, Goto, IInv, TypeOK, CreatedInOrder
    <3>4. CreatedInOrder'
      <4>1. ASSUME NEW q \in Runtimes, stage'[q] = "unused" PROVE p < q
        <5>1. ~(q < p)
          <6>1. q \in 1..(p - 1) <=> q < p
            BY Numbers
          <6>2. QED
            BY <3>1, <3>3, <4>1, <6>1 DEF FirstUnused
        <5>2. QED
          BY <3>3, <4>1, <5>1, Numbers
      <4>2. \A q \in Runtimes : stage'[q] = "unused" =>
              stage[q] = "unused" /\ alive'[q] = alive[q]
        BY <3>3
      <4>3. DOMAIN queue' = {}
        BY <2>1, <3>2
      <4>4. QED
        BY <2>1, <2>3, <3>3, <4>1, <4>2, <4>3 DEF IInv, CreatedInOrder
    <3>5. OneBehind'
      <4>1. \A q \in Runtimes : <<q>> # <<>>
        OBVIOUS
      <4>2. \A q \in Runtimes : alive'[q] => q = p
        BY <2>5, <3>2, <3>3, <4>1, Numbers DEF IInv, OneBehind
      <4>3. QED
        BY <2>1, <3>2, <3>3, <4>2 DEF OneBehind
    <3>6. WaitForAll'
      BY <2>1, <2>3, <2>5, <3>3 DEF IInv, WaitForAll, Disposed
    <3>7. PostsAreCurrent' /\ ParityFirst'
      BY <2>1, <2>5, <3>3, Numbers DEF IInv, PostsAreCurrent, ParityFirst
    <3>8. RestartAlone'
      BY <2>1, <2>2, <3>3 DEF RestartAlone
    <3>9. BootedViews' /\ PromptHeld'
      <4>1. \A q \in Runtimes :
              stage'[q] \in {"delivering", "sending"} => stage[q] \in {"delivering", "sending"}
        BY <3>3
      <4>2. QED
        BY <2>1, <4>1 DEF IInv, BootedViews, PromptHeld, PromptOnce
    <3>10. QED
      BY <3>4, <3>5, <3>6, <3>7, <3>8, <3>9 DEF CoreInv
  <2>6. QED
    BY <2>4, <2>5
<1>2. ASSUME NEW s \in starters, StartRejected(s) PROVE CoreInv'
  <2>1. /\ starters' = starters \ {s}
        /\ IF s.by = "restart" THEN restart'.at \in {"none", "startup"} ELSE restart' = restart
        /\ UNCHANGED <<rpc, stage, alive, faulty, target, torn, queue, viewVars, disposed,
                       ownership, history>>
    BY <1>2 DEF StartRejected, RestartAfter
  <2>2. /\ restart'.at = "draining" => restart'.after <= Enqueued'
        /\ restart'.at = "starting" <=> \E t \in starters' : t.by = "restart"
        /\ Restarting' => Restarting
    BY <2>1, StarterLeaves
  <2>3. Enqueued' = Enqueued
    BY <2>1 DEF Enqueued
  <2>4. QED
    BY <2>1, <2>2, <2>3 DEF IInv, CoreInv, CreatedInOrder, OneBehind, WaitForAll,
       PostsAreCurrent, RestartAlone, BootedViews, ParityFirst, PromptHeld, PromptOnce, Disposed
<1>3. ASSUME RestartDrained PROVE CoreInv'
  <2>1. CreatedInOrder'
    BY <1>3, Numbers, QueueShape DEF RestartDrained, RestartTo, CreatedInOrder, Enqueued,
       IInv, TypeOK
  <2>2. OneBehind'
    BY <1>3, Numbers, QueueShape DEF RestartDrained, RestartTo, OneBehind, IInv, TypeOK
  <2>3. WaitForAll'
    BY <1>3, Numbers, QueueShape DEF RestartDrained, RestartTo, WaitForAll, Enqueued,
       Disposed, IInv, TypeOK
  <2>4. PostsAreCurrent'
    BY <1>3, Numbers, QueueShape DEF RestartDrained, RestartTo, PostsAreCurrent, IInv, TypeOK
  <2>5. RestartAlone'
    BY <1>3, Numbers, QueueShape DEF RestartDrained, RestartTo, RestartAlone, Restarting,
       Enqueued, IInv, TypeOK
  <2>6. BootedViews'
    BY <1>3, Numbers, QueueShape DEF RestartDrained, RestartTo, BootedViews, IInv, TypeOK
  <2>7. ParityFirst'
    BY <1>3, Numbers, QueueShape DEF RestartDrained, RestartTo, ParityFirst, IInv, TypeOK
  <2>8. PromptHeld'
    BY <1>3, Numbers, QueueShape DEF RestartDrained, RestartTo, PromptHeld, PromptOnce, IInv,
       TypeOK
  <2>9. QED
    BY <2>1, <2>2, <2>3, <2>4, <2>5, <2>6, <2>7, <2>8 DEF CoreInv
<1>4. ASSUME NEW p \in Runtimes, RequestFails(p) PROVE CoreInv'
  <2>1. /\ stage[p] # "unused" /\ stage'[p] # "unused"
        /\ \A q \in Runtimes : q # p => stage'[q] = stage[q]
    BY <1>4 DEF RequestFails, Goto, IInv, TypeOK, RequestStages, ReadyRejected
  <2>2. rpc = p => ~Restarting
    BY <1>4, Numbers DEF RequestFails, RequestStages, ReadyRejected, Disposing, IInv,
       RestartAlone, OneBehind
  <2>3. /\ stage'[p] \in {"advisor", "history", "publishing", "announcing",
                        "delivering", "sending"} => p \in validated'
        /\ stage'[p] \in {"publishing", "announcing", "failing", "restoring"} => rpc = p
        /\ stage'[p] = "advisor" => p \notin faulty
        /\ stage'[p] \in {"delivering", "sending"} => stage[p] \in {"delivering", "sending"}
    BY <1>4 DEF RequestFails, Goto, IInv, TypeOK, ParityFirst, PostsAreCurrent, Current
  <2>4. QED
    BY <1>4, <2>1, <2>2, <2>3, Moves DEF RequestFails, Goto
<1>5. ASSUME NEW p \in Runtimes, AdvisorFails(p), Calm \/ ~Answers(p) PROVE CoreInv'
  <2>1. CASE Current(p)
    <3>1. starters = {} /\ rpc = p /\ booting = 0
      <4>1. CASE Calm
        BY <2>1, <4>1, CalmFacts, Numbers DEF Current
      <4>2. CASE ~Answers(p)
        <5>1. rpc = p /\ p # NoRuntime /\ queue = <<>> /\ alive[p]
          BY <2>1, Numbers DEF Current, IInv, OneBehind
        <5>2. p \in faulty
          BY <4>2, <5>1 DEF Answers, Disposing
        <5>3. QED
          BY <1>5, <5>1, <5>2 DEF AdvisorFails, IInv, WaitForAll
      <4>3. QED
        BY <1>5, <4>1, <4>2
    <3>2. /\ \A q \in Runtimes :
               \/ stage'[q] = stage[q]
               \/ stage[q] # "unused" /\ stage'[q] \in {"over", "reaping"}
          /\ \A q \in Runtimes :
               stage'[q] \notin {"publishing", "announcing", "failing", "restoring"}
      BY <1>5, <3>1 DEF AdvisorFails, Goto, IInv, TypeOK, PostsAreCurrent
    <3>3. QED
      BY <1>5, <2>1, <3>1, <3>2, Drops DEF AdvisorFails, BlockParity, RestorePrompt
  <2>2. CASE ~Current(p)
    <3>1. /\ stage[p] # "unused" /\ stage'[p] = "over"
          /\ \A q \in Runtimes : q # p => stage'[q] = stage[q]
      BY <1>5 DEF AdvisorFails, Goto, IInv, TypeOK
    <3>2. rpc = p => ~Restarting
      BY <1>5, Numbers DEF AdvisorFails, IInv, RestartAlone
    <3>3. QED
      BY <1>5, <2>2, <3>1, <3>2, Moves DEF AdvisorFails
  <2>3. QED
    BY <2>1, <2>2
<1>6. ASSUME Bootstrapped, NoMicrotask PROVE CoreInv'
  <2>1. CreatedInOrder'
    BY <1>6, Numbers, QueueShape, NothingWaits DEF Bootstrapped, CreatedInOrder, Enqueued,
       IInv, TypeOK
  <2>2. OneBehind'
    BY <1>6, Numbers, QueueShape, NothingWaits DEF Bootstrapped, OneBehind, IInv, TypeOK
  <2>3. WaitForAll'
    BY <1>6, Numbers, QueueShape, NothingWaits DEF Bootstrapped, WaitForAll, Enqueued,
       Disposed, IInv, TypeOK
  <2>4. PostsAreCurrent'
    BY <1>6, Numbers, QueueShape, NothingWaits DEF Bootstrapped, PostsAreCurrent, IInv, TypeOK
  <2>5. RestartAlone'
    BY <1>6, Numbers, QueueShape, NothingWaits DEF Bootstrapped, RestartAlone, Restarting,
       Enqueued, IInv, TypeOK
  <2>6. BootedViews'
    BY <1>6, Numbers, QueueShape, NothingWaits DEF Bootstrapped, BootedViews, IInv, TypeOK
  <2>7. ParityFirst'
    BY <1>6, Numbers, QueueShape, NothingWaits DEF Bootstrapped, ParityFirst, IInv, TypeOK
  <2>8. PromptHeld'
    BY <1>6, Numbers, QueueShape, NothingWaits DEF Bootstrapped, PromptHeld, PromptOnce, IInv,
       TypeOK
  <2>9. QED
    BY <2>1, <2>2, <2>3, <2>4, <2>5, <2>6, <2>7, <2>8 DEF CoreInv
<1>7. ASSUME RestartReleased, NoMicrotask PROVE CoreInv'
  <2>1. CreatedInOrder'
    BY <1>7, Numbers, QueueShape, NothingWaits DEF RestartReleased, RestartTo, CreatedInOrder,
       Enqueued, IInv, TypeOK
  <2>2. OneBehind'
    BY <1>7, Numbers, QueueShape, NothingWaits DEF RestartReleased, RestartTo, OneBehind,
       IInv, TypeOK
  <2>3. WaitForAll'
    BY <1>7, Numbers, QueueShape, NothingWaits DEF RestartReleased, RestartTo, WaitForAll,
       Enqueued, Disposed, IInv, TypeOK
  <2>4. PostsAreCurrent'
    BY <1>7, Numbers, QueueShape, NothingWaits DEF RestartReleased, RestartTo,
       PostsAreCurrent, IInv, TypeOK
  <2>5. RestartAlone'
    <3>1. /\ restart.at = "releasing" /\ restart'.at = "probing"
          /\ UNCHANGED <<rpc, stage, faulty, starters>>
      BY <1>7 DEF RestartReleased, RestartTo
    <3>2. QED
      BY <3>1 DEF IInv, RestartAlone, Restarting
  <2>6. BootedViews'
    BY <1>7, Numbers, QueueShape, NothingWaits DEF RestartReleased, RestartTo, BootedViews,
       IInv, TypeOK
  <2>7. ParityFirst'
    BY <1>7, Numbers, QueueShape, NothingWaits DEF RestartReleased, RestartTo, ParityFirst,
       IInv, TypeOK
  <2>8. PromptHeld'
    BY <1>7, Numbers, QueueShape, NothingWaits DEF RestartReleased, RestartTo, PromptHeld,
       PromptOnce, IInv, TypeOK
  <2>9. QED
    BY <2>1, <2>2, <2>3, <2>4, <2>5, <2>6, <2>7, <2>8 DEF CoreInv
<1>8. ASSUME RestartReset, NoMicrotask PROVE CoreInv'
  <2>1. CreatedInOrder'
    BY <1>8, Numbers, QueueShape, NothingWaits DEF RestartReset, RestartTo, CreatedInOrder,
       Enqueued, IInv, TypeOK
  <2>2. OneBehind'
    BY <1>8, Numbers, QueueShape, NothingWaits DEF RestartReset, RestartTo, OneBehind, IInv,
       TypeOK
  <2>3. WaitForAll'
    BY <1>8, Numbers, QueueShape, NothingWaits DEF RestartReset, RestartTo, WaitForAll,
       Enqueued, Disposed, IInv, TypeOK
  <2>4. PostsAreCurrent'
    BY <1>8, Numbers, QueueShape, NothingWaits DEF RestartReset, RestartTo, PostsAreCurrent,
       IInv, TypeOK
  <2>5. RestartAlone'
    BY <1>8, Numbers, QueueShape, NothingWaits DEF RestartReset, RestartTo, RestartAlone,
       Restarting, Enqueued, IInv, TypeOK
  <2>6. BootedViews'
    BY <1>8, Numbers, QueueShape, NothingWaits DEF RestartReset, RestartTo, BootedViews, IInv,
       TypeOK
  <2>7. ParityFirst'
    BY <1>8, Numbers, QueueShape, NothingWaits DEF RestartReset, RestartTo, ParityFirst, IInv,
       TypeOK
  <2>8. PromptHeld'
    BY <1>8, Numbers, QueueShape, NothingWaits DEF RestartReset, RestartTo, PromptHeld,
       PromptOnce, IInv, TypeOK
  <2>9. QED
    BY <2>1, <2>2, <2>3, <2>4, <2>5, <2>6, <2>7, <2>8 DEF CoreInv
<1>9. ASSUME RestartPosted, NoMicrotask PROVE CoreInv'
  <2>1. /\ UNCHANGED <<rpc, stage, alive, faulty, target, torn, queue, viewVars, disposed,
                       ownership, history>>
        /\ restart.at = "posting" /\ restart'.at \in {"starting", "none"}
        /\ IF restart'.at = "starting"
             THEN starters' = starters \cup {[by |-> "restart", after |-> Enqueued]}
             ELSE starters' = starters
    BY <1>9 DEF RestartPosted, RestartTo
  <2>2. Enqueued' = Enqueued
    BY <2>1 DEF Enqueued
  <2>3. WaitForAll'
    <3>1. ~(rpc # NoRuntime /\ stage[rpc] = "advisor" /\ rpc \in faulty)
      BY <1>9, NothingWaits
    <3>2. QED
      BY <2>1, <2>2, <3>1 DEF IInv, WaitForAll, Disposed
  <2>4. RestartAlone'
    <3>1. ~\E t \in starters : t.by = "restart"
      BY <2>1 DEF IInv, RestartAlone
    <3>2. restart'.at = "starting" <=> \E t \in starters' : t.by = "restart"
      <4>1. CASE restart'.at = "starting"
        <5>1. [by |-> "restart", after |-> Enqueued] \in starters'
          BY <2>1, <4>1
        <5>2. QED
          BY <4>1, <5>1
      <4>2. CASE restart'.at # "starting"
        BY <2>1, <3>1, <4>2
      <4>3. QED
        BY <4>1, <4>2
    <3>3. QED
      BY <2>1, <3>2 DEF IInv, RestartAlone, Restarting
  <2>5. QED
    BY <2>1, <2>2, <2>3, <2>4 DEF IInv, CoreInv, CreatedInOrder, OneBehind, PostsAreCurrent,
       BootedViews, ParityFirst, PromptHeld, PromptOnce
<1>10. ASSUME NEW p \in Runtimes, Published(p), NoMicrotask PROVE CoreInv'
  <2>1. /\ stage[p] # "unused" /\ stage'[p] # "unused"
        /\ \A q \in Runtimes : q # p => stage'[q] = stage[q]
    BY <1>10 DEF Published, Goto, IInv, TypeOK
  <2>2. rpc = p => ~Restarting
    BY <1>10, Numbers, NothingWaits DEF Published, IInv, RestartAlone
  <2>3. /\ stage'[p] \in {"advisor", "history", "publishing", "announcing",
                        "delivering", "sending"} => p \in validated'
        /\ stage'[p] \in {"publishing", "announcing", "failing", "restoring"} => rpc = p
        /\ stage'[p] = "advisor" => p \notin faulty
        /\ stage'[p] \in {"delivering", "sending"} => stage[p] \in {"delivering", "sending"}
    BY <1>10 DEF Published, Goto, IInv, TypeOK, ParityFirst, PostsAreCurrent, Current
  <2>4. QED
    BY <1>10, <2>1, <2>2, <2>3, Moves DEF Published, Goto
<1>11. ASSUME NEW p \in Runtimes, Announced(p), NoMicrotask PROVE CoreInv'
  <2>1. /\ rpc = p /\ p # NoRuntime /\ stage[p] = "announcing" /\ ~Restarting /\ p \in validated
        /\ \A q \in Runtimes : q # p => stage'[q] = stage[q] /\ target'[q] = target[q]
    BY <1>11, Numbers DEF Announced, Goto, IInv, TypeOK, PostsAreCurrent, RestartAlone,
       ParityFirst
  <2>2. UNCHANGED <<rpc, alive, faulty, barrierVars, starters, restart, viewVars, disposed,
                    prompts, validated>>
    BY <1>11 DEF Announced
  <2>3. CASE ownership' = ownership /\ target' = target /\ stage'[p] \in {"over", "settling"}
    BY <2>1, <2>2, <2>3, Moves
  <2>4. CASE /\ ownership = "pending" /\ ownership' = "delivered"
             /\ stage'[p] \in {"delivering", "settling"}
             /\ stage'[p] = "delivering" => target'[p] = p
    <3>1. CreatedInOrder'
      <4>1. \A q \in Runtimes : stage'[q] = "unused" <=> stage[q] = "unused"
        BY <2>1, <2>4
      <4>2. \A i \in DOMAIN queue : queue[i] \in Runtimes
        BY DEF IInv, TypeOK
      <4>3. Enqueued' = Enqueued
        BY <2>2 DEF Enqueued
      <4>4. QED
        BY <2>2, <4>1, <4>2, <4>3 DEF IInv, CreatedInOrder, TypeOK
    <3>2. OneBehind' /\ BootedViews'
      BY <2>2 DEF IInv, OneBehind, BootedViews
    <3>3. WaitForAll' /\ PostsAreCurrent' /\ RestartAlone' /\ ParityFirst'
      BY <2>1, <2>2, <2>4 DEF IInv, WaitForAll, Enqueued, Disposed, PostsAreCurrent,
         RestartAlone, Restarting, ParityFirst
    <3>4. prompts = {} /\ \A q \in Runtimes : stage[q] \notin {"delivering", "sending"}
      BY <2>4 DEF IInv, PromptHeld, PromptOnce
    <3>5. \A q \in Runtimes : stage'[q] \in {"delivering", "sending"} =>
            q = p /\ target'[q] = q
      BY <2>1, <2>4, <3>4
    <3>6. PromptHeld'
      BY <2>2, <2>4, <3>4, <3>5 DEF PromptHeld, PromptOnce
    <3>7. QED
      BY <3>1, <3>2, <3>3, <3>6 DEF CoreInv
  <2>5. QED
    BY <1>11, <2>1, <2>3, <2>4 DEF Announced, Goto, IInv, TypeOK
<1>12. ASSUME NEW p \in Runtimes, Send(p), NoMicrotask PROVE CoreInv'
  <2>1. /\ stage[p] = "sending" /\ stage'[p] = "settling"
        /\ \A q \in Runtimes : q # p => stage'[q] = stage[q]
        /\ UNCHANGED <<rpc, alive, faulty, target, barrierVars, starters, restart, viewVars,
                       disposed, ownership, validated>>
    BY <1>12 DEF Send, Goto, IInv, TypeOK
  <2>2. /\ target[p] = p /\ p \in validated /\ prompts = {} /\ ownership = "delivered"
        /\ \A q \in Runtimes : stage[q] \in {"delivering", "sending"} => q = p
    BY <2>1 DEF IInv, PromptHeld, ParityFirst
  <2>3. prompts' \subseteq {p}
    BY <1>12, <2>2 DEF Send
  <2>4. CreatedInOrder'
    <3>1. \A q \in Runtimes : stage'[q] = "unused" <=> stage[q] = "unused"
      BY <2>1
    <3>2. \A i \in DOMAIN queue : queue[i] \in Runtimes
      BY DEF IInv, TypeOK
    <3>3. Enqueued' = Enqueued
      BY <2>1 DEF Enqueued
    <3>4. QED
      BY <2>1, <3>1, <3>2, <3>3 DEF IInv, CreatedInOrder, TypeOK
  <2>5. OneBehind' /\ BootedViews'
    BY <2>1 DEF IInv, OneBehind, BootedViews
  <2>6. WaitForAll' /\ PostsAreCurrent' /\ RestartAlone' /\ ParityFirst'
    BY <2>1, Numbers DEF IInv, WaitForAll, Enqueued, Disposed, PostsAreCurrent,
       RestartAlone, Restarting, ParityFirst, TypeOK
  <2>7. PromptHeld'
    BY <2>1, <2>2, <2>3 DEF PromptHeld, PromptOnce
  <2>8. QED
    BY <2>4, <2>5, <2>6, <2>7 DEF CoreInv
<1>13. ASSUME NEW p \in Runtimes, Settled(p), NoMicrotask PROVE CoreInv'
  <2>1. /\ stage[p] # "unused" /\ stage'[p] # "unused"
        /\ \A q \in Runtimes : q # p => stage'[q] = stage[q]
    BY <1>13 DEF Settled, Goto, IInv, TypeOK
  <2>2. rpc = p => ~Restarting
    BY <1>13, Numbers, NothingWaits DEF Settled, IInv, RestartAlone
  <2>3. /\ stage'[p] \in {"advisor", "history", "publishing", "announcing",
                        "delivering", "sending"} => p \in validated'
        /\ stage'[p] \in {"publishing", "announcing", "failing", "restoring"} => rpc = p
        /\ stage'[p] = "advisor" => p \notin faulty
        /\ stage'[p] \in {"delivering", "sending"} => stage[p] \in {"delivering", "sending"}
    BY <1>13 DEF Settled, Goto, IInv, TypeOK, ParityFirst, PostsAreCurrent, Current
  <2>4. QED
    BY <1>13, <2>1, <2>2, <2>3, Moves DEF Settled, Goto
<1>14. ASSUME NEW p \in Runtimes, FailurePosted(p), NoMicrotask PROVE CoreInv'
  <2>1. /\ stage[p] # "unused" /\ stage'[p] # "unused"
        /\ \A q \in Runtimes : q # p => stage'[q] = stage[q]
    BY <1>14 DEF FailurePosted, Goto, IInv, TypeOK
  <2>2. rpc = p => ~Restarting
    BY <1>14, Numbers, NothingWaits DEF FailurePosted, IInv, RestartAlone
  <2>3. /\ stage'[p] \in {"advisor", "history", "publishing", "announcing",
                        "delivering", "sending"} => p \in validated'
        /\ stage'[p] \in {"publishing", "announcing", "failing", "restoring"} => rpc = p
        /\ stage'[p] = "advisor" => p \notin faulty
        /\ stage'[p] \in {"delivering", "sending"} => stage[p] \in {"delivering", "sending"}
    BY <1>14 DEF FailurePosted, Goto, IInv, TypeOK, ParityFirst, PostsAreCurrent, Current
  <2>4. QED
    BY <1>14, <2>1, <2>2, <2>3, Moves DEF FailurePosted, Goto, RestorePrompt
<1>15. ASSUME NEW p \in Runtimes, FailureRestored(p), NoMicrotask PROVE CoreInv'
  <2>1. rpc # NoRuntime => starters = {}
    BY <1>15, NothingWaits
  <2>2. /\ \A q \in Runtimes :
             \/ stage'[q] = stage[q]
             \/ stage[q] # "unused" /\ stage'[q] \in {"over", "reaping"}
        /\ \A q \in Runtimes :
             stage'[q] \notin {"publishing", "announcing", "failing", "restoring"}
    BY <1>15, NothingWaits DEF FailureRestored, Goto, IInv, TypeOK, PostsAreCurrent, PostStages
  <2>3. DropRuntime
    BY <1>15, Numbers DEF FailureRestored, DropRuntime, IInv, PostsAreCurrent
  <2>4. QED
    BY <1>15, <2>1, <2>2, <2>3, Drops DEF FailureRestored
<1>16. ASSUME Teardown, Calm PROVE CoreInv'
  <2>1. /\ queue # <<>> /\ rpc = NoRuntime /\ rpc' = NoRuntime
        /\ \A q \in Runtimes : \/ stage'[q] = stage[q]
                               \/ stage[q] = "spawning" /\ stage'[q] = "stuck"
        /\ UNCHANGED <<faulty, target, starters, restart, viewVars, disposed, ownership, history>>
    BY <1>16, QueueShape DEF Teardown, IInv, TypeOK
  <2>2. /\ \A q \in Runtimes : alive'[q] => alive[q]
        /\ \/ queue' = queue /\ torn' = torn
           \/ queue' = <<>> /\ torn' = torn + 1 /\ ~alive'[Head(queue)]
        /\ Head(queue) \in Runtimes /\ queue = <<Head(queue)>>
    BY <1>16, QueueShape DEF Teardown, IInv, TypeOK
  <2>3. Enqueued' = Enqueued
    <3>1. queue' = <<>> /\ torn' = torn + 1 => torn' + Len(queue') = torn + 1
      BY QueueShape
    <3>2. Enqueued = torn + 1
      BY <2>1, QueueShape
    <3>3. QED
      BY <2>2, <3>1, <3>2 DEF Enqueued
  <2>4. CreatedInOrder'
    <3>1. \A q \in Runtimes : stage'[q] = "unused" <=> stage[q] = "unused"
      BY <2>1
    <3>2. \A i \in DOMAIN queue' :
            i \in DOMAIN queue /\ queue'[i] = queue[i] /\ queue[i] \in Runtimes
      BY <2>2 DEF IInv, TypeOK
    <3>3. QED
      BY <2>1, <2>2, <2>3, <3>1, <3>2 DEF IInv, CreatedInOrder
  <2>5. OneBehind'
    <3>1. ASSUME NEW q \in Runtimes, alive'[q] PROVE queue' = <<q>>
      <4>1. queue = <<q>> /\ Head(queue) = q
        <5>1. queue = <<q>>
          BY <2>1, <2>2, <3>1, Numbers DEF IInv, OneBehind
        <5>2. QED
          BY <5>1
      <4>2. QED
        BY <2>2, <3>1, <4>1
    <3>2. QED
      BY <2>1, <2>2, <3>1 DEF OneBehind
  <2>6. WaitForAll' /\ RestartAlone' /\ BootedViews'
    <3>1. disposed.at = "done" => queue = <<>>
      BY DEF IInv, WaitForAll
    <3>2. QED
      BY <2>1, <2>3, <3>1 DEF IInv, WaitForAll, Disposed, RestartAlone, Restarting, BootedViews
  <2>7. PostsAreCurrent' /\ ParityFirst'
    BY <2>1, Numbers DEF IInv, PostsAreCurrent, ParityFirst
  <2>8. PromptHeld'
    <3>1. \A q \in Runtimes :
            stage'[q] \in {"delivering", "sending"} => stage[q] \in {"delivering", "sending"}
      BY <2>1
    <3>2. QED
      BY <2>1, <3>1 DEF IInv, PromptHeld, PromptOnce
  <2>9. QED
    BY <2>4, <2>5, <2>6, <2>7, <2>8 DEF CoreInv
<1>17. ASSUME DisposeDone, Calm PROVE CoreInv'
  <2>1. CreatedInOrder'
    BY <1>17, Numbers, QueueShape, CalmFacts DEF DisposeDone, CreatedInOrder, Enqueued, IInv,
       TypeOK
  <2>2. OneBehind'
    BY <1>17, Numbers, QueueShape, CalmFacts DEF DisposeDone, OneBehind, IInv, TypeOK
  <2>3. WaitForAll'
    BY <1>17, Numbers, QueueShape, CalmFacts DEF DisposeDone, WaitForAll, Enqueued, Disposed,
       Passes, IInv, TypeOK
  <2>4. PostsAreCurrent'
    BY <1>17, Numbers, QueueShape, CalmFacts DEF DisposeDone, PostsAreCurrent, PostStages,
       IInv, TypeOK
  <2>5. RestartAlone'
    BY <1>17, Numbers, QueueShape, CalmFacts DEF DisposeDone, RestartAlone, Restarting,
       Enqueued, IInv, TypeOK
  <2>6. BootedViews'
    BY <1>17, Numbers, QueueShape, CalmFacts DEF DisposeDone, BootedViews, IInv, TypeOK
  <2>7. ParityFirst'
    BY <1>17, Numbers, QueueShape, CalmFacts DEF DisposeDone, ParityFirst, IInv, TypeOK
  <2>8. PromptHeld'
    BY <1>17, Numbers, QueueShape, CalmFacts DEF DisposeDone, PromptHeld, PromptOnce, IInv,
       TypeOK
  <2>9. QED
    BY <2>1, <2>2, <2>3, <2>4, <2>5, <2>6, <2>7, <2>8 DEF CoreInv
<1>18. ASSUME RestartDone, Calm PROVE CoreInv'
  <2>1. CreatedInOrder'
    BY <1>18, Numbers, QueueShape, CalmFacts DEF RestartDone, RestartTo, CreatedInOrder,
       Enqueued, IInv, TypeOK
  <2>2. OneBehind'
    BY <1>18, Numbers, QueueShape, CalmFacts DEF RestartDone, RestartTo, OneBehind, IInv, TypeOK
  <2>3. WaitForAll'
    BY <1>18, Numbers, QueueShape, CalmFacts DEF RestartDone, RestartTo, WaitForAll, Enqueued,
       Disposed, IInv, TypeOK
  <2>4. PostsAreCurrent'
    BY <1>18, Numbers, QueueShape, CalmFacts DEF RestartDone, RestartTo, PostsAreCurrent,
       PostStages, IInv, TypeOK
  <2>5. RestartAlone'
    BY <1>18, Numbers, QueueShape, CalmFacts DEF RestartDone, RestartTo, RestartAlone,
       Restarting, Enqueued, IInv, TypeOK
  <2>6. BootedViews'
    BY <1>18, Numbers, QueueShape, CalmFacts DEF RestartDone, RestartTo, BootedViews, IInv,
       TypeOK
  <2>7. ParityFirst'
    BY <1>18, Numbers, QueueShape, CalmFacts DEF RestartDone, RestartTo, ParityFirst, IInv,
       TypeOK
  <2>8. PromptHeld'
    BY <1>18, Numbers, QueueShape, CalmFacts DEF RestartDone, RestartTo, PromptHeld,
       PromptOnce, IInv, TypeOK
  <2>9. QED
    BY <2>1, <2>2, <2>3, <2>4, <2>5, <2>6, <2>7, <2>8 DEF CoreInv
<1>19. ASSUME NEW p \in Runtimes, FrameReady(p), Calm PROVE CoreInv'
  <2>1. /\ stage[p] # "unused" /\ stage'[p] # "unused"
        /\ \A q \in Runtimes : q # p => stage'[q] = stage[q]
    BY <1>19 DEF FrameReady, Continue, Goto, IInv, TypeOK
  <2>2. rpc = p => ~Restarting
    BY <1>19, Numbers, CalmFacts DEF FrameReady, IInv, RestartAlone
  <2>3. /\ stage'[p] \in {"advisor", "history", "publishing", "announcing",
                        "delivering", "sending"} => p \in validated'
        /\ stage'[p] \in {"publishing", "announcing", "failing", "restoring"} => rpc = p
        /\ stage'[p] = "advisor" => p \notin faulty
        /\ stage'[p] \in {"delivering", "sending"} => stage[p] \in {"delivering", "sending"}
    BY <1>19, AnsweringIsCurrent DEF FrameReady, Continue, Goto, IInv, TypeOK, ParityFirst,
       PostsAreCurrent, Current
  <2>4. QED
    BY <1>19, <2>1, <2>2, <2>3, Moves DEF FrameReady, Continue, Goto
<1>20. ASSUME NEW p \in Runtimes, Started(p), Calm PROVE CoreInv'
  <2>1. /\ stage[p] # "unused" /\ stage'[p] # "unused"
        /\ \A q \in Runtimes : q # p => stage'[q] = stage[q]
    BY <1>20 DEF Started, Continue, Goto, IfCurrent, IInv, TypeOK
  <2>2. rpc = p => ~Restarting
    BY <1>20, Numbers, CalmFacts DEF Started, IInv, RestartAlone
  <2>3. /\ stage'[p] \in {"advisor", "history", "publishing", "announcing",
                        "delivering", "sending"} => p \in validated'
        /\ stage'[p] \in {"publishing", "announcing", "failing", "restoring"} => rpc = p
        /\ stage'[p] = "advisor" => p \notin faulty
        /\ stage'[p] \in {"delivering", "sending"} => stage[p] \in {"delivering", "sending"}
    BY <1>20, AnsweringIsCurrent DEF Started, Continue, Goto, IfCurrent, IInv, TypeOK,
       ParityFirst, PostsAreCurrent, Current
  <2>4. QED
    BY <1>20, <2>1, <2>2, <2>3, Moves DEF Started, Continue, Goto, IfCurrent
<1>21. ASSUME NEW p \in Runtimes, Switched(p), Calm PROVE CoreInv'
  <2>1. /\ stage[p] # "unused" /\ stage'[p] # "unused"
        /\ \A q \in Runtimes : q # p => stage'[q] = stage[q]
    BY <1>21 DEF Switched, Continue, Goto, IInv, TypeOK
  <2>2. rpc = p => ~Restarting
    BY <1>21, Numbers, CalmFacts DEF Switched, IInv, RestartAlone
  <2>3. /\ stage'[p] \in {"advisor", "history", "publishing", "announcing",
                        "delivering", "sending"} => p \in validated'
        /\ stage'[p] \in {"publishing", "announcing", "failing", "restoring"} => rpc = p
        /\ stage'[p] = "advisor" => p \notin faulty
        /\ stage'[p] \in {"delivering", "sending"} => stage[p] \in {"delivering", "sending"}
    BY <1>21, AnsweringIsCurrent DEF Switched, Continue, Goto, IInv, TypeOK, ParityFirst,
       PostsAreCurrent, Current
  <2>4. QED
    BY <1>21, <2>1, <2>2, <2>3, Moves DEF Switched, Continue, Goto
<1>22. ASSUME NEW p \in Runtimes, ParityPasses(p), Calm PROVE CoreInv'
  <2>1. /\ stage[p] # "unused" /\ stage'[p] # "unused"
        /\ \A q \in Runtimes : q # p => stage'[q] = stage[q]
    BY <1>22 DEF ParityPasses, Continue, Goto, IInv, TypeOK
  <2>2. rpc = p => ~Restarting
    BY <1>22, Numbers, CalmFacts DEF ParityPasses, IInv, RestartAlone
  <2>3. /\ stage'[p] \in {"advisor", "history", "publishing", "announcing",
                        "delivering", "sending"} => p \in validated'
        /\ stage'[p] \in {"publishing", "announcing", "failing", "restoring"} => rpc = p
        /\ stage'[p] = "advisor" => p \notin faulty
        /\ stage'[p] \in {"delivering", "sending"} => stage[p] \in {"delivering", "sending"}
    BY <1>22, AnsweringIsCurrent DEF ParityPasses, Continue, Goto, IInv, TypeOK, ParityFirst,
       PostsAreCurrent, Current
  <2>4. QED
    BY <1>22, <2>1, <2>2, <2>3, Moves DEF ParityPasses, Continue, Goto, StateKnown
<1>23. ASSUME NEW p \in Runtimes, ParityFails(p), Calm PROVE CoreInv'
  <2>1. rpc # NoRuntime => starters = {}
    BY <1>23, CalmFacts
  <2>2. /\ \A q \in Runtimes :
             \/ stage'[q] = stage[q]
             \/ stage[q] # "unused" /\ stage'[q] \in {"over", "reaping"}
        /\ \A q \in Runtimes :
             stage'[q] \notin {"publishing", "announcing", "failing", "restoring"}
    BY <1>23, CalmFacts DEF ParityFails, Continue, Goto, IInv, TypeOK, PostsAreCurrent,
       PostStages
  <2>3. QED
    BY <1>23, <2>1, <2>2, Drops DEF ParityFails, BlockParity, RestorePrompt, StateKnown
<1>24. ASSUME NEW p \in Runtimes, AdvisorVerified(p), Calm PROVE CoreInv'
  <2>1. /\ stage[p] # "unused" /\ stage'[p] # "unused"
        /\ \A q \in Runtimes : q # p => stage'[q] = stage[q]
    BY <1>24 DEF AdvisorVerified, Continue, Goto, IfCurrent, IInv, TypeOK
  <2>2. rpc = p => ~Restarting
    BY <1>24, Numbers, CalmFacts DEF AdvisorVerified, IInv, RestartAlone
  <2>3. /\ stage'[p] \in {"advisor", "history", "publishing", "announcing",
                        "delivering", "sending"} => p \in validated'
        /\ stage'[p] \in {"publishing", "announcing", "failing", "restoring"} => rpc = p
        /\ stage'[p] = "advisor" => p \notin faulty
        /\ stage'[p] \in {"delivering", "sending"} => stage[p] \in {"delivering", "sending"}
    BY <1>24, AnsweringIsCurrent DEF AdvisorVerified, Continue, Goto, IfCurrent, IInv, TypeOK,
       ParityFirst, PostsAreCurrent, Current
  <2>4. QED
    BY <1>24, <2>1, <2>2, <2>3, Moves DEF AdvisorVerified, Continue, Goto, IfCurrent
<1>25. ASSUME NEW p \in Runtimes, HistoryLoaded(p), Calm PROVE CoreInv'
  <2>1. /\ stage[p] # "unused" /\ stage'[p] # "unused"
        /\ \A q \in Runtimes : q # p => stage'[q] = stage[q]
    BY <1>25 DEF HistoryLoaded, Continue, Goto, IfCurrent, IInv, TypeOK
  <2>2. rpc = p => ~Restarting
    BY <1>25, Numbers, CalmFacts DEF HistoryLoaded, IInv, RestartAlone
  <2>3. /\ stage'[p] \in {"advisor", "history", "publishing", "announcing",
                        "delivering", "sending"} => p \in validated'
        /\ stage'[p] \in {"publishing", "announcing", "failing", "restoring"} => rpc = p
        /\ stage'[p] = "advisor" => p \notin faulty
        /\ stage'[p] \in {"delivering", "sending"} => stage[p] \in {"delivering", "sending"}
    BY <1>25, AnsweringIsCurrent DEF HistoryLoaded, Continue, Goto, IfCurrent, IInv, TypeOK,
       ParityFirst, PostsAreCurrent, Current
  <2>4. QED
    BY <1>25, <2>1, <2>2, <2>3, Moves DEF HistoryLoaded, Continue, Goto, IfCurrent
<1>26. ASSUME NEW p \in Runtimes, Deliver(p), Calm PROVE CoreInv'
  <2>1. /\ stage[p] # "unused" /\ stage'[p] # "unused"
        /\ \A q \in Runtimes : q # p => stage'[q] = stage[q]
    BY <1>26 DEF Deliver, Goto, IInv, TypeOK
  <2>2. rpc = p => ~Restarting
    BY <1>26, Numbers, CalmFacts DEF Deliver, IInv, RestartAlone
  <2>3. /\ stage'[p] \in {"advisor", "history", "publishing", "announcing",
                        "delivering", "sending"} => p \in validated'
        /\ stage'[p] \in {"publishing", "announcing", "failing", "restoring"} => rpc = p
        /\ stage'[p] = "advisor" => p \notin faulty
        /\ stage'[p] \in {"delivering", "sending"} => stage[p] \in {"delivering", "sending"}
    BY <1>26 DEF Deliver, Goto, IInv, TypeOK, ParityFirst, PostsAreCurrent, Current
  <2>4. QED
    BY <1>26, <2>1, <2>2, <2>3, Moves DEF Deliver, Goto
<1>27. ASSUME NEW p \in Runtimes, Reaped(p), Calm PROVE CoreInv'
  <2>1. /\ stage[p] # "unused" /\ stage'[p] # "unused"
        /\ \A q \in Runtimes : q # p => stage'[q] = stage[q]
    BY <1>27 DEF Reaped, Goto, IInv, TypeOK
  <2>2. rpc = p => ~Restarting
    BY <1>27, Numbers, CalmFacts DEF Reaped, IInv, RestartAlone
  <2>3. /\ stage'[p] \in {"advisor", "history", "publishing", "announcing",
                        "delivering", "sending"} => p \in validated'
        /\ stage'[p] \in {"publishing", "announcing", "failing", "restoring"} => rpc = p
        /\ stage'[p] = "advisor" => p \notin faulty
        /\ stage'[p] \in {"delivering", "sending"} => stage[p] \in {"delivering", "sending"}
    BY <1>27 DEF Reaped, Goto, IInv, TypeOK, ParityFirst, PostsAreCurrent, Current
  <2>4. QED
    BY <1>27, <2>1, <2>2, <2>3, Moves DEF Reaped, Goto
<1>28. ASSUME NEW p \in Runtimes, Block(p), Calm PROVE CoreInv'
  <2>1. rpc # NoRuntime => starters = {}
    BY <1>28, CalmFacts
  <2>2. /\ \A q \in Runtimes :
             \/ stage'[q] = stage[q]
             \/ stage[q] # "unused" /\ stage'[q] \in {"over", "reaping"}
        /\ \A q \in Runtimes :
             stage'[q] \notin {"publishing", "announcing", "failing", "restoring"}
    BY <1>28, CalmFacts DEF Block, IInv, TypeOK, PostsAreCurrent, PostStages
  <2>3. QED
    BY <1>28, <2>1, <2>2, Drops DEF Block, BlockParity, RestorePrompt
<1>29. ASSUME NEW p \in Runtimes, Exit(p), Calm PROVE CoreInv'
  <2>1. CreatedInOrder'
    BY <1>29, Numbers, QueueShape, CalmFacts DEF Exit, ExitAs, RestorePrompt, CreatedInOrder,
       Enqueued, IInv, TypeOK
  <2>2. OneBehind'
    BY <1>29, Numbers, QueueShape, CalmFacts DEF Exit, ExitAs, RestorePrompt, OneBehind, IInv,
       TypeOK
  <2>3. WaitForAll'
    BY <1>29, Numbers, QueueShape, CalmFacts DEF Exit, ExitAs, RestorePrompt, WaitForAll,
       Enqueued, Disposed, IInv, TypeOK
  <2>4. PostsAreCurrent'
    BY <1>29, Numbers, QueueShape, CalmFacts DEF Exit, ExitAs, RestorePrompt, PostsAreCurrent,
       PostStages, IInv, TypeOK
  <2>5. RestartAlone'
    BY <1>29, Numbers, QueueShape, CalmFacts DEF Exit, ExitAs, RestorePrompt, RestartAlone,
       Restarting, Enqueued, IInv, TypeOK
  <2>6. BootedViews'
    BY <1>29, Numbers, QueueShape, CalmFacts DEF Exit, ExitAs, RestorePrompt, BootedViews,
       IInv, TypeOK
  <2>7. ParityFirst'
    BY <1>29, Numbers, QueueShape, CalmFacts DEF Exit, ExitAs, RestorePrompt, ParityFirst,
       IInv, TypeOK
  <2>8. PromptHeld'
    BY <1>29, Numbers, QueueShape, CalmFacts DEF Exit, ExitAs, RestorePrompt, PromptHeld,
       PromptOnce, IInv, TypeOK
  <2>9. QED
    BY <2>1, <2>2, <2>3, <2>4, <2>5, <2>6, <2>7, <2>8 DEF CoreInv
<1>30. ASSUME NEW p \in Runtimes, ProtocolError(p), Calm PROVE CoreInv'
  <2>1. CreatedInOrder'
    BY <1>30, Numbers, QueueShape, CalmFacts DEF ProtocolError,
       RestorePrompt, CreatedInOrder, Enqueued, IInv, TypeOK
  <2>2. OneBehind'
    BY <1>30, Numbers, QueueShape, CalmFacts DEF ProtocolError,
       RestorePrompt, OneBehind, IInv, TypeOK
  <2>3. WaitForAll'
    BY <1>30, Numbers, QueueShape, CalmFacts DEF ProtocolError,
       RestorePrompt, WaitForAll, Enqueued, Disposed, IInv, TypeOK
  <2>4. PostsAreCurrent'
    BY <1>30, Numbers, QueueShape, CalmFacts DEF ProtocolError,
       RestorePrompt, PostsAreCurrent, PostStages, IInv, TypeOK
  <2>5. RestartAlone'
    BY <1>30, Numbers, QueueShape, CalmFacts DEF ProtocolError,
       RestorePrompt, RestartAlone, Restarting, Enqueued, IInv, TypeOK
  <2>6. BootedViews'
    BY <1>30, Numbers, QueueShape, CalmFacts DEF ProtocolError,
       RestorePrompt, BootedViews, IInv, TypeOK
  <2>7. ParityFirst'
    BY <1>30, Numbers, QueueShape, CalmFacts DEF ProtocolError,
       RestorePrompt, ParityFirst, IInv, TypeOK
  <2>8. PromptHeld'
    BY <1>30, Numbers, QueueShape, CalmFacts DEF ProtocolError,
       RestorePrompt, PromptHeld, PromptOnce, IInv, TypeOK
  <2>9. QED
    BY <2>1, <2>2, <2>3, <2>4, <2>5, <2>6, <2>7, <2>8 DEF CoreInv
<1>31a. ASSUME NEW p \in Runtimes, TurnFrame(p), Calm PROVE CoreInv'
  <2>1. CreatedInOrder'
    BY <1>31a, Numbers, QueueShape, CalmFacts DEF TurnFrame, CreatedInOrder, Enqueued, IInv,
       TypeOK
  <2>2. OneBehind'
    BY <1>31a, Numbers, QueueShape, CalmFacts DEF TurnFrame, OneBehind, IInv, TypeOK
  <2>3. WaitForAll'
    BY <1>31a, Numbers, QueueShape, CalmFacts DEF TurnFrame, WaitForAll, Enqueued, Disposed,
       IInv, TypeOK
  <2>4. PostsAreCurrent'
    BY <1>31a, Numbers, QueueShape, CalmFacts DEF TurnFrame, PostsAreCurrent, PostStages, IInv,
       TypeOK
  <2>5. RestartAlone'
    BY <1>31a, Numbers, QueueShape, CalmFacts DEF TurnFrame, RestartAlone, Restarting,
       Enqueued, IInv, TypeOK
  <2>6. BootedViews'
    BY <1>31a, Numbers, QueueShape, CalmFacts DEF TurnFrame, BootedViews, IInv, TypeOK
  <2>7. ParityFirst'
    BY <1>31a, Numbers, QueueShape, CalmFacts DEF TurnFrame, ParityFirst, IInv, TypeOK
  <2>8. PromptHeld'
    BY <1>31a, Numbers, QueueShape, CalmFacts DEF TurnFrame, PromptHeld, PromptOnce, IInv, TypeOK
  <2>9. QED
    BY <2>1, <2>2, <2>3, <2>4, <2>5, <2>6, <2>7, <2>8 DEF CoreInv
<1>31. ASSUME NEW p \in Runtimes, UiRequest(p), Calm PROVE CoreInv'
  <2>1. CreatedInOrder'
    BY <1>31, Numbers, QueueShape, CalmFacts DEF UiRequest, CreatedInOrder, Enqueued, IInv,
       TypeOK
  <2>2. OneBehind'
    BY <1>31, Numbers, QueueShape, CalmFacts DEF UiRequest, OneBehind, IInv, TypeOK
  <2>3. WaitForAll'
    BY <1>31, Numbers, QueueShape, CalmFacts DEF UiRequest, WaitForAll, Enqueued, Disposed,
       IInv, TypeOK
  <2>4. PostsAreCurrent'
    BY <1>31, Numbers, QueueShape, CalmFacts DEF UiRequest, PostsAreCurrent, PostStages, IInv,
       TypeOK
  <2>5. RestartAlone'
    BY <1>31, Numbers, QueueShape, CalmFacts DEF UiRequest, RestartAlone, Restarting,
       Enqueued, IInv, TypeOK
  <2>6. BootedViews'
    BY <1>31, Numbers, QueueShape, CalmFacts DEF UiRequest, BootedViews, IInv, TypeOK
  <2>7. ParityFirst'
    BY <1>31, Numbers, QueueShape, CalmFacts DEF UiRequest, ParityFirst, IInv, TypeOK
  <2>8. PromptHeld'
    BY <1>31, Numbers, QueueShape, CalmFacts DEF UiRequest, PromptHeld, PromptOnce, IInv, TypeOK
  <2>9. QED
    BY <2>1, <2>2, <2>3, <2>4, <2>5, <2>6, <2>7, <2>8 DEF CoreInv
<1>32. ASSUME Attach, Calm PROVE CoreInv'
  <2>1. CreatedInOrder'
    BY <1>32, Numbers, QueueShape, CalmFacts DEF Attach, CreatedInOrder, Enqueued, IInv, TypeOK
  <2>2. OneBehind'
    BY <1>32, Numbers, QueueShape, CalmFacts DEF Attach, OneBehind, IInv, TypeOK
  <2>3. WaitForAll'
    BY <1>32, Numbers, QueueShape, CalmFacts DEF Attach, WaitForAll, Enqueued, Disposed, IInv,
       TypeOK
  <2>4. PostsAreCurrent'
    BY <1>32, Numbers, QueueShape, CalmFacts DEF Attach, PostsAreCurrent, PostStages, IInv,
       TypeOK
  <2>5. RestartAlone'
    BY <1>32, Numbers, QueueShape, CalmFacts DEF Attach, RestartAlone, Restarting, Enqueued,
       IInv, TypeOK
  <2>6. BootedViews'
    BY <1>32, Numbers, QueueShape, CalmFacts DEF Attach, BootedViews, IInv, TypeOK
  <2>7. ParityFirst'
    BY <1>32, Numbers, QueueShape, CalmFacts DEF Attach, ParityFirst, IInv, TypeOK
  <2>8. PromptHeld'
    BY <1>32, Numbers, QueueShape, CalmFacts DEF Attach, PromptHeld, PromptOnce, IInv, TypeOK
  <2>9. QED
    BY <2>1, <2>2, <2>3, <2>4, <2>5, <2>6, <2>7, <2>8 DEF CoreInv
<1>33. ASSUME Detach, Calm PROVE CoreInv'
  <2>1. CreatedInOrder'
    BY <1>33, Numbers, QueueShape, CalmFacts DEF Detach, CreatedInOrder, Enqueued, IInv, TypeOK
  <2>2. OneBehind'
    BY <1>33, Numbers, QueueShape, CalmFacts DEF Detach, OneBehind, IInv, TypeOK
  <2>3. WaitForAll'
    BY <1>33, Numbers, QueueShape, CalmFacts DEF Detach, WaitForAll, Enqueued, Disposed, IInv,
       TypeOK
  <2>4. PostsAreCurrent'
    BY <1>33, Numbers, QueueShape, CalmFacts DEF Detach, PostsAreCurrent, PostStages, IInv,
       TypeOK
  <2>5. RestartAlone'
    BY <1>33, Numbers, QueueShape, CalmFacts DEF Detach, RestartAlone, Restarting, Enqueued,
       IInv, TypeOK
  <2>6. BootedViews'
    BY <1>33, Numbers, QueueShape, CalmFacts DEF Detach, BootedViews, IInv, TypeOK
  <2>7. ParityFirst'
    BY <1>33, Numbers, QueueShape, CalmFacts DEF Detach, ParityFirst, IInv, TypeOK
  <2>8. PromptHeld'
    BY <1>33, Numbers, QueueShape, CalmFacts DEF Detach, PromptHeld, PromptOnce, IInv, TypeOK
  <2>9. QED
    BY <2>1, <2>2, <2>3, <2>4, <2>5, <2>6, <2>7, <2>8 DEF CoreInv
<1>34. ASSUME ViewReady, Calm PROVE CoreInv'
  <2>1. CreatedInOrder'
    BY <1>34, Numbers, QueueShape, CalmFacts DEF ViewReady, CreatedInOrder, Enqueued, IInv,
       TypeOK
  <2>2. OneBehind'
    BY <1>34, Numbers, QueueShape, CalmFacts DEF ViewReady, OneBehind, IInv, TypeOK
  <2>3. WaitForAll'
    BY <1>34, Numbers, QueueShape, CalmFacts, NothingWaits DEF ViewReady, WaitForAll,
       Enqueued, Disposed, Calm, IInv, TypeOK
  <2>4. PostsAreCurrent'
    BY <1>34, Numbers, QueueShape, CalmFacts DEF ViewReady, PostsAreCurrent, PostStages, IInv,
       TypeOK
  <2>5. RestartAlone'
    BY <1>34, Numbers, QueueShape, CalmFacts DEF ViewReady, RestartAlone, Restarting,
       Enqueued, IInv, TypeOK
  <2>6. BootedViews'
    BY <1>34, Numbers, QueueShape, CalmFacts DEF ViewReady, BootedViews, IInv, TypeOK
  <2>7. ParityFirst'
    BY <1>34, Numbers, QueueShape, CalmFacts DEF ViewReady, ParityFirst, IInv, TypeOK
  <2>8. PromptHeld'
    BY <1>34, Numbers, QueueShape, CalmFacts DEF ViewReady, PromptHeld, PromptOnce, IInv, TypeOK
  <2>9. QED
    BY <2>1, <2>2, <2>3, <2>4, <2>5, <2>6, <2>7, <2>8 DEF CoreInv
<1>35. ASSUME Restart, Calm PROVE CoreInv'
  <2>1. rpc # NoRuntime => starters = {}
    BY <1>35, CalmFacts
  <2>2. /\ \A q \in Runtimes :
             \/ stage'[q] = stage[q]
             \/ stage[q] # "unused" /\ stage'[q] \in {"over", "reaping"}
        /\ \A q \in Runtimes :
             stage'[q] \notin {"publishing", "announcing", "failing", "restoring"}
    BY <1>35, CalmFacts DEF Restart, IInv, TypeOK, PostsAreCurrent, PostStages
  <2>3. QED
    BY <1>35, <2>1, <2>2, Drops DEF Restart
<1>36. ASSUME Dispose, Calm PROVE CoreInv'
  <2>1. rpc # NoRuntime => starters = {}
    BY <1>36, CalmFacts
  <2>2. /\ \A q \in Runtimes :
             \/ stage'[q] = stage[q]
             \/ stage[q] # "unused" /\ stage'[q] \in {"over", "reaping"}
        /\ \A q \in Runtimes :
             stage'[q] \notin {"publishing", "announcing", "failing", "restoring"}
    BY <1>36, CalmFacts DEF Dispose, IInv, TypeOK, PostsAreCurrent, PostStages
  <2>3. QED
    BY <1>36, <2>1, <2>2, Drops DEF Dispose, Disposed
<1>37. CASE UNCHANGED vars
  BY <1>37 DEF vars, IInv, CoreInv, CreatedInOrder, OneBehind, WaitForAll, PostsAreCurrent,
     RestartAlone, BootedViews, ParityFirst, PromptHeld, PromptOnce, Enqueued, Disposed,
     Restarting
<1>38. QED
  <2>1. CASE Microtask
    BY <2>1, <1>1, <1>2, <1>3, <1>4, <1>5 DEF Microtask
  <2>2. CASE NoMicrotask /\ PostStep
    BY <2>2, <1>6, <1>7, <1>8, <1>9, <1>10, <1>11, <1>12, <1>13, <1>14, <1>15 DEF PostStep
  <2>3. CASE Calm /\ HostStep
    BY <2>3, <1>16, <1>17, <1>18, <1>19, <1>20, <1>21, <1>22, <1>23, <1>24, <1>25, <1>26,
       <1>27, <1>4, <1>5 DEF HostStep, RequestSettles
  <2>4. CASE Calm /\ Event
    BY <2>4, <1>28, <1>29, <1>30, <1>31, <1>31a, <1>32, <1>33, <1>34, <1>35, <1>36 DEF Event,
       RuntimeEvent, UserAct
  <2>5. QED
    BY <2>1, <2>2, <2>3, <2>4, <1>37 DEF Next, Progress, Calm, AtRest

\* With posts that wait for nothing the invariant holds in every reachable state.
LEMMA Invariance == ASSUME SlowPosts = FALSE PROVE Spec => []IInv
<1>1. TypeOK /\ Init => IInv
  <2> SUFFICES ASSUME TypeOK, Init PROVE IInv
    OBVIOUS
  <2>1. CreatedInOrder
    <3>1. Enqueued = 0
      BY DEF Init, Enqueued
    <3>2. QED
      BY <3>1, Numbers DEF Init, CreatedInOrder
  <2>2. OneBehind
    BY DEF Init, OneBehind
  <2>3. WaitForAll /\ PostsAreCurrent /\ BootedViews /\ ParityFirst
    BY DEF Init, WaitForAll, Disposed, PostsAreCurrent, BootedViews, ParityFirst
  <2>4. RestartAlone /\ PromptHeld
    BY DEF Init, RestartAlone, Restarting, PromptHeld, PromptOnce
  <2>5. QED
    BY <2>1, <2>2, <2>3, <2>4 DEF IInv
<1>2. IInv /\ TypeOK' /\ [Next]_vars => IInv'
  BY CoreStep DEF IInv, CoreInv
<1>3. QED
  BY <1>1, <1>2, TypeSafety, PTL DEF Spec

\* At most one OMP process of a chat runs: #startRpc waits for the teardown barrier, and
\* what it waits for is everything that was ever queued.
THEOREM OneAtATime == ASSUME SlowPosts = FALSE PROVE Spec => []OneRuntime
<1>1. IInv => OneRuntime
  <2> SUFFICES ASSUME IInv, NEW p \in Runtimes, NEW q \in Runtimes, alive[p], alive[q]
               PROVE  p = q
    BY DEF OneRuntime
  <2>1. (p = rpc \/ queue = <<p>>) /\ (q = rpc \/ queue = <<q>>)
    BY DEF IInv, OneBehind
  <2>2. rpc \in Runtimes => queue = <<>>
    BY Numbers DEF IInv, OneBehind
  <2>3. <<p>> # <<>> /\ <<q>> # <<>> /\ (<<p>> = <<q>> => p = q)
    OBVIOUS
  <2>4. QED
    BY <2>1, <2>2, <2>3
<1>2. QED
  BY <1>1, Invariance, PTL

\* When dispose() resolves, no process of the chat is left: the disposal dropped the
\* runtime, nothing starts another, and the barrier is empty.
THEOREM DisposalReaps == ASSUME SlowPosts = FALSE PROVE Spec => []DisposedMeansReaped
<1>1. IInv => DisposedMeansReaped
  <2> SUFFICES ASSUME IInv, disposed.at = "done", NEW p \in Runtimes PROVE ~alive[p]
    BY DEF DisposedMeansReaped
  <2>1. rpc = NoRuntime /\ queue = <<>>
    BY DEF IInv, WaitForAll, Disposed
  <2>2. <<p>> # <<>>
    OBVIOUS
  <2>3. QED
    BY <2>1, <2>2, Numbers DEF IInv, OneBehind
<1>2. QED
  BY <1>1, Invariance, PTL

\* The startup prompt goes to one validated runtime at most, and never after it went back
\* to the composer.
THEOREM PromptValidated == ASSUME SlowPosts = FALSE PROVE Spec => []PromptOnce
<1>1. IInv => PromptOnce
  BY DEF IInv, PromptHeld
<1>2. QED
  BY <1>1, Invariance, PTL

-------------------------------------------------------------------------------
(* One view                                                                *)

\* Until the view asked for a runtime and got it, none was created.
Opening ==
  views = 0 \/ view = "loading" \/ booting > 0 \/ \E s \in starters : s.by = "ready"
OpenedOnce ==
  (view = "ready" \/ booting > 0 \/ starters # {} \/ \E p \in Runtimes : stage[p] # "unused")
    => views = 1 /\ view # "loading"

\* The flags of the parity speak of the current runtime.
FlagsCurrent ==
  /\ Opening \/ restart.at \in {"posting", "starting"} => ~parityPassed /\ ~parityFailed
  /\ \A p \in validated : stage[p] \notin {"unused", "spawning"}
  /\ rpc # NoRuntime => (parityPassed <=> rpc \in validated) /\ (parityFailed => rpc \in faulty)

\* A chat that says it is ready or at work has a runtime that takes prompts, or is about to
\* restart, unless it heard of a turn after its runtime broke the protocol.
IdleUsable ==
  /\ status \in {"idle", "running"} /\ ~Disposed /\ ~broken /\ ~late =>
       \/ restart.at \in {"draining", "releasing", "probing"}
       \/ rpc # NoRuntime /\ rpc \notin faulty /\ parityPassed /\ ~parityFailed
  /\ \A p \in Runtimes :
       /\ stage[p] = "publishing" => p \notin faulty
       /\ stage[p] \in {"failing", "restoring"} => status \notin {"idle", "running"}

\* The inductive invariant of a chat with one view.
ViewInv ==
  IInv /\ OpenedOnce /\ FlagsCurrent /\ IdleUsable /\ UiOnlyAfterParity

\* Every step keeps it, as IInv is known to hold after the step.
LEMMA ViewStep ==
  ASSUME ViewInv, IInv', [Next]_vars, ~SlowPosts, MaxViews = 1 PROVE ViewInv'
<1> USE DEF ViewInv, processVars, barrierVars, restartVars, viewVars,
       parityVars, fileVars, history
<1>1. ASSUME NEW s \in starters, StartRpc(s) PROVE ViewInv'
  <2>1. OpenedOnce'
    <3>1. views = 1 /\ view # "loading"
      BY <1>1 DEF OpenedOnce
    <3>2. UNCHANGED <<view, views>>
      BY <1>1 DEF StartRpc
    <3>3. QED
      BY <3>1, <3>2 DEF OpenedOnce
  <2>2. FlagsCurrent'
    <3>1. /\ Opening' \/ restart'.at \in {"posting", "starting"} =>
               Opening \/ restart.at \in {"posting", "starting"}
          /\ UNCHANGED <<parityVars, faulty, validated>>
      BY <1>1 DEF StartRpc, Create, RestartAfter, Opening
    <3>2. CASE UNCHANGED <<rpc, stage>>
      BY <3>1, <3>2 DEF FlagsCurrent
    <3>3. ASSUME NEW p \in Runtimes, FirstUnused(p), Create(s, p) PROVE FlagsCurrent'
      <4>1. Opening \/ restart.at = "starting"
        BY <1>1 DEF IInv, TypeOK, RestartAlone, Opening
      <4>2. ~parityPassed /\ ~parityFailed /\ p \notin validated
        BY <3>3, <4>1 DEF FirstUnused, FlagsCurrent
      <4>3. rpc' = p /\ \A q \in Runtimes : q # p => stage'[q] = stage[q]
        BY <3>3 DEF Create, Goto, IInv, TypeOK
      <4>4. \A q \in validated' : stage'[q] \notin {"unused", "spawning"}
        BY <3>1, <4>2, <4>3 DEF FlagsCurrent, IInv, TypeOK
      <4>5. QED
        BY <3>1, <4>2, <4>3, <4>4 DEF FlagsCurrent
    <3>4. QED
      BY <1>1, <3>2, <3>3 DEF StartRpc
  <2>3. IdleUsable'
    <3>1. UNCHANGED <<disposed, broken, faulty, parityVars>>
      BY <1>1 DEF StartRpc
    <3>2. CASE (Disposed \/ rpc # NoRuntime) /\ UNCHANGED <<rpc, stage, alive, status, late>>
      <4>1. CASE s.by = "restart"
        <5>1. restart.at = "starting"
          BY <1>1, <4>1 DEF IInv, RestartAlone
        <5>2. QED
          BY <3>1, <3>2, <5>1 DEF IdleUsable, Disposed
      <4>2. CASE s.by # "restart"
        <5>1. restart' = restart
          BY <1>1, <3>2, <4>2 DEF StartRpc, Create, RestartAfter
        <5>2. QED
          BY <3>1, <3>2, <5>1 DEF IdleUsable, Disposed
      <4>3. QED
        BY <4>1, <4>2
    <3>3. ASSUME NEW p \in Runtimes, Create(s, p) PROVE IdleUsable'
      <4>1. status' = "starting" /\ stage'[p] = "spawning"
            /\ \A q \in Runtimes : q # p => stage'[q] = stage[q]
        BY <3>3 DEF Create, Goto, IInv, TypeOK
      <4>2. QED
        BY <3>1, <4>1 DEF IdleUsable
    <3>4. QED
      BY <1>1, <3>2, <3>3 DEF StartRpc
  <2>4. UiOnlyAfterParity'
    BY <1>1, Numbers DEF StartRpc, Create, FirstUnused, RestartAfter, Goto, UiOnlyAfterParity,
       IInv, TypeOK
  <2>5. QED
    BY <2>1, <2>2, <2>3, <2>4
<1>2. ASSUME NEW s \in starters, StartRejected(s) PROVE ViewInv'
  <2>1. OpenedOnce'
    <3>1. views = 1 /\ view # "loading"
      BY <1>2 DEF OpenedOnce
    <3>2. UNCHANGED <<view, views>>
      BY <1>2 DEF StartRejected
    <3>3. QED
      BY <3>1, <3>2 DEF OpenedOnce
  <2>2. FlagsCurrent'
    BY <1>2, Numbers DEF StartRejected, RestartAfter, FlagsCurrent, Opening, IInv, TypeOK
  <2>3. IdleUsable'
    <3>1. broken' /\ UNCHANGED <<stage, faulty, status>>
      BY <1>2 DEF StartRejected, Rejects
    <3>2. QED
      BY <3>1 DEF IdleUsable
  <2>4. UiOnlyAfterParity'
    BY <1>2, Numbers DEF StartRejected, RestartAfter, UiOnlyAfterParity, IInv, TypeOK
  <2>5. QED
    BY <2>1, <2>2, <2>3, <2>4
<1>3. ASSUME RestartDrained PROVE ViewInv'
  <2>1. OpenedOnce'
    BY <1>3, Numbers DEF RestartDrained, RestartTo, OpenedOnce, IInv, TypeOK
  <2>2. FlagsCurrent'
    BY <1>3, Numbers DEF RestartDrained, RestartTo, FlagsCurrent, Opening, IInv, TypeOK
  <2>3. IdleUsable'
    <3>1. /\ restart.at = "draining" /\ (restart'.at = "releasing" \/ broken)
          /\ UNCHANGED <<rpc, stage, faulty, broken, disposed, parityVars, status, late>>
      BY <1>3 DEF RestartDrained, RestartTo, Rejects
    <3>2. QED
      BY <3>1 DEF IdleUsable, Disposed
  <2>4. UiOnlyAfterParity'
    BY <1>3, Numbers DEF RestartDrained, RestartTo, UiOnlyAfterParity, IInv, TypeOK
  <2>5. QED
    BY <2>1, <2>2, <2>3, <2>4
<1>4. ASSUME NEW p \in Runtimes, RequestFails(p), Calm \/ ~Answers(p) PROVE ViewInv'
  <2>1. OpenedOnce'
    <3>1. views = 1 /\ view # "loading"
      BY <1>4 DEF OpenedOnce, RequestFails, RequestStages, ReadyRejected
    <3>2. UNCHANGED <<view, views>>
      BY <1>4 DEF RequestFails
    <3>3. QED
      BY <3>1, <3>2 DEF OpenedOnce
  <2>2. FlagsCurrent'
    BY <1>4, Numbers DEF RequestFails, Goto, FlagsCurrent, Opening, IInv, TypeOK
  <2>3. IdleUsable'
    BY <1>4, Numbers DEF RequestFails, Goto, IdleUsable, Disposed, IInv, TypeOK
  <2>4. UiOnlyAfterParity'
    BY <1>4, Numbers DEF RequestFails, Goto, UiOnlyAfterParity, IInv, TypeOK
  <2>5. QED
    BY <2>1, <2>2, <2>3, <2>4
<1>5. ASSUME NEW p \in Runtimes, AdvisorFails(p), Calm \/ ~Answers(p) PROVE ViewInv'
  <2>1. OpenedOnce'
    BY <1>5, Numbers DEF AdvisorFails, Goto, BlockParity, DropRuntime, RestorePrompt,
       OpenedOnce, IInv, TypeOK
  <2>2. FlagsCurrent'
    <3>1. CASE Current(p)
      <4>1. rpc = p /\ p # NoRuntime /\ stage[p] = "advisor" /\ queue = <<>> /\ alive[p]
        BY <1>5, <3>1, Numbers DEF AdvisorFails, Current, IInv, OneBehind
      <4>2. starters = {} /\ booting = 0 /\ ~Restarting
        <5>1. CASE Calm
          BY <4>1, <5>1, CalmFacts
        <5>2. CASE ~Answers(p)
          <6>1. p \in faulty
            BY <4>1, <5>2 DEF Answers, Disposing
          <6>2. QED
            BY <4>1, <6>1 DEF IInv, WaitForAll, RestartAlone
        <5>3. QED
          BY <1>5, <5>1, <5>2
      <4>3. views = 1 /\ view # "loading"
        BY <4>1 DEF OpenedOnce
      <4>4. /\ UNCHANGED <<view, views, booting, starters, restart, validated>>
            /\ rpc' = NoRuntime
            /\ \A q \in Runtimes : stage'[q] = stage[q] \/ stage'[q] = "over"
        BY <1>5, <3>1 DEF AdvisorFails, Goto, BlockParity, DropRuntime, IInv, TypeOK
      <4>5. QED
        BY <4>2, <4>3, <4>4 DEF FlagsCurrent, Opening, Restarting, IInv, TypeOK
    <3>2. CASE ~Current(p)
      <4>1. /\ UNCHANGED <<view, views, booting, starters, restart, validated, rpc, faulty,
                           parityVars>>
            /\ \A q \in Runtimes : stage'[q] = stage[q] \/ stage'[q] = "over"
        BY <1>5, <3>2 DEF AdvisorFails, Goto, IInv, TypeOK
      <4>2. QED
        BY <4>1 DEF FlagsCurrent, Opening, IInv, TypeOK
    <3>3. QED
      BY <3>1, <3>2
  <2>3. IdleUsable'
    BY <1>5, Numbers DEF AdvisorFails, Goto, BlockParity, DropRuntime, RestorePrompt,
       IdleUsable, Disposed, IInv, TypeOK
  <2>4. UiOnlyAfterParity'
    BY <1>5, Numbers DEF AdvisorFails, Goto, BlockParity, DropRuntime, RestorePrompt,
       UiOnlyAfterParity, IInv, TypeOK
  <2>5. QED
    BY <2>1, <2>2, <2>3, <2>4
<1>6. ASSUME Bootstrapped, NoMicrotask PROVE ViewInv'
  <2>1. OpenedOnce'
    <3>1. views = 1 /\ view # "loading"
      BY <1>6 DEF OpenedOnce, Bootstrapped
    <3>2. UNCHANGED <<view, views>>
      BY <1>6 DEF Bootstrapped
    <3>3. QED
      BY <3>1, <3>2 DEF OpenedOnce
  <2>2. FlagsCurrent'
    BY <1>6, Numbers, NothingWaits DEF Bootstrapped, FlagsCurrent, Opening, IInv, TypeOK
  <2>3. IdleUsable'
    BY <1>6, Numbers, NothingWaits DEF Bootstrapped, IdleUsable, Disposed, IInv, TypeOK
  <2>4. UiOnlyAfterParity'
    BY <1>6, Numbers, NothingWaits DEF Bootstrapped, UiOnlyAfterParity, IInv, TypeOK
  <2>5. QED
    BY <2>1, <2>2, <2>3, <2>4
<1>7. ASSUME RestartReleased, NoMicrotask PROVE ViewInv'
  <2>1. OpenedOnce'
    BY <1>7, Numbers, NothingWaits DEF RestartReleased, RestartTo, OpenedOnce, IInv, TypeOK
  <2>2. FlagsCurrent'
    BY <1>7, Numbers, NothingWaits DEF RestartReleased, RestartTo, FlagsCurrent, Opening,
       IInv, TypeOK
  <2>3. IdleUsable'
    BY <1>7, Numbers, NothingWaits DEF RestartReleased, RestartTo, IdleUsable, Disposed, IInv,
       TypeOK
  <2>4. UiOnlyAfterParity'
    BY <1>7, Numbers, NothingWaits DEF RestartReleased, RestartTo, UiOnlyAfterParity, IInv,
       TypeOK
  <2>5. QED
    BY <2>1, <2>2, <2>3, <2>4
<1>8. ASSUME RestartReset, NoMicrotask PROVE ViewInv'
  <2>1. OpenedOnce'
    BY <1>8, Numbers, NothingWaits DEF RestartReset, RestartTo, OpenedOnce, IInv, TypeOK
  <2>2. FlagsCurrent'
    <3>1. /\ restart.at = "probing" /\ restart'.at = "posting"
          /\ ~parityPassed' /\ ~parityFailed'
          /\ UNCHANGED <<rpc, stage, faulty, validated>>
      BY <1>8 DEF RestartReset, RestartTo
    <3>2. rpc # NoRuntime => rpc \notin validated
      BY <3>1 DEF FlagsCurrent, IInv, RestartAlone, Restarting
    <3>3. QED
      BY <3>1, <3>2 DEF FlagsCurrent
  <2>3. IdleUsable'
    BY <1>8, Numbers, NothingWaits DEF RestartReset, RestartTo, IdleUsable, Disposed, IInv,
       TypeOK
  <2>4. UiOnlyAfterParity'
    BY <1>8, Numbers, NothingWaits DEF RestartReset, RestartTo, UiOnlyAfterParity, IInv, TypeOK
  <2>5. QED
    BY <2>1, <2>2, <2>3, <2>4
<1>9. ASSUME RestartPosted, NoMicrotask PROVE ViewInv'
  <2>1. OpenedOnce'
    BY <1>9, Numbers, NothingWaits DEF RestartPosted, RestartTo, OpenedOnce, IInv, TypeOK
  <2>2. FlagsCurrent'
    BY <1>9, Numbers, NothingWaits DEF RestartPosted, RestartTo, FlagsCurrent, Opening, IInv,
       TypeOK
  <2>3. IdleUsable'
    BY <1>9, Numbers, NothingWaits DEF RestartPosted, RestartTo, IdleUsable, Disposed, IInv,
       TypeOK
  <2>4. UiOnlyAfterParity'
    BY <1>9, Numbers, NothingWaits DEF RestartPosted, RestartTo, UiOnlyAfterParity, IInv, TypeOK
  <2>5. QED
    BY <2>1, <2>2, <2>3, <2>4
<1>10. ASSUME NEW p \in Runtimes, Published(p), NoMicrotask PROVE ViewInv'
  <2>1. OpenedOnce'
    BY <1>10, Numbers, NothingWaits DEF Published, Goto, OpenedOnce, IInv, TypeOK
  <2>2. FlagsCurrent'
    BY <1>10, Numbers, NothingWaits DEF Published, Goto, FlagsCurrent, Opening, IInv, TypeOK
  <2>3. IdleUsable'
    <3>1. rpc = p /\ p # NoRuntime /\ p \in validated /\ p \notin faulty
      BY <1>10, Numbers DEF Published, IdleUsable, IInv, PostsAreCurrent, ParityFirst
    <3>2. parityPassed /\ ~parityFailed
      BY <3>1 DEF FlagsCurrent
    <3>3. /\ UNCHANGED <<rpc, faulty, parityVars>> /\ stage'[p] = "announcing"
          /\ \A q \in Runtimes : q # p => stage'[q] = stage[q]
      BY <1>10 DEF Published, Goto, IInv, TypeOK
    <3>4. \A q \in Runtimes : stage'[q] \notin {"publishing", "failing", "restoring"}
      BY <3>1, <3>3 DEF IInv, PostsAreCurrent
    <3>5. QED
      BY <3>1, <3>2, <3>3, <3>4 DEF IdleUsable
  <2>4. UiOnlyAfterParity'
    BY <1>10, Numbers, NothingWaits DEF Published, Goto, UiOnlyAfterParity, IInv, TypeOK
  <2>5. QED
    BY <2>1, <2>2, <2>3, <2>4
<1>11. ASSUME NEW p \in Runtimes, Announced(p), NoMicrotask PROVE ViewInv'
  <2>1. OpenedOnce'
    BY <1>11, Numbers, NothingWaits DEF Announced, Goto, OpenedOnce, IInv, TypeOK
  <2>2. FlagsCurrent'
    <3>1. /\ UNCHANGED <<rpc, view, views, booting, starters, restart, faulty, validated,
                         parityVars>>
          /\ \A q \in Runtimes : q # p => stage'[q] = stage[q]
          /\ stage'[p] \notin {"unused", "spawning"}
      BY <1>11 DEF Announced, Goto, IInv, TypeOK
    <3>2. QED
      BY <3>1 DEF FlagsCurrent, Opening, IInv, TypeOK
  <2>3. IdleUsable'
    BY <1>11, Numbers, NothingWaits DEF Announced, Goto, IdleUsable, Disposed, IInv, TypeOK
  <2>4. UiOnlyAfterParity'
    BY <1>11, Numbers, NothingWaits DEF Announced, Goto, UiOnlyAfterParity, IInv, TypeOK
  <2>5. QED
    BY <2>1, <2>2, <2>3, <2>4
<1>12. ASSUME NEW p \in Runtimes, Send(p), NoMicrotask PROVE ViewInv'
  <2>1. OpenedOnce'
    BY <1>12, Numbers, NothingWaits DEF Send, Goto, OpenedOnce, IInv, TypeOK
  <2>2. FlagsCurrent'
    BY <1>12, Numbers, NothingWaits DEF Send, Goto, FlagsCurrent, Opening, IInv, TypeOK
  <2>3. IdleUsable'
    BY <1>12, Numbers, NothingWaits DEF Send, Goto, IdleUsable, Disposed, IInv, TypeOK
  <2>4. UiOnlyAfterParity'
    BY <1>12, Numbers, NothingWaits DEF Send, Goto, UiOnlyAfterParity, IInv, TypeOK
  <2>5. QED
    BY <2>1, <2>2, <2>3, <2>4
<1>13. ASSUME NEW p \in Runtimes, Settled(p), NoMicrotask PROVE ViewInv'
  <2>1. OpenedOnce'
    BY <1>13, Numbers, NothingWaits DEF Settled, Goto, OpenedOnce, IInv, TypeOK
  <2>2. FlagsCurrent'
    BY <1>13, Numbers, NothingWaits DEF Settled, Goto, FlagsCurrent, Opening, IInv, TypeOK
  <2>3. IdleUsable'
    BY <1>13, Numbers, NothingWaits DEF Settled, Goto, IdleUsable, Disposed, IInv, TypeOK
  <2>4. UiOnlyAfterParity'
    BY <1>13, Numbers, NothingWaits DEF Settled, Goto, UiOnlyAfterParity, IInv, TypeOK
  <2>5. QED
    BY <2>1, <2>2, <2>3, <2>4
<1>14. ASSUME NEW p \in Runtimes, FailurePosted(p), NoMicrotask PROVE ViewInv'
  <2>1. OpenedOnce'
    BY <1>14, Numbers, NothingWaits DEF FailurePosted, Goto, RestorePrompt, OpenedOnce, IInv,
       TypeOK
  <2>2. FlagsCurrent'
    BY <1>14, Numbers, NothingWaits DEF FailurePosted, Goto, RestorePrompt, FlagsCurrent,
       Opening, IInv, TypeOK
  <2>3. IdleUsable'
    BY <1>14, Numbers, NothingWaits DEF FailurePosted, Goto, RestorePrompt, IdleUsable,
       Disposed, IInv, TypeOK
  <2>4. UiOnlyAfterParity'
    BY <1>14, Numbers, NothingWaits DEF FailurePosted, Goto, RestorePrompt, UiOnlyAfterParity,
       IInv, TypeOK
  <2>5. QED
    BY <2>1, <2>2, <2>3, <2>4
<1>15. ASSUME NEW p \in Runtimes, FailureRestored(p), NoMicrotask PROVE ViewInv'
  <2>1. OpenedOnce'
    BY <1>15, Numbers, NothingWaits DEF FailureRestored, Goto, OpenedOnce, IInv, TypeOK
  <2>2. FlagsCurrent'
    BY <1>15, Numbers, NothingWaits DEF FailureRestored, Goto, FlagsCurrent, Opening, IInv,
       TypeOK
  <2>3. IdleUsable'
    BY <1>15, Numbers, NothingWaits DEF FailureRestored, Goto, IdleUsable, Disposed, IInv,
       TypeOK
  <2>4. UiOnlyAfterParity'
    BY <1>15, Numbers, NothingWaits DEF FailureRestored, Goto, UiOnlyAfterParity, IInv, TypeOK
  <2>5. QED
    BY <2>1, <2>2, <2>3, <2>4
<1>16. ASSUME Teardown, Calm PROVE ViewInv'
  <2>1. OpenedOnce'
    BY <1>16, Numbers, CalmFacts DEF Teardown, OpenedOnce, IInv, TypeOK
  <2>2. FlagsCurrent'
    BY <1>16, Numbers, CalmFacts DEF Teardown, FlagsCurrent, Opening, IInv, TypeOK
  <2>3. IdleUsable'
    BY <1>16, Numbers, CalmFacts DEF Teardown, IdleUsable, Disposed, IInv, TypeOK
  <2>4. UiOnlyAfterParity'
    BY <1>16, Numbers, CalmFacts DEF Teardown, UiOnlyAfterParity, IInv, TypeOK
  <2>5. QED
    BY <2>1, <2>2, <2>3, <2>4
<1>17. ASSUME DisposeDone, Calm PROVE ViewInv'
  <2>1. OpenedOnce'
    BY <1>17, Numbers, CalmFacts DEF DisposeDone, OpenedOnce, IInv, TypeOK
  <2>2. FlagsCurrent'
    BY <1>17, Numbers, CalmFacts DEF DisposeDone, FlagsCurrent, Opening, IInv, TypeOK
  <2>3. IdleUsable'
    BY <1>17, Numbers, CalmFacts DEF DisposeDone, IdleUsable, Disposed, IInv, TypeOK
  <2>4. UiOnlyAfterParity'
    BY <1>17, Numbers, CalmFacts DEF DisposeDone, UiOnlyAfterParity, IInv, TypeOK
  <2>5. QED
    BY <2>1, <2>2, <2>3, <2>4
<1>18. ASSUME RestartDone, Calm PROVE ViewInv'
  <2>1. OpenedOnce'
    BY <1>18, Numbers, CalmFacts DEF RestartDone, RestartTo, OpenedOnce, IInv, TypeOK
  <2>2. FlagsCurrent'
    BY <1>18, Numbers, CalmFacts DEF RestartDone, RestartTo, FlagsCurrent, Opening, IInv, TypeOK
  <2>3. IdleUsable'
    BY <1>18, Numbers, CalmFacts DEF RestartDone, RestartTo, IdleUsable, Disposed, IInv, TypeOK
  <2>4. UiOnlyAfterParity'
    BY <1>18, Numbers, CalmFacts DEF RestartDone, RestartTo, UiOnlyAfterParity, IInv, TypeOK
  <2>5. QED
    BY <2>1, <2>2, <2>3, <2>4
<1>19. ASSUME NEW p \in Runtimes, FrameReady(p), Calm PROVE ViewInv'
  <2>1. OpenedOnce'
    BY <1>19, Numbers, CalmFacts, AnsweringIsCurrent DEF FrameReady, Continue, Goto,
       OpenedOnce, IInv, TypeOK
  <2>2. FlagsCurrent'
    BY <1>19, Numbers, CalmFacts, AnsweringIsCurrent DEF FrameReady, Continue, Goto,
       FlagsCurrent, Opening, IInv, TypeOK
  <2>3. IdleUsable'
    <3>1. /\ UNCHANGED <<rpc, faulty, broken, disposed, restart, status, late,
                        parityVars>>
          /\ \A q \in Runtimes : q # p => stage'[q] = stage[q]
          /\ stage'[p] \notin {"failing", "restoring"} /\ p \notin faulty
      BY <1>19, AnsweringIsCurrent DEF FrameReady, Continue, Goto, IfCurrent, IInv, TypeOK
    <3>2. QED
      BY <3>1 DEF IdleUsable, Disposed
  <2>4. UiOnlyAfterParity'
    BY <1>19, Numbers, CalmFacts, AnsweringIsCurrent DEF FrameReady, Continue, Goto,
       UiOnlyAfterParity, IInv, TypeOK
  <2>5. QED
    BY <2>1, <2>2, <2>3, <2>4
<1>20. ASSUME NEW p \in Runtimes, Started(p), Calm PROVE ViewInv'
  <2>1. OpenedOnce'
    BY <1>20, Numbers, CalmFacts, AnsweringIsCurrent DEF Started, Continue, Goto, IfCurrent,
       OpenedOnce, IInv, TypeOK
  <2>2. FlagsCurrent'
    BY <1>20, Numbers, CalmFacts, AnsweringIsCurrent DEF Started, Continue, Goto, IfCurrent,
       FlagsCurrent, Opening, IInv, TypeOK
  <2>3. IdleUsable'
    BY <1>20, Numbers, CalmFacts, AnsweringIsCurrent DEF Started, Continue, Goto, IfCurrent,
       IdleUsable, Disposed, IInv, TypeOK
  <2>4. UiOnlyAfterParity'
    BY <1>20, Numbers, CalmFacts, AnsweringIsCurrent DEF Started, Continue, Goto, IfCurrent,
       UiOnlyAfterParity, IInv, TypeOK
  <2>5. QED
    BY <2>1, <2>2, <2>3, <2>4
<1>21. ASSUME NEW p \in Runtimes, Switched(p), Calm PROVE ViewInv'
  <2>1. OpenedOnce'
    BY <1>21, Numbers, CalmFacts, AnsweringIsCurrent DEF Switched, Continue, Goto, OpenedOnce,
       IInv, TypeOK
  <2>2. FlagsCurrent'
    BY <1>21, Numbers, CalmFacts, AnsweringIsCurrent DEF Switched, Continue, Goto,
       FlagsCurrent, Opening, IInv, TypeOK
  <2>3. IdleUsable'
    <3>1. /\ UNCHANGED <<rpc, faulty, broken, disposed, restart, status, late,
                        parityVars>>
          /\ \A q \in Runtimes : q # p => stage'[q] = stage[q]
          /\ stage'[p] \notin {"failing", "restoring"} /\ p \notin faulty
      BY <1>21, AnsweringIsCurrent DEF Switched, Continue, Goto, IfCurrent, IInv, TypeOK
    <3>2. QED
      BY <3>1 DEF IdleUsable, Disposed
  <2>4. UiOnlyAfterParity'
    BY <1>21, Numbers, CalmFacts, AnsweringIsCurrent DEF Switched, Continue, Goto,
       UiOnlyAfterParity, IInv, TypeOK
  <2>5. QED
    BY <2>1, <2>2, <2>3, <2>4
<1>22. ASSUME NEW p \in Runtimes, ParityPasses(p), Calm PROVE ViewInv'
  <2>1. OpenedOnce'
    BY <1>22, Numbers, CalmFacts, AnsweringIsCurrent DEF ParityPasses, Continue, Goto,
       StateKnown, OpenedOnce, IInv, TypeOK
  <2>2. FlagsCurrent'
    <3>1. /\ rpc = p /\ p # NoRuntime /\ stage[p] = "state"
      BY <1>22, AnsweringIsCurrent, Numbers DEF ParityPasses, Continue
    <3>2. ~Opening /\ restart.at \notin {"posting", "starting"}
      BY <1>22, <3>1, CalmFacts DEF OpenedOnce, Opening, Restarting
    <3>3. /\ UNCHANGED <<view, views, booting, starters, restart, rpc, faulty, parityFailed>>
          /\ parityPassed' /\ validated' = validated \cup {p} /\ stage'[p] = "advisor"
          /\ \A q \in Runtimes : q # p => stage'[q] = stage[q]
      BY <1>22 DEF ParityPasses, Continue, Goto, IInv, TypeOK
    <3>4. \A q \in validated' : stage'[q] \notin {"unused", "spawning"}
      BY <3>3 DEF FlagsCurrent, IInv, TypeOK
    <3>5. QED
      BY <3>1, <3>2, <3>3, <3>4 DEF FlagsCurrent, Opening
  <2>3. IdleUsable'
    <3>1. rpc = p /\ p # NoRuntime /\ p \notin faulty
      BY <1>22, AnsweringIsCurrent, Numbers DEF ParityPasses, Continue
    <3>2. /\ UNCHANGED <<rpc, faulty, parityFailed>> /\ parityPassed' /\ stage'[p] = "advisor"
          /\ \A q \in Runtimes : q # p => stage'[q] = stage[q]
      BY <1>22 DEF ParityPasses, Continue, Goto, IInv, TypeOK
    <3>3. ~parityFailed
      BY <3>1 DEF FlagsCurrent
    <3>4. \A q \in Runtimes : stage'[q] \notin PostStages
      <4>1. \A q \in Runtimes : stage[q] \notin PostStages
        BY <1>22, CalmFacts
      <4>2. QED
        BY <3>2, <4>1 DEF PostStages
    <3>5. QED
      BY <3>1, <3>2, <3>3, <3>4 DEF IdleUsable, PostStages
  <2>4. UiOnlyAfterParity'
    BY <1>22, Numbers, CalmFacts, AnsweringIsCurrent DEF ParityPasses, Continue, Goto,
       StateKnown, UiOnlyAfterParity, IInv, TypeOK
  <2>5. QED
    BY <2>1, <2>2, <2>3, <2>4
<1>23. ASSUME NEW p \in Runtimes, ParityFails(p), Calm PROVE ViewInv'
  <2>1. OpenedOnce'
    BY <1>23, Numbers, CalmFacts, AnsweringIsCurrent DEF ParityFails, Continue, Goto,
       StateKnown, BlockParity, DropRuntime, RestorePrompt, OpenedOnce, IInv, TypeOK
  <2>2. FlagsCurrent'
    <3>1. rpc = p /\ p # NoRuntime /\ stage[p] # "unused"
      BY <1>23, AnsweringIsCurrent, Numbers DEF ParityFails, Continue
    <3>2. ~Opening /\ restart.at \notin {"posting", "starting"}
      BY <1>23, <3>1, CalmFacts DEF OpenedOnce, Opening, Restarting
    <3>3. /\ UNCHANGED <<view, views, booting, starters, restart, validated>>
          /\ rpc' = NoRuntime
          /\ \A q \in Runtimes : stage'[q] = stage[q] \/ stage'[q] = "over"
      BY <1>23 DEF ParityFails, Continue, Goto, BlockParity, DropRuntime, IInv, TypeOK
    <3>4. QED
      BY <3>2, <3>3 DEF FlagsCurrent, Opening, IInv, TypeOK
  <2>3. IdleUsable'
    BY <1>23, Numbers, CalmFacts, AnsweringIsCurrent DEF ParityFails, Continue, Goto,
       StateKnown, BlockParity, DropRuntime, RestorePrompt, IdleUsable, Disposed, IInv, TypeOK
  <2>4. UiOnlyAfterParity'
    BY <1>23, Numbers, CalmFacts, AnsweringIsCurrent DEF ParityFails, Continue, Goto,
       StateKnown, BlockParity, DropRuntime, RestorePrompt, UiOnlyAfterParity, IInv, TypeOK
  <2>5. QED
    BY <2>1, <2>2, <2>3, <2>4
<1>24. ASSUME NEW p \in Runtimes, AdvisorVerified(p), Calm PROVE ViewInv'
  <2>1. OpenedOnce'
    BY <1>24, Numbers, CalmFacts, AnsweringIsCurrent DEF AdvisorVerified, Continue, Goto,
       IfCurrent, OpenedOnce, IInv, TypeOK
  <2>2. FlagsCurrent'
    BY <1>24, Numbers, CalmFacts, AnsweringIsCurrent DEF AdvisorVerified, Continue, Goto,
       IfCurrent, FlagsCurrent, Opening, IInv, TypeOK
  <2>3. IdleUsable'
    <3>1. /\ UNCHANGED <<rpc, faulty, broken, disposed, restart, status, late,
                        parityVars>>
          /\ \A q \in Runtimes : q # p => stage'[q] = stage[q]
          /\ stage'[p] \notin {"failing", "restoring"} /\ p \notin faulty
      BY <1>24, AnsweringIsCurrent DEF AdvisorVerified, Continue, Goto, IfCurrent, IInv, TypeOK
    <3>2. QED
      BY <3>1 DEF IdleUsable, Disposed
  <2>4. UiOnlyAfterParity'
    BY <1>24, Numbers, CalmFacts, AnsweringIsCurrent DEF AdvisorVerified, Continue, Goto,
       IfCurrent, UiOnlyAfterParity, IInv, TypeOK
  <2>5. QED
    BY <2>1, <2>2, <2>3, <2>4
<1>25. ASSUME NEW p \in Runtimes, HistoryLoaded(p), Calm PROVE ViewInv'
  <2>1. OpenedOnce'
    BY <1>25, Numbers, CalmFacts, AnsweringIsCurrent DEF HistoryLoaded, Continue, Goto,
       IfCurrent, OpenedOnce, IInv, TypeOK
  <2>2. FlagsCurrent'
    BY <1>25, Numbers, CalmFacts, AnsweringIsCurrent DEF HistoryLoaded, Continue, Goto,
       IfCurrent, FlagsCurrent, Opening, IInv, TypeOK
  <2>3. IdleUsable'
    <3>1. /\ UNCHANGED <<rpc, faulty, broken, disposed, restart, status, late,
                        parityVars>>
          /\ \A q \in Runtimes : q # p => stage'[q] = stage[q]
          /\ stage'[p] \notin {"failing", "restoring"} /\ p \notin faulty
      BY <1>25, AnsweringIsCurrent DEF HistoryLoaded, Continue, Goto, IfCurrent, IInv, TypeOK
    <3>2. QED
      BY <3>1 DEF IdleUsable, Disposed
  <2>4. UiOnlyAfterParity'
    BY <1>25, Numbers, CalmFacts, AnsweringIsCurrent DEF HistoryLoaded, Continue, Goto,
       IfCurrent, UiOnlyAfterParity, IInv, TypeOK
  <2>5. QED
    BY <2>1, <2>2, <2>3, <2>4
<1>26. ASSUME NEW p \in Runtimes, Deliver(p), Calm PROVE ViewInv'
  <2>1. OpenedOnce'
    BY <1>26, Numbers, CalmFacts DEF Deliver, Goto, OpenedOnce, IInv, TypeOK
  <2>2. FlagsCurrent'
    BY <1>26, Numbers, CalmFacts DEF Deliver, Goto, FlagsCurrent, Opening, IInv, TypeOK
  <2>3. IdleUsable'
    BY <1>26, Numbers, CalmFacts DEF Deliver, Goto, IdleUsable, Disposed, IInv, TypeOK
  <2>4. UiOnlyAfterParity'
    BY <1>26, Numbers, CalmFacts DEF Deliver, Goto, UiOnlyAfterParity, IInv, TypeOK
  <2>5. QED
    BY <2>1, <2>2, <2>3, <2>4
<1>27. ASSUME NEW p \in Runtimes, Reaped(p), Calm PROVE ViewInv'
  <2>1. OpenedOnce'
    BY <1>27, Numbers, CalmFacts DEF Reaped, Goto, OpenedOnce, IInv, TypeOK
  <2>2. FlagsCurrent'
    BY <1>27, Numbers, CalmFacts DEF Reaped, Goto, FlagsCurrent, Opening, IInv, TypeOK
  <2>3. IdleUsable'
    BY <1>27, Numbers, CalmFacts DEF Reaped, Goto, IdleUsable, Disposed, IInv, TypeOK
  <2>4. UiOnlyAfterParity'
    BY <1>27, Numbers, CalmFacts DEF Reaped, Goto, UiOnlyAfterParity, IInv, TypeOK
  <2>5. QED
    BY <2>1, <2>2, <2>3, <2>4
<1>28. ASSUME NEW p \in Runtimes, Block(p), Calm PROVE ViewInv'
  <2>1. OpenedOnce'
    BY <1>28, Numbers, CalmFacts DEF Block, BlockParity, DropRuntime,
       RestorePrompt, OpenedOnce, IInv, TypeOK
  <2>2. FlagsCurrent'
    <3>1. rpc = p /\ p # NoRuntime /\ stage[p] # "unused"
      BY <1>28, Numbers DEF Block, SendsFrames, IInv, CreatedInOrder
    <3>2. ~Opening /\ restart.at \notin {"posting", "starting"}
      BY <1>28, <3>1, CalmFacts DEF OpenedOnce, Opening, Restarting
    <3>3. /\ UNCHANGED <<view, views, booting, starters, restart, validated>>
          /\ rpc' = NoRuntime
          /\ \A q \in Runtimes : stage'[q] = stage[q] \/ stage'[q] = "over"
      BY <1>28 DEF Block, BlockParity, DropRuntime, IInv, TypeOK
    <3>4. QED
      BY <3>2, <3>3 DEF FlagsCurrent, Opening, IInv, TypeOK
  <2>3. IdleUsable'
    BY <1>28, Numbers, CalmFacts DEF Block, BlockParity, DropRuntime,
       RestorePrompt, IdleUsable, Disposed, IInv, TypeOK
  <2>4. UiOnlyAfterParity'
    BY <1>28, Numbers, CalmFacts DEF Block, BlockParity, DropRuntime,
       RestorePrompt, UiOnlyAfterParity, IInv, TypeOK
  <2>5. QED
    BY <2>1, <2>2, <2>3, <2>4
<1>29. ASSUME NEW p \in Runtimes, Exit(p), Calm PROVE ViewInv'
  <2>1. OpenedOnce'
    BY <1>29, Numbers, CalmFacts DEF Exit, ExitAs, RestorePrompt, OpenedOnce, IInv, TypeOK
  <2>2. FlagsCurrent'
    <3>1. /\ UNCHANGED <<view, views, booting, starters, restart, stage, faulty, validated,
                         parityVars>>
          /\ rpc' = rpc \/ rpc' = NoRuntime
      BY <1>29 DEF Exit, ExitAs
    <3>2. QED
      BY <3>1 DEF FlagsCurrent, Opening
  <2>3. IdleUsable'
    BY <1>29, Numbers, CalmFacts DEF Exit, ExitAs, RestorePrompt, IdleUsable, Disposed, IInv,
       TypeOK
  <2>4. UiOnlyAfterParity'
    BY <1>29, Numbers, CalmFacts DEF Exit, ExitAs, RestorePrompt, UiOnlyAfterParity, IInv,
       TypeOK
  <2>5. QED
    BY <2>1, <2>2, <2>3, <2>4
<1>30. ASSUME NEW p \in Runtimes, ProtocolError(p), Calm PROVE ViewInv'
  <2>1. OpenedOnce'
    BY <1>30, Numbers, CalmFacts DEF ProtocolError, RestorePrompt,
       OpenedOnce, IInv, TypeOK
  <2>2. FlagsCurrent'
    <3>1. rpc = p /\ p # NoRuntime /\ stage[p] # "unused"
      BY <1>30, Numbers DEF ProtocolError, IInv, CreatedInOrder
    <3>2. ~Opening /\ restart.at \notin {"posting", "starting"}
      BY <1>30, <3>1, CalmFacts DEF OpenedOnce, Opening, Restarting
    <3>3. /\ UNCHANGED <<view, views, booting, starters, restart, rpc, stage, validated,
                         parityPassed>>
          /\ faulty' = faulty \cup {p}
      BY <1>30 DEF ProtocolError
    <3>4. QED
      BY <3>1, <3>2, <3>3 DEF FlagsCurrent, Opening
  <2>3. IdleUsable'
    <3>1. status' = "failed" /\ stage' = stage
      BY <1>30 DEF ProtocolError
    <3>2. \A q \in Runtimes : stage[q] \notin PostStages
      BY <1>30, CalmFacts
    <3>3. QED
      BY <3>1, <3>2 DEF IdleUsable, PostStages
  <2>4. UiOnlyAfterParity'
    BY <1>30, Numbers, CalmFacts DEF ProtocolError, RestorePrompt,
       UiOnlyAfterParity, IInv, TypeOK
  <2>5. QED
    BY <2>1, <2>2, <2>3, <2>4
<1>31a. ASSUME NEW p \in Runtimes, TurnFrame(p), Calm PROVE ViewInv'
  <2>1. OpenedOnce'
    BY <1>31a, Numbers, CalmFacts DEF TurnFrame, OpenedOnce, IInv, TypeOK
  <2>2. FlagsCurrent'
    BY <1>31a, Numbers, CalmFacts DEF TurnFrame, FlagsCurrent, Opening,
       IInv, TypeOK
  <2>3. IdleUsable'
    <3>1. rpc = p /\ p # NoRuntime /\ parityPassed
      BY <1>31a, Numbers DEF TurnFrame, SendsFrames
    <3>2. /\ UNCHANGED <<rpc, stage, faulty, broken, disposed, restart, parityVars>>
          /\ late' = (late \/ p \in faulty)
      BY <1>31a DEF TurnFrame
    <3>3. \A q \in Runtimes : stage[q] \notin PostStages
      BY <1>31a, CalmFacts
    <3>4. ~late' => rpc \notin faulty /\ parityPassed /\ ~parityFailed
      BY <3>1, <3>2 DEF FlagsCurrent
    <3>5. QED
      BY <3>1, <3>2, <3>3, <3>4 DEF IdleUsable, PostStages, Disposed
  <2>4. UiOnlyAfterParity'
    BY <1>31a DEF TurnFrame, UiOnlyAfterParity
  <2>5. QED
    BY <2>1, <2>2, <2>3, <2>4
<1>31. ASSUME NEW p \in Runtimes, UiRequest(p), Calm PROVE ViewInv'
  <2>1. OpenedOnce'
    BY <1>31, Numbers, CalmFacts DEF UiRequest, OpenedOnce, IInv, TypeOK
  <2>2. FlagsCurrent'
    BY <1>31, Numbers, CalmFacts DEF UiRequest, FlagsCurrent, Opening,
       IInv, TypeOK
  <2>3. IdleUsable'
    BY <1>31, Numbers, CalmFacts DEF UiRequest, IdleUsable, Disposed,
       IInv, TypeOK
  <2>4. UiOnlyAfterParity'
    <3>1. rpc = p /\ p # NoRuntime /\ parityPassed
      BY <1>31, Numbers DEF UiRequest, SendsFrames
    <3>2. p \in validated
      BY <3>1 DEF FlagsCurrent
    <3>3. uiHandled' = uiHandled \cup {p} /\ validated' = validated
      BY <1>31 DEF UiRequest
    <3>4. QED
      BY <3>2, <3>3 DEF UiOnlyAfterParity
  <2>5. QED
    BY <2>1, <2>2, <2>3, <2>4
<1>32. ASSUME Attach, Calm PROVE ViewInv'
  <2>1. OpenedOnce'
    <3>1. views = 0
      BY <1>32 DEF Attach, IInv, TypeOK
    <3>2. booting = 0 /\ starters = {} /\ \A p \in Runtimes : stage[p] = "unused"
      BY <3>1 DEF OpenedOnce, IInv, TypeOK
    <3>3. view' = "loading" /\ UNCHANGED <<booting, starters, stage>>
      BY <1>32 DEF Attach
    <3>4. QED
      BY <3>2, <3>3 DEF OpenedOnce
  <2>2. FlagsCurrent'
    BY <1>32, Numbers, CalmFacts DEF Attach, FlagsCurrent, Opening, IInv, TypeOK
  <2>3. IdleUsable'
    BY <1>32, Numbers, CalmFacts DEF Attach, IdleUsable, Disposed, IInv, TypeOK
  <2>4. UiOnlyAfterParity'
    BY <1>32, Numbers, CalmFacts DEF Attach, UiOnlyAfterParity, IInv, TypeOK
  <2>5. QED
    BY <2>1, <2>2, <2>3, <2>4
<1>33. ASSUME Detach, Calm PROVE ViewInv'
  <2>1. OpenedOnce'
    <3>1. view' = "none" /\ UNCHANGED <<views, booting, starters, stage>>
      BY <1>33 DEF Detach
    <3>2. QED
      BY <3>1 DEF OpenedOnce
  <2>2. FlagsCurrent'
    BY <1>33, Numbers, CalmFacts DEF Detach, FlagsCurrent, Opening, IInv, TypeOK
  <2>3. IdleUsable'
    BY <1>33, Numbers, CalmFacts DEF Detach, IdleUsable, Disposed, IInv, TypeOK
  <2>4. UiOnlyAfterParity'
    BY <1>33, Numbers, CalmFacts DEF Detach, UiOnlyAfterParity, IInv, TypeOK
  <2>5. QED
    BY <2>1, <2>2, <2>3, <2>4
<1>34. ASSUME ViewReady, Calm PROVE ViewInv'
  <2>1. OpenedOnce'
    <3>1. view = "loading" /\ view' = "ready" /\ views' = views
      BY <1>34 DEF ViewReady
    <3>2. views = 1
      BY <3>1 DEF IInv, TypeOK, BootedViews
    <3>3. QED
      BY <3>1, <3>2 DEF OpenedOnce
  <2>2. FlagsCurrent'
    BY <1>34, Numbers, CalmFacts DEF ViewReady, FlagsCurrent, Opening, IInv, TypeOK
  <2>3. IdleUsable'
    BY <1>34, Numbers, CalmFacts DEF ViewReady, IdleUsable, Disposed, IInv, TypeOK
  <2>4. UiOnlyAfterParity'
    BY <1>34, Numbers, CalmFacts DEF ViewReady, UiOnlyAfterParity, IInv, TypeOK
  <2>5. QED
    BY <2>1, <2>2, <2>3, <2>4
<1>35. ASSUME Restart, Calm PROVE ViewInv'
  <2>1. OpenedOnce'
    BY <1>35, Numbers, CalmFacts DEF Restart, DropRuntime, OpenedOnce, IInv, TypeOK
  <2>2. FlagsCurrent'
    BY <1>35, Numbers, CalmFacts DEF Restart, DropRuntime, FlagsCurrent, Opening, IInv, TypeOK
  <2>3. IdleUsable'
    BY <1>35, Numbers, CalmFacts DEF Restart, DropRuntime, IdleUsable, Disposed, IInv, TypeOK
  <2>4. UiOnlyAfterParity'
    BY <1>35, Numbers, CalmFacts DEF Restart, DropRuntime, UiOnlyAfterParity, IInv, TypeOK
  <2>5. QED
    BY <2>1, <2>2, <2>3, <2>4
<1>36. ASSUME Dispose, Calm PROVE ViewInv'
  <2>1. OpenedOnce'
    BY <1>36, Numbers, CalmFacts DEF Dispose, DropRuntime, OpenedOnce, IInv, TypeOK
  <2>2. FlagsCurrent'
    BY <1>36, Numbers, CalmFacts DEF Dispose, DropRuntime, FlagsCurrent, Opening, IInv, TypeOK
  <2>3. IdleUsable'
    BY <1>36, Numbers, CalmFacts DEF Dispose, DropRuntime, IdleUsable, Disposed, IInv, TypeOK
  <2>4. UiOnlyAfterParity'
    BY <1>36, Numbers, CalmFacts DEF Dispose, DropRuntime, UiOnlyAfterParity, IInv, TypeOK
  <2>5. QED
    BY <2>1, <2>2, <2>3, <2>4
<1>37. CASE UNCHANGED vars
  BY <1>37 DEF vars, OpenedOnce, FlagsCurrent, Opening, IdleUsable, Disposed, UiOnlyAfterParity
<1>38. QED
  <2>1. CASE Microtask
    BY <2>1, <1>1, <1>2, <1>3, <1>4, <1>5 DEF Microtask
  <2>2. CASE NoMicrotask /\ PostStep
    BY <2>2, <1>6, <1>7, <1>8, <1>9, <1>10, <1>11, <1>12, <1>13, <1>14, <1>15 DEF PostStep
  <2>3. CASE Calm /\ HostStep
    BY <2>3, <1>16, <1>17, <1>18, <1>19, <1>20, <1>21, <1>22, <1>23, <1>24, <1>25, <1>26,
       <1>27, <1>4, <1>5 DEF HostStep, RequestSettles
  <2>4. CASE Calm /\ Event
    BY <2>4, <1>28, <1>29, <1>30, <1>31, <1>31a, <1>32, <1>33, <1>34, <1>35, <1>36 DEF Event,
       RuntimeEvent, UserAct
  <2>5. QED
    BY <2>1, <2>2, <2>3, <2>4, <1>37 DEF Next, Progress, Calm, AtRest

\* With one view and posts that wait for nothing the invariant holds in every reachable
\* state.
LEMMA ViewInvariance ==
  ASSUME SlowPosts = FALSE, MaxViews = 1 PROVE Spec => []ViewInv
<1>1. IInv /\ Init => ViewInv
  BY DEF Init, ViewInv, OpenedOnce, FlagsCurrent, IdleUsable, UiOnlyAfterParity
<1>2. ViewInv /\ IInv' /\ [Next]_vars => ViewInv'
  BY ViewStep
<1>3. QED
  BY <1>1, <1>2, Invariance, PTL DEF Spec

\* A UI request of OMP is carried out for a validated runtime only: as long as the view is
\* not opened again, #parityPassed never outlives the runtime it was set for.
THEOREM UiValidated ==
  ASSUME SlowPosts = FALSE, MaxViews = 1 PROVE Spec => []UiOnlyAfterParity
<1>1. ViewInv => UiOnlyAfterParity
  BY DEF ViewInv
<1>2. QED
  BY <1>1, ViewInvariance, PTL

\* A chat at rest that says it is ready or at work has a runtime that answers, and parity of
\* it, unless it heard of a turn after its runtime broke the protocol.
THEOREM ReadyAnswers ==
  ASSUME SlowPosts = FALSE, MaxViews = 1 PROVE Spec => []ReadyIsUsable
<1>1. ViewInv => ReadyIsUsable
  <2> SUFFICES ASSUME ViewInv, status \in {"idle", "running"}, Quiet, ~Disposed, ~broken, ~late
               PROVE  rpc # NoRuntime /\ Answers(rpc) /\ parityPassed /\ ~parityFailed
    BY DEF ReadyIsUsable
  <2>1. restart.at \notin {"draining", "releasing", "probing"}
    BY DEF Quiet
  <2>2. rpc # NoRuntime /\ rpc \notin faulty /\ parityPassed /\ ~parityFailed
    BY <2>1 DEF ViewInv, IdleUsable
  <2>3. queue = <<>> /\ alive[rpc]
    BY <2>2 DEF ViewInv, IInv, OneBehind
  <2>4. QED
    BY <2>2, <2>3 DEF Answers, Disposing
<1>2. QED
  BY <1>1, ViewInvariance, PTL

===============================================================================
