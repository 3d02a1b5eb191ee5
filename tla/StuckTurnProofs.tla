---------------------------- MODULE StuckTurnProofs ----------------------------
(***************************************************************************)
(* Proofs about the watchdog of a turn that does not end, for any number   *)
(* of turns, of frames under way, of requests and of restarts.             *)
(*                                                                         *)
(* The argument: frames keep their order.  An answer under way is older    *)
(* than the start of a turn that still works (WorkSpared), so when the     *)
(* host has handled that start it forgets the older answer, and sees no    *)
(* other until the turn has given its own; a recovery, and so its abort,   *)
(* begins only after an answer.  And the answer of a turn that does not    *)
(* end comes after its start (AnswerNoticed): when it is handled the 90 s  *)
(* run, and a recovery that does not end the turn reports the failure.     *)
(***************************************************************************)
EXTENDS StuckTurn, TLAPS

\* The start of a turn is written once, and the host has not handled one that is
\* still under way.
StartsOnce ==
  /\ \A t \in sheltered : t <= turn
  /\ \A i \in DOMAIN pipe :
       pipe[i].is = "start" => pipe[i].turn <= turn /\ pipe[i].turn \notin sheltered
  /\ \A i, j \in DOMAIN pipe :
       pipe[i].is = "start" /\ pipe[j].is = "start" /\ pipe[i].turn = pipe[j].turn => i = j

\* A turn that works has not given its answer: an answer under way is older than its
\* start, and once the host has seen that, no recovery is under way or near, nor an
\* abort.
WorkSpared ==
  phase = "working" =>
    /\ turn \in sheltered => recovering = "none" /\ ~answered /\ NoAbort
    /\ \A j \in DOMAIN pipe : pipe[j].is = "answer" =>
         \E i \in DOMAIN pipe : i > j /\ pipe[i].is = "start" /\ pipe[i].turn = turn

\* The 90 s run for an answer, and not during a recovery.
QuietMeansAnswered == quiet => answered /\ recovering = "none"

\* A turn that has given its answer will be seen to: the answer follows its start, and
\* when it is handled the 90 s run, unless the turn does not show as running.
AnswerNoticed ==
  phase = "answered" =>
    /\ \A i \in DOMAIN pipe : pipe[i].is = "start" =>
         \E j \in DOMAIN pipe : j > i /\ pipe[j].is = "answer"
    /\ \/ \E i \in DOMAIN pipe : pipe[i].is \in {"start", "answer"}
       \/ ~alive \/ quiet \/ recovering # "none" \/ ~streaming \/ status = "failed"

\* The inductive invariant.
IInv ==
  /\ TurnTypeOK /\ StartsOnce /\ WorkSpared /\ QuietMeansAnswered /\ AnswerNoticed /\ cut = {}
-------------------------------------------------------------------------------
(* Lemmas                                                                  *)

USE TurnAssumption

\* What is under way once OMP has written frames.
LEMMA EmitFacts ==
  ASSUME pipe \in Seq(Frames), NEW frames \in Seq(Frames), Emits(frames)
  PROVE  /\ pipe' \in Seq(Frames)
         /\ \A i \in DOMAIN pipe : i \in DOMAIN pipe' /\ pipe'[i] = pipe[i]
         /\ \A k \in DOMAIN frames :
              Len(pipe) + k \in DOMAIN pipe' /\ pipe'[Len(pipe) + k] = frames[k]
         /\ \A i \in DOMAIN pipe' :
              \/ i \in DOMAIN pipe
              \/ \E k \in DOMAIN frames : i = Len(pipe) + k
         /\ DOMAIN pipe = 1..Len(pipe) /\ Len(pipe) \in Nat
<1>1. pipe' = pipe \o frames
  BY DEF Emits
<1>2. /\ pipe' \in Seq(Frames) /\ Len(pipe') = Len(pipe) + Len(frames)
      /\ Len(pipe) \in Nat /\ Len(frames) \in Nat
  BY <1>1
<1>3. /\ DOMAIN pipe = 1..Len(pipe) /\ DOMAIN frames = 1..Len(frames)
      /\ DOMAIN pipe' = 1..(Len(pipe) + Len(frames))
  BY <1>2
<1>4. \A i \in 1..(Len(pipe) + Len(frames)) :
        pipe'[i] = IF i <= Len(pipe) THEN pipe[i] ELSE frames[i - Len(pipe)]
  BY <1>1, <1>2
<1>5. \A i \in DOMAIN pipe : i \in DOMAIN pipe' /\ pipe'[i] = pipe[i]
  BY <1>2, <1>3, <1>4
<1>6. ASSUME NEW k \in DOMAIN frames
      PROVE  Len(pipe) + k \in DOMAIN pipe' /\ pipe'[Len(pipe) + k] = frames[k]
  <2>1. /\ k \in 1..Len(frames) /\ Len(pipe) + k \in 1..(Len(pipe) + Len(frames))
        /\ ~(Len(pipe) + k <= Len(pipe)) /\ (Len(pipe) + k) - Len(pipe) = k
    BY <1>2, <1>3
  <2>2. QED
    BY <1>3, <1>4, <2>1
<1>7. ASSUME NEW i \in DOMAIN pipe', i \notin DOMAIN pipe
      PROVE  \E k \in DOMAIN frames : i = Len(pipe) + k
  <2>1. i - Len(pipe) \in DOMAIN frames /\ i = Len(pipe) + (i - Len(pipe))
    BY <1>2, <1>3, <1>7
  <2>2. QED
    BY <2>1
<1>8. QED
  BY <1>2, <1>3, <1>5, <1>6, <1>7

\* The same, of one frame.
LEMMA OneEmit ==
  ASSUME pipe \in Seq(Frames), NEW frame \in Frames, Emits(<<frame>>)
  PROVE  /\ DOMAIN pipe = 1..Len(pipe) /\ Len(pipe) \in Nat
         /\ \A i \in DOMAIN pipe : i \in DOMAIN pipe' /\ pipe'[i] = pipe[i]
         /\ Len(pipe) + 1 \in DOMAIN pipe' /\ pipe'[Len(pipe) + 1] = frame
         /\ \A i \in DOMAIN pipe' : i \in DOMAIN pipe \/ i = Len(pipe) + 1
<1>1. pipe' = pipe \o <<frame>> /\ <<frame>> \in Seq(Frames)
  BY DEF Emits
<1>2. /\ Len(pipe') = Len(pipe) + 1 /\ Len(pipe) \in Nat
      /\ DOMAIN pipe = 1..Len(pipe) /\ DOMAIN pipe' = 1..(Len(pipe) + 1)
  BY <1>1
<1>3. /\ \A i \in 1..Len(pipe) : pipe'[i] = pipe[i]
      /\ pipe'[Len(pipe) + 1] = frame
  BY <1>1, <1>2
<1>4. QED
  BY <1>2, <1>3

\* What is under way once the host has handled a frame.
LEMMA TailFacts ==
  ASSUME pipe \in Seq(Frames), pipe # <<>>, pipe' = Tail(pipe)
  PROVE  /\ pipe' \in Seq(Frames) /\ Head(pipe) \in Frames
         /\ 1 \in DOMAIN pipe /\ Head(pipe) = pipe[1]
         /\ DOMAIN pipe \subseteq Nat \ {0} /\ DOMAIN pipe' \subseteq Nat
         /\ \A i \in DOMAIN pipe' : i + 1 \in DOMAIN pipe /\ pipe'[i] = pipe[i + 1] /\ i + 1 # 1
         /\ \A i \in DOMAIN pipe : i # 1 => i - 1 \in DOMAIN pipe' /\ pipe'[i - 1] = pipe[i]
<1>1. /\ pipe' \in Seq(Frames) /\ Len(pipe') = Len(pipe) - 1 /\ Len(pipe) \in Nat \ {0}
      /\ Head(pipe) = pipe[1]
  OBVIOUS
<1>2. DOMAIN pipe = 1..Len(pipe) /\ DOMAIN pipe' = 1..(Len(pipe) - 1)
  BY <1>1
<1>3. \A i \in 1..(Len(pipe) - 1) : pipe'[i] = pipe[i + 1]
  BY <1>1
<1>4. \A i \in DOMAIN pipe' : i + 1 \in DOMAIN pipe /\ pipe'[i] = pipe[i + 1] /\ i + 1 # 1
  BY <1>1, <1>2, <1>3
<1>5. \A i \in DOMAIN pipe : i # 1 => i - 1 \in DOMAIN pipe' /\ pipe'[i - 1] = pipe[i]
  BY <1>1, <1>2, <1>3
<1>6. 1 \in DOMAIN pipe /\ Head(pipe) \in Frames
  BY <1>1, <1>2
<1>7. QED
  BY <1>1, <1>2, <1>4, <1>5, <1>6

\* What OMP has to read once it has read a request.
LEMMA InboxFacts ==
  ASSUME inbox \in Seq(RecoveryRequests), inbox # <<>>, inbox' = Tail(inbox)
  PROVE  /\ inbox' \in Seq(RecoveryRequests)
         /\ Head(inbox) \in RecoveryRequests
         /\ 1 \in DOMAIN inbox /\ Head(inbox) = inbox[1]
         /\ NoAbort => NoAbort'
<1>1. /\ inbox' \in Seq(RecoveryRequests) /\ Len(inbox') = Len(inbox) - 1
      /\ Len(inbox) \in Nat \ {0} /\ Head(inbox) = inbox[1]
  OBVIOUS
<1>2. DOMAIN inbox = 1..Len(inbox) /\ DOMAIN inbox' = 1..(Len(inbox) - 1)
  BY <1>1
<1>3. \A i \in DOMAIN inbox' : i + 1 \in DOMAIN inbox /\ inbox'[i] = inbox[i + 1]
  BY <1>1, <1>2
<1>4. QED
  BY <1>1, <1>2, <1>3 DEF NoAbort

\* What the recovery asks for is well typed.
LEMMA AskTyped ==
  ASSUME TurnTypeOK, NEW request \in {"get_state", "abort"},
         NEW next \in Recoverings \ {"none"}, Ask(request, next)
  PROVE  /\ requests' \in 1..MaxRequests /\ openId' \in 1..MaxRequests
         /\ inbox' \in Seq(RecoveryRequests)
         /\ recovering' = next /\ recovering' \in Recoverings /\ outcome' = "none"
<1>1. requests' \in 1..MaxRequests /\ openId' \in 1..MaxRequests
  BY DEF Ask, TurnTypeOK
<1>2. [is |-> request, id |-> requests'] \in RecoveryRequests
  BY <1>1 DEF RecoveryRequests
<1>3. inbox' \in Seq(RecoveryRequests)
  BY <1>2 DEF Ask, TurnTypeOK
<1>4. QED
  BY <1>1, <1>3 DEF Ask

\* The records that OMP writes are frames.
LEMMA FramesTyped ==
  /\ \A t \in Turns : [is |-> "start", turn |-> t] \in Frames
  /\ \A on \in {"work", "answer", "end", "local"} : [is |-> on] \in Frames
  /\ \A n \in 1..MaxRequests, a \in Answers :
       [is |-> "response", id |-> n, says |-> a] \in Frames
BY DEF Frames

\* What OMP writes when it reads a request: its response, after the end of the turn that
\* an abort may bring.
LEMMA ReadEmits ==
  ASSUME TurnTypeOK, ReadsRequest
  PROVE  \E frames \in Seq(Frames) :
           /\ Emits(frames)
           /\ \A k \in DOMAIN frames : frames[k].is \in {"end", "response"}
<1>1. Head(inbox).id \in 1..MaxRequests
  BY InboxFacts DEF ReadsRequest, TurnTypeOK, RecoveryRequests
<1> DEFINE Response(says) == [is |-> "response", id |-> Head(inbox).id, says |-> says]
<1>2. \A says \in Answers : Response(says) \in Frames
  BY <1>1, FramesTyped
<1>3. \/ \E says \in Answers : Emits(<<Response(says)>>)
      \/ Emits(<<[is |-> "end"], Response("done")>>)
  BY DEF ReadsRequest, Answers
<1>4. ASSUME NEW says \in Answers, Emits(<<Response(says)>>)
      PROVE  \E frames \in Seq(Frames) :
               /\ Emits(frames)
               /\ \A k \in DOMAIN frames : frames[k].is \in {"end", "response"}
  <2>1. <<Response(says)>> \in Seq(Frames)
    BY <1>2
  <2>2. \A k \in DOMAIN <<Response(says)>> : <<Response(says)>>[k].is = "response"
    OBVIOUS
  <2>3. QED
    BY <1>4, <2>1, <2>2
<1>5. ASSUME Emits(<<[is |-> "end"], Response("done")>>)
      PROVE  \E frames \in Seq(Frames) :
               /\ Emits(frames)
               /\ \A k \in DOMAIN frames : frames[k].is \in {"end", "response"}
  <2>1. [is |-> "end"] \in Frames /\ Response("done") \in Frames
    BY <1>2, FramesTyped DEF Answers
  <2>2. <<[is |-> "end"], Response("done")>> \in Seq(Frames)
    BY <2>1
  <2>3. \A k \in DOMAIN <<[is |-> "end"], Response("done")>> :
          <<[is |-> "end"], Response("done")>>[k].is \in {"end", "response"}
    OBVIOUS
  <2>4. QED
    BY <1>5, <2>2, <2>3
<1>6. QED
  BY <1>3, <1>4, <1>5

\* Every step keeps the declared types.
LEMMA TypeStep == ASSUME TurnTypeOK, [TurnNext]_turnVars PROVE TurnTypeOK'
<1> USE DEF TurnTypeOK
<1>1. ASSUME Begins PROVE TurnTypeOK'
  <2>1. turn' \in Turns
    BY <1>1 DEF Begins, Turns
  <2>2. <<[is |-> "start", turn |-> turn']>> \in Seq(Frames)
    BY <2>1, FramesTyped
  <2>3. pipe' \in Seq(Frames)
    BY <1>1, <2>2, EmitFacts DEF Begins
  <2>4. QED
    BY <1>1, <2>1, <2>3 DEF Begins, hostVars, watchVars, recoveryVars, Turns
<1>2. ASSUME Local PROVE TurnTypeOK'
  <2>1. pipe' \in Seq(Frames)
    <3>1. <<[is |-> "local"]>> \in Seq(Frames)
      BY FramesTyped
    <3>2. QED
      BY <1>2, <3>1, EmitFacts DEF Local
  <2>2. QED
    BY <1>2, <2>1 DEF Local, ompVars, hostVars, watchVars, recoveryVars
<1>3. ASSUME ReadsRequest PROVE TurnTypeOK'
  <2>1. Head(inbox) \in RecoveryRequests /\ inbox' \in Seq(RecoveryRequests)
    BY <1>3, InboxFacts DEF ReadsRequest
  <2>2. phase' \in {"idle", "working", "answered"} /\ cut' \subseteq Turns
    BY <1>3 DEF ReadsRequest
  <2>3. pipe' \in Seq(Frames)
    BY <1>3, ReadEmits, EmitFacts
  <2>4. QED
    BY <1>3, <2>1, <2>2, <2>3 DEF ReadsRequest, hostVars, watchVars, recoveryVars
<1>4. ASSUME NEW on \in {"work", "answer", "end"}, NEW to \in {"working", "answered", "idle"},
             Goes(on, to)
      PROVE  TurnTypeOK'
  <2>1. pipe' \in Seq(Frames)
    <3>1. <<[is |-> on]>> \in Seq(Frames)
      BY FramesTyped
    <3>2. QED
      BY <1>4, <3>1, EmitFacts DEF Goes
  <2>2. QED
    BY <1>4, <2>1 DEF Goes, hostVars, watchVars, recoveryVars
<1>5. ASSUME FrameArrives PROVE TurnTypeOK'
  <2>1. pipe' \in Seq(Frames) /\ Head(pipe) \in Frames
    BY <1>5, TailFacts DEF FrameArrives
  <2>2. more' \in BOOLEAN
    <3>1. more' = FALSE \/ more' = (Len(pipe) > 1)
      BY <1>5, Zenon DEF FrameArrives
    <3>2. (Len(pipe) > 1) \in BOOLEAN
      OBVIOUS
    <3>3. QED
      BY <3>1, <3>2, Zenon
  <2>3. openId' \in 0..MaxRequests /\ outcome' \in Answers \cup {"none"}
    BY <1>5, <2>1 DEF FrameArrives, Settles, Frames
  <2>4. recovering' = "none" => openId' = 0 /\ outcome' = "none"
    BY <1>5, <2>1 DEF FrameArrives, Settles, Frames
  <2>5. answered' \in BOOLEAN
    BY <1>5 DEF FrameArrives, ObserveTurnWatchdog, ClearTurnWatchdog
  <2>6. quiet' \in BOOLEAN
    BY <1>5 DEF FrameArrives, ObserveTurnWatchdog, ClearTurnWatchdog
  <2>7. streaming' \in BOOLEAN
    BY <1>5 DEF FrameArrives, HandleRpcFrame
  <2>8. status' \in {"idle", "running", "failed"}
    BY <1>5 DEF FrameArrives, HandleRpcFrame
  <2>9. sheltered' \subseteq Turns
    BY <1>5, <2>1 DEF FrameArrives, Frames
  <2>10. UNCHANGED <<ompVars, recovering, requests, restarts, cut>>
    BY <1>5 DEF FrameArrives
  <2>11. QED
    BY <2>1, <2>2, <2>3, <2>4, <2>5, <2>6, <2>7, <2>8, <2>9, <2>10 DEF ompVars
<1>6. ASSUME QuietFor90s PROVE TurnTypeOK'
  <2>1. quiet' \in BOOLEAN
    BY <1>6, Zenon DEF QuietFor90s
  <2>2. CASE Ask("get_state", "before")
    BY <1>6, <2>1, <2>2, AskTyped DEF QuietFor90s, Recoverings
  <2>3. CASE UNCHANGED <<recoveryVars, inbox>>
    BY <1>6, <2>1, <2>3 DEF QuietFor90s, recoveryVars
  <2>4. QED
    BY <1>6, <2>2, <2>3 DEF QuietFor90s
<1>7. ASSUME TimesOut PROVE TurnTypeOK'
  BY <1>7 DEF TimesOut, ompVars, watchVars, Answers
<1>8. ASSUME RecoverStuckTurn PROVE TurnTypeOK'
  <2>1. CASE GoesOn
    <3>1. CASE Ask("abort", "abort")
      BY <1>8, <2>1, <3>1, AskTyped DEF RecoverStuckTurn, GoesOn, Recoverings
    <3>2. CASE Ask("get_state", "after")
      BY <1>8, <2>1, <3>2, AskTyped DEF RecoverStuckTurn, GoesOn, Recoverings
    <3>3. QED
      BY <2>1, <3>1, <3>2 DEF GoesOn
  <2>2. CASE Recovered
    <3>1. streaming' \in BOOLEAN
      BY <2>2, Zenon DEF Recovered
    <3>2. answered' \in BOOLEAN
      BY <2>2, Zenon DEF Recovered
    <3>3. QED
      BY <1>8, <2>2, <3>1, <3>2 DEF RecoverStuckTurn, Recovered, Over, Recoverings
  <2>3. CASE NotRecovered
    BY <1>8, <2>3 DEF RecoverStuckTurn, NotRecovered, Over, Recoverings
  <2>4. QED
    BY <1>8, <2>1, <2>2, <2>3 DEF RecoverStuckTurn
<1>9. ASSUME Exit PROVE TurnTypeOK'
  <2>1. alive' \in BOOLEAN
    BY <1>9, Zenon DEF Exit
  <2>2. QED
    BY <1>9, <2>1 DEF Exit, Answers
<1>10. ASSUME Restart PROVE TurnTypeOK'
  <2>1. alive' \in BOOLEAN
    BY <1>10, Zenon DEF Restart
  <2>2. streaming' \in BOOLEAN
    BY <1>10, Zenon DEF Restart
  <2>3. quiet' \in BOOLEAN
    BY <1>10, Zenon DEF Restart, ClearTurnWatchdog
  <2>4. answered' \in BOOLEAN
    BY <1>10, Zenon DEF Restart, ClearTurnWatchdog
  <2>5. QED
    BY <1>10, <2>1, <2>2, <2>3, <2>4 DEF Restart, recoveryVars
<1>11. CASE UNCHANGED turnVars
  BY <1>11 DEF turnVars, ompVars, watchVars, recoveryVars
<1>12. QED
  BY <1>1, <1>2, <1>3, <1>4, <1>5, <1>6, <1>7, <1>8, <1>9, <1>10, <1>11 DEF TurnNext

\* What OMP writes beside the start and the answer of a turn changes nothing.
LEMMA PlainEmits ==
  ASSUME IInv, NEW frames \in Seq(Frames), Emits(frames),
         \A k \in DOMAIN frames : frames[k].is \notin {"start", "answer"},
         phase' \in {phase, "idle"}, NoAbort => NoAbort', cut' = cut,
         UNCHANGED <<alive, turn, hostVars>>
  PROVE  /\ StartsOnce' /\ WorkSpared' /\ QuietMeansAnswered' /\ AnswerNoticed' /\ cut' = {}
<1> USE DEF IInv, hostVars, watchVars, recoveryVars
<1>1. /\ DOMAIN pipe = 1..Len(pipe) /\ Len(pipe) \in Nat
      /\ \A i \in DOMAIN pipe : i \in DOMAIN pipe' /\ pipe'[i] = pipe[i]
      /\ \A i \in DOMAIN pipe' : pipe'[i].is \in {"start", "answer"} => i \in DOMAIN pipe
  BY EmitFacts DEF TurnTypeOK
<1>2. StartsOnce'
  BY <1>1 DEF StartsOnce
<1>3. WorkSpared'
  <2> SUFFICES ASSUME phase' = "working" PROVE WorkSpared'
    BY DEF WorkSpared
  <2>1. phase = "working"
    OBVIOUS
  <2>2. turn' \in sheltered' => recovering' = "none" /\ ~answered' /\ NoAbort'
    BY <2>1 DEF WorkSpared
  <2>3. ASSUME NEW j \in DOMAIN pipe', pipe'[j].is = "answer"
        PROVE  \E i \in DOMAIN pipe' : i > j /\ pipe'[i].is = "start" /\ pipe'[i].turn = turn'
    BY <1>1, <2>1, <2>3 DEF WorkSpared
  <2>4. QED
    BY <2>2, <2>3 DEF WorkSpared
<1>4. QuietMeansAnswered'
  BY DEF QuietMeansAnswered
<1>5. AnswerNoticed'
  <2> SUFFICES ASSUME phase' = "answered" PROVE AnswerNoticed'
    BY DEF AnswerNoticed
  <2>1. phase = "answered"
    OBVIOUS
  <2>2. ASSUME NEW i \in DOMAIN pipe', pipe'[i].is = "start"
        PROVE  \E j \in DOMAIN pipe' : j > i /\ pipe'[j].is = "answer"
    BY <1>1, <2>1, <2>2 DEF AnswerNoticed
  <2>3. \/ \E i \in DOMAIN pipe' : pipe'[i].is \in {"start", "answer"}
        \/ ~alive' \/ quiet' \/ recovering' # "none" \/ ~streaming' \/ status' = "failed"
    BY <1>1, <2>1 DEF AnswerNoticed
  <2>4. QED
    BY <2>2, <2>3 DEF AnswerNoticed
<1>6. QED
  BY <1>2, <1>3, <1>4, <1>5

\* An abort ends no turn that the host saw begin without one near.
LEMMA AbortSpares == ASSUME IInv, ReadsRequest PROVE cut' = cut
<1>1. Head(inbox).is = "abort" => ~NoAbort
  BY InboxFacts DEF ReadsRequest, IInv, TurnTypeOK, NoAbort
<1>2. QED
  BY <1>1 DEF ReadsRequest, IInv, WorkSpared

\* The invariant is inductive.
LEMMA IInvStep == ASSUME IInv, TurnTypeOK', [TurnNext]_turnVars PROVE IInv'
<1>1. ASSUME Begins PROVE IInv'
  <2>1. turn' = turn + 1 /\ turn' \in Turns /\ turn \in Nat /\ Turns \subseteq Nat
    BY <1>1 DEF Begins, Turns, IInv, TurnTypeOK
  <2>2. [is |-> "start", turn |-> turn'] \in Frames
    BY <2>1, FramesTyped
  <2>3. /\ DOMAIN pipe = 1..Len(pipe) /\ Len(pipe) \in Nat
        /\ \A i \in DOMAIN pipe : i \in DOMAIN pipe' /\ pipe'[i] = pipe[i]
        /\ Len(pipe) + 1 \in DOMAIN pipe'
        /\ pipe'[Len(pipe) + 1] = [is |-> "start", turn |-> turn']
        /\ \A i \in DOMAIN pipe' : i \in DOMAIN pipe \/ i = Len(pipe) + 1
    BY <1>1, <2>2, OneEmit DEF Begins, IInv, TurnTypeOK
  <2>4. \A i \in DOMAIN pipe : pipe[i].is = "start" => pipe[i].turn \in Nat
    <3>1. \A i \in DOMAIN pipe : pipe[i] \in Frames
      BY <2>3 DEF IInv, TurnTypeOK
    <3>2. QED
      BY <3>1, <2>1 DEF Frames
  <2>5. sheltered \subseteq Nat
    BY <2>1 DEF IInv, TurnTypeOK
  <2>6. StartsOnce'
    <3>1. \A t \in sheltered' : t <= turn'
      BY <1>1, <2>1, <2>5 DEF Begins, hostVars, StartsOnce, IInv
    <3>2. \A i \in DOMAIN pipe' :
            pipe'[i].is = "start" => pipe'[i].turn <= turn' /\ pipe'[i].turn \notin sheltered'
      BY <1>1, <2>1, <2>3, <2>4, <2>5 DEF Begins, hostVars, StartsOnce, IInv
    <3>3. \A i, j \in DOMAIN pipe' :
            pipe'[i].is = "start" /\ pipe'[j].is = "start" /\ pipe'[i].turn = pipe'[j].turn
              => i = j
      BY <2>1, <2>3, <2>4 DEF StartsOnce, IInv
    <3>4. QED
      BY <3>1, <3>2, <3>3 DEF StartsOnce
  <2>7. WorkSpared'
    <3>1. turn' \notin sheltered'
      BY <1>1, <2>1, <2>5 DEF Begins, hostVars, StartsOnce, IInv
    <3>2. \A j \in DOMAIN pipe' : pipe'[j].is = "answer" => j < Len(pipe) + 1
      BY <2>3
    <3>3. QED
      BY <2>3, <3>1, <3>2 DEF WorkSpared
  <2>8. QuietMeansAnswered'
    BY <1>1 DEF Begins, hostVars, watchVars, recoveryVars, QuietMeansAnswered, IInv
  <2>9. QED
    BY <1>1, <2>6, <2>7, <2>8 DEF Begins, AnswerNoticed, IInv
<1>2. ASSUME Local PROVE IInv'
  <2>1. [is |-> "local"] \in Frames
    BY FramesTyped
  <2>2. /\ <<[is |-> "local"]>> \in Seq(Frames)
        /\ \A k \in DOMAIN <<[is |-> "local"]>> :
             <<[is |-> "local"]>>[k].is \notin {"start", "answer"}
    BY <2>1
  <2>3. /\ Emits(<<[is |-> "local"]>>) /\ phase' = phase
        /\ NoAbort => NoAbort'
        /\ UNCHANGED <<alive, turn, hostVars, cut>>
    BY <1>2 DEF Local, ompVars, NoAbort
  <2>4. QED
    BY <2>2, <2>3, PlainEmits DEF IInv
<1>3. ASSUME ReadsRequest PROVE IInv'
  <2>1. PICK frames \in Seq(Frames) :
          /\ Emits(frames)
          /\ \A k \in DOMAIN frames : frames[k].is \in {"end", "response"}
    BY <1>3, ReadEmits DEF IInv
  <2>2. (NoAbort => NoAbort') /\ phase' \in {phase, "idle"} /\ cut' = cut
    BY <1>3, AbortSpares, InboxFacts DEF ReadsRequest, IInv, TurnTypeOK
  <2>3. UNCHANGED <<alive, turn, hostVars>>
    BY <1>3 DEF ReadsRequest
  <2>4. \A k \in DOMAIN frames : frames[k].is \notin {"start", "answer"}
    BY <2>1
  <2>5. QED
    BY <2>1, <2>2, <2>3, <2>4, PlainEmits DEF IInv
<1>4. ASSUME NEW on \in {"work", "answer", "end"}, NEW to \in {"working", "answered", "idle"},
             Goes(on, to)
      PROVE  IInv'
  <2>1. [is |-> on] \in Frames
    BY FramesTyped
  <2>2. CASE on # "answer"
    <3>1. /\ <<[is |-> on]>> \in Seq(Frames)
          /\ \A k \in DOMAIN <<[is |-> on]>> : <<[is |-> on]>>[k].is \notin {"start", "answer"}
      BY <2>1, <2>2
    <3>2. /\ Emits(<<[is |-> on]>>) /\ phase' \in {phase, "idle"}
          /\ NoAbort => NoAbort'
          /\ UNCHANGED <<alive, turn, hostVars, cut>>
      BY <1>4, <2>2 DEF Goes, NoAbort
    <3>3. QED
      BY <3>1, <3>2, PlainEmits DEF IInv
  <2>3. CASE on = "answer"
    <3>1. /\ DOMAIN pipe = 1..Len(pipe) /\ Len(pipe) \in Nat
          /\ \A i \in DOMAIN pipe : i \in DOMAIN pipe' /\ pipe'[i] = pipe[i]
          /\ Len(pipe) + 1 \in DOMAIN pipe' /\ pipe'[Len(pipe) + 1] = [is |-> "answer"]
          /\ \A i \in DOMAIN pipe' : i \in DOMAIN pipe \/ i = Len(pipe) + 1
      BY <1>4, <2>1, <2>3, OneEmit DEF Goes, IInv, TurnTypeOK
    <3>2. \A i \in DOMAIN pipe' : pipe'[i].is = "start" => i \in DOMAIN pipe /\ i < Len(pipe) + 1
      BY <3>1
    <3>3. StartsOnce'
      BY <1>4, <3>1, <3>2 DEF Goes, hostVars, StartsOnce, IInv
    <3>4. AnswerNoticed'
      BY <3>1, <3>2 DEF AnswerNoticed
    <3>5. WorkSpared'
      BY <1>4, <2>3 DEF Goes, WorkSpared
    <3>6. QuietMeansAnswered' /\ cut' = {}
      BY <1>4 DEF Goes, hostVars, watchVars, recoveryVars, QuietMeansAnswered, IInv
    <3>7. QED
      BY <3>3, <3>4, <3>5, <3>6 DEF IInv
  <2>4. QED
    BY <2>2, <2>3
<1>5. ASSUME FrameArrives PROVE IInv'
  <2>1. /\ Head(pipe) \in Frames /\ 1 \in DOMAIN pipe /\ Head(pipe) = pipe[1]
        /\ DOMAIN pipe \subseteq Nat \ {0} /\ DOMAIN pipe' \subseteq Nat
        /\ \A i \in DOMAIN pipe' : i + 1 \in DOMAIN pipe /\ pipe'[i] = pipe[i + 1] /\ i + 1 # 1
        /\ \A i \in DOMAIN pipe : i # 1 => i - 1 \in DOMAIN pipe' /\ pipe'[i - 1] = pipe[i]
    BY <1>5, TailFacts DEF FrameArrives, IInv, TurnTypeOK
  <2>2. /\ UNCHANGED <<ompVars, recovering, requests, restarts, cut>>
        /\ ObserveTurnWatchdog(Head(pipe)) /\ HandleRpcFrame(Head(pipe))
        /\ sheltered' = sheltered \cup
             IF Head(pipe).is = "start" /\ recovering = "none" /\ NoAbort
               THEN {Head(pipe).turn} ELSE {}
    BY <1>5 DEF FrameArrives
  <2>3. StartsOnce'
    <3>1. ASSUME NEW t \in sheltered' PROVE t <= turn'
      BY <2>1, <2>2, <3>1 DEF StartsOnce, IInv, ompVars
    <3>2. ASSUME NEW i \in DOMAIN pipe', pipe'[i].is = "start"
          PROVE  pipe'[i].turn <= turn' /\ pipe'[i].turn \notin sheltered'
      BY <2>1, <2>2, <3>2 DEF StartsOnce, IInv, ompVars
    <3>3. ASSUME NEW i \in DOMAIN pipe', NEW j \in DOMAIN pipe',
                 pipe'[i].is = "start", pipe'[j].is = "start", pipe'[i].turn = pipe'[j].turn
          PROVE  i = j
      <4>1. i + 1 = j + 1 /\ i \in Nat /\ j \in Nat
        BY <2>1, <3>3 DEF StartsOnce, IInv
      <4>2. QED
        BY <4>1
    <3>4. QED
      BY <3>1, <3>2, <3>3 DEF StartsOnce
  <2>4. WorkSpared'
    <3> SUFFICES ASSUME phase' = "working" PROVE WorkSpared'
      BY DEF WorkSpared
    <3>1. phase = "working" /\ turn' = turn
      BY <2>2 DEF ompVars
    <3>2. NoAbort => NoAbort'
      BY <2>2 DEF ompVars, NoAbort
    <3>3. ASSUME turn \in sheltered PROVE recovering' = "none" /\ ~answered' /\ NoAbort'
      <4>1. Head(pipe).is # "answer"
        BY <2>1, <3>1, <3>3 DEF WorkSpared, StartsOnce, IInv
      <4>2. recovering = "none" /\ ~answered /\ NoAbort
        BY <3>1, <3>3 DEF WorkSpared, IInv
      <4>3. ~answered'
        BY <2>2, <4>1, <4>2 DEF ObserveTurnWatchdog, ClearTurnWatchdog
      <4>4. QED
        BY <2>2, <3>2, <4>2, <4>3
    <3>4. ASSUME turn' \in sheltered', turn \notin sheltered
          PROVE  recovering' = "none" /\ ~answered' /\ NoAbort'
      <4>1. Head(pipe).is = "start" /\ recovering = "none" /\ NoAbort
        BY <2>2, <3>1, <3>4
      <4>2. ~answered'
        BY <2>2, <4>1 DEF ObserveTurnWatchdog, ClearTurnWatchdog, Resets
      <4>3. QED
        BY <2>2, <3>2, <4>1, <4>2
    <3>5. turn' \in sheltered' => recovering' = "none" /\ ~answered' /\ NoAbort'
      BY <3>3, <3>4
    <3>6. ASSUME NEW j \in DOMAIN pipe', pipe'[j].is = "answer"
          PROVE  \E i \in DOMAIN pipe' : i > j /\ pipe'[i].is = "start" /\ pipe'[i].turn = turn'
      <4>1. j + 1 \in DOMAIN pipe /\ pipe[j + 1].is = "answer" /\ j \in Nat
        BY <2>1, <3>6
      <4>2. PICK i \in DOMAIN pipe : i > j + 1 /\ pipe[i].is = "start" /\ pipe[i].turn = turn
        BY <3>1, <4>1 DEF WorkSpared, IInv
      <4>3. i \in Nat /\ i # 1 /\ i - 1 > j
        BY <2>1, <4>1, <4>2
      <4>4. QED
        BY <2>1, <3>1, <4>2, <4>3
    <3>7. QED
      BY <3>5, <3>6 DEF WorkSpared
  <2>5. QuietMeansAnswered'
    BY <2>2 DEF QuietMeansAnswered, IInv, ObserveTurnWatchdog, ClearTurnWatchdog
  <2>6. AnswerNoticed'
    <3> SUFFICES ASSUME phase' = "answered" PROVE AnswerNoticed'
      BY DEF AnswerNoticed
    <3>1. alive' = alive /\ phase = "answered" /\ recovering' = recovering
      BY <2>2 DEF ompVars
    <3>2. ASSUME NEW i \in DOMAIN pipe, pipe[i].is = "start"
          PROVE  \E j \in DOMAIN pipe' : j > i - 1 /\ pipe'[j].is = "answer"
      <4>1. PICK j \in DOMAIN pipe : j > i /\ pipe[j].is = "answer"
        BY <3>1, <3>2 DEF AnswerNoticed, IInv
      <4>2. i \in Nat \ {0} /\ j \in Nat \ {0} /\ j # 1 /\ j - 1 > i - 1
        BY <2>1, <4>1
      <4>3. QED
        BY <2>1, <4>1, <4>2
    <3>3. ASSUME NEW i \in DOMAIN pipe', pipe'[i].is = "start"
          PROVE  \E j \in DOMAIN pipe' : j > i /\ pipe'[j].is = "answer"
      <4>1. i + 1 \in DOMAIN pipe /\ pipe[i + 1].is = "start" /\ i \in Nat /\ (i + 1) - 1 = i
        BY <2>1, <3>3
      <4>2. QED
        BY <3>2, <4>1
    <3>4. \/ \E i \in DOMAIN pipe' : pipe'[i].is \in {"start", "answer"}
          \/ ~alive' \/ quiet' \/ recovering' # "none" \/ ~streaming' \/ status' = "failed"
      <4>1. CASE Head(pipe).is = "start"
        BY <2>1, <3>2, <4>1
      <4>2. CASE Head(pipe).is = "answer"
        BY <2>2, <3>1, <4>2 DEF ObserveTurnWatchdog, HandleRpcFrame, Resets
      <4>3. CASE Head(pipe).is \in {"end", "local"}
        BY <2>2, <4>3 DEF HandleRpcFrame
      <4>4. CASE Head(pipe).is \notin {"start", "answer", "end", "local"}
        <5>1. CASE \E i \in DOMAIN pipe : pipe[i].is \in {"start", "answer"}
          <6>1. PICK i \in DOMAIN pipe : pipe[i].is \in {"start", "answer"}
            BY <5>1
          <6>2. i # 1
            BY <2>1, <4>4, <6>1
          <6>3. QED
            BY <2>1, <6>1, <6>2
        <5>2. CASE ~alive \/ quiet \/ recovering # "none" \/ ~streaming \/ status = "failed"
          BY <2>2, <3>1, <4>4, <5>2 DEF ObserveTurnWatchdog, HandleRpcFrame, Resets
        <5>3. QED
          BY <3>1, <5>1, <5>2 DEF AnswerNoticed, IInv
      <4>5. QED
        BY <4>1, <4>2, <4>3, <4>4
    <3>5. QED
      BY <3>3, <3>4 DEF AnswerNoticed
  <2>7. cut' = {}
    BY <2>2 DEF IInv
  <2>8. QED
    BY <2>3, <2>4, <2>5, <2>6, <2>7 DEF IInv
<1>6. ASSUME QuietFor90s PROVE IInv'
  <2>1. /\ quiet /\ answered /\ recovering = "none" /\ quiet' = FALSE
        /\ UNCHANGED <<alive, turn, phase, pipe, streaming, answered, status, sheltered, cut>>
    BY <1>6 DEF QuietFor90s, QuietMeansAnswered, IInv
  <2>2. StartsOnce'
    BY <2>1 DEF StartsOnce, IInv
  <2>3. WorkSpared'
    <3>1. phase = "working" => turn \notin sheltered
      BY <2>1 DEF WorkSpared, IInv
    <3>2. QED
      BY <2>1, <3>1 DEF WorkSpared, IInv
  <2>4. QuietMeansAnswered'
    BY <2>1 DEF QuietMeansAnswered
  <2>5. AnswerNoticed'
    <3>1. alive /\ streaming => recovering' # "none"
      BY <1>6, <2>1 DEF QuietFor90s, Ask
    <3>2. QED
      BY <2>1, <3>1 DEF AnswerNoticed, IInv
  <2>6. QED
    BY <2>1, <2>2, <2>3, <2>4, <2>5 DEF IInv
<1>7. ASSUME TimesOut PROVE IInv'
  BY <1>7 DEF TimesOut, ompVars, watchVars, IInv, StartsOnce, WorkSpared, NoAbort,
     QuietMeansAnswered, AnswerNoticed
<1>8. ASSUME RecoverStuckTurn PROVE IInv'
  <2>1. /\ recovering # "none"
        /\ UNCHANGED <<alive, turn, phase, pipe, quiet, sheltered, cut>>
    BY <1>8 DEF RecoverStuckTurn, IInv, TurnTypeOK
  <2>2. StartsOnce'
    BY <2>1 DEF StartsOnce, IInv
  <2>3. WorkSpared'
    <3>1. phase = "working" => turn \notin sheltered
      BY <2>1 DEF WorkSpared, IInv
    <3>2. QED
      BY <2>1, <3>1 DEF WorkSpared, IInv
  <2>4. QuietMeansAnswered'
    BY <2>1 DEF QuietMeansAnswered, IInv
  <2>5. AnswerNoticed'
    <3>1. recovering' # "none" \/ ~streaming' \/ status' = "failed"
      BY <1>8 DEF RecoverStuckTurn, GoesOn, Ask, Recovered, NotRecovered
    <3>2. QED
      BY <2>1, <3>1 DEF AnswerNoticed, IInv
  <2>6. QED
    BY <2>1, <2>2, <2>3, <2>4, <2>5 DEF IInv
<1>9. ASSUME Exit PROVE IInv'
  <2>1. /\ pipe' = <<>> /\ phase' = "idle" /\ ~alive'
        /\ UNCHANGED <<turn, answered, quiet, recovering, sheltered, cut>>
    BY <1>9 DEF Exit
  <2>2. QED
    BY <2>1 DEF IInv, StartsOnce, WorkSpared, QuietMeansAnswered, AnswerNoticed
<1>10. ASSUME Restart PROVE IInv'
  <2>1. /\ ~quiet' /\ ~answered' /\ ~streaming'
        /\ UNCHANGED <<turn, phase, inbox, pipe, recovering, sheltered, cut>>
    BY <1>10 DEF Restart, ClearTurnWatchdog, recoveryVars
  <2>2. QED
    BY <2>1 DEF IInv, StartsOnce, WorkSpared, NoAbort, QuietMeansAnswered, AnswerNoticed
<1>11. CASE UNCHANGED turnVars
  BY <1>11 DEF turnVars, ompVars, watchVars, recoveryVars, IInv, StartsOnce, WorkSpared,
     NoAbort, QuietMeansAnswered, AnswerNoticed
<1>12. QED
  BY <1>1, <1>2, <1>3, <1>4, <1>5, <1>6, <1>7, <1>8, <1>9, <1>10, <1>11 DEF TurnNext

\* In every reachable state the invariant holds.
LEMMA Invariance == TurnSpec => []IInv
<1>1. TurnInit => IInv
  <2> SUFFICES ASSUME TurnInit PROVE IInv
    OBVIOUS
  <2>1. alive \in BOOLEAN
    BY Zenon DEF TurnInit
  <2>2. more \in BOOLEAN
    BY Zenon DEF TurnInit
  <2>3. streaming \in BOOLEAN
    BY Zenon DEF TurnInit
  <2>4. answered \in BOOLEAN
    BY Zenon DEF TurnInit
  <2>5. quiet \in BOOLEAN
    BY Zenon DEF TurnInit
  <2>6. inbox \in Seq(RecoveryRequests) /\ pipe \in Seq(Frames)
    BY DEF TurnInit
  <2>7. TurnTypeOK
    BY <2>1, <2>2, <2>3, <2>4, <2>5, <2>6 DEF TurnInit, TurnTypeOK, Recoverings
  <2>8. QED
    BY <2>7 DEF TurnInit, IInv, StartsOnce, WorkSpared, QuietMeansAnswered, AnswerNoticed
<1>2. IInv /\ [TurnNext]_turnVars => IInv'
  BY IInvStep, TypeStep DEF IInv
<1>3. QED
  BY <1>1, <1>2, PTL DEF TurnSpec

-------------------------------------------------------------------------------
(* Theorems                                                                *)

\* All states are well typed (every definition of StuckTurn).
THEOREM TypeSafety == TurnSpec => []TurnTypeOK
  BY Invariance, PTL DEF IInv

\* The watchdog spares every turn that works and whose start was handled with no
\* recovery under way, and leaves none as running that has answered and does not end
\* (observeTurnWatchdog, recoverStuckTurn).
THEOREM Watched == TurnSpec => []TurnsWatched
<1>1. IInv => TurnsWatched
  BY DEF IInv, AnswerNoticed, TurnsWatched
<1>2. QED
  BY <1>1, Invariance, PTL
===============================================================================
