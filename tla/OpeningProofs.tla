---------------------------- MODULE OpeningProofs ----------------------------
(***************************************************************************)
(* Proofs about what opens a chat, for any values of the constants of its  *)
(* components: HomeDraft (any texts, tokens, writes under way and reloads) *)
(* and Provisioning (any number of commits someone else makes).            *)
(*                                                                         *)
(* At the end, all four components of MCOpening together.  They share no   *)
(* variable: a step of one leaves the state of the others alone, so that   *)
(* a behaviour of all four is a behaviour of each, and what was proved of  *)
(* each holds of all of them.  ChatView and StuckTurn have proof modules   *)
(* of their own.                                                           *)
(***************************************************************************)
EXTENDS MCOpening, StuckTurnProofs, ChatViewProofs

-----------------------------------------------------------------------------
(* Home's draft. *)

\* Tokens are handed out in order: what is stored, sent or under way has one that was.
TokensInv ==
  /\ current.token < nextToken /\ disk.token < nextToken /\ attempt.draft.token < nextToken
  /\ \A k \in Tokens : first[k] = "pending" => k < nextToken

\* The attempt is about a draft with a text, and while that draft is home's and not yet
\* saved, home holds its text and shows it.
AttemptInv ==
  /\ creating =>
       /\ attempt.stage \in {"saving", "calling"}
       /\ attempt.draft.token \in Tokens /\ attempt.draft.text \in Texts
  /\ attempt.stage = "saving" /\ attempt.draft.token = token =>
       homeDraft = attempt.draft.text /\ (HomeShown => composer = attempt.draft.text)

\* At most one write is awaited by an attempt, the one under way, and no later write is
\* of another draft while the attempt's is home's.
QueueInv ==
  \A i \in 1..Len(writes) :
    /\ writes[i].draft.token < nextToken
    /\ writes[i].then = "cleared" => writes[i].draft = NoDraft
    /\ writes[i].then = "saved" =>
         /\ attempt.stage = "saving"
         /\ \A j \in 1..Len(writes) : writes[j].then = "saved" => i = j
         /\ attempt.draft.token = token =>
              \A j \in i..Len(writes) : writes[j].draft = attempt.draft

\* Home takes no text while a chat is made or its first prompt is on its way, so there
\* is one such prompt for home's token, and no new attempt before it is settled.
DeliveryInv ==
  /\ HomeShown /\ (creating \/ delivery) => off
  /\ first[token] = "pending" => delivery /\ ~creating
  /\ attempt.stage = "calling" /\ attempt.draft.token = token => delivery

\* A draft that is owed is the one home holds and shows, and the one of the attempt
\* under way.
OwedInv ==
  /\ \A d \in owed :
       /\ d.token = token /\ d.text \in Texts /\ homeDraft = d.text
       /\ HomeShown => composer = d.text
       /\ creating => d = attempt.draft
  /\ clearSoon =>
       ~ready /\ owed = {} /\ (creating => attempt.draft.token # token)

DraftInv ==
  /\ DraftTypeOK /\ TokensInv /\ AttemptInv /\ QueueInv /\ DeliveryInv /\ OwedInv
  /\ DraftKept

-----------------------------------------------------------------------------
(* The write queue. *)

\* What a write queued last does to the store.
Written(draft, then) ==
  /\ current' = draft /\ disk' = disk
  /\ Len(writes) \in Nat /\ Len(writes') = Len(writes) + 1
  /\ DOMAIN writes = 1..Len(writes) /\ DOMAIN writes' = 1..Len(writes')
  /\ \A i \in 1..Len(writes') :
       \/ i \in 1..Len(writes) /\ writes'[i] = writes[i]
       \/ i = Len(writes') /\ writes'[i] = [draft |-> draft, then |-> then]

LEMMA WriteAppends ==
  ASSUME StoreTypeOK, NEW draft \in Drafts, NEW then \in {"nothing", "saved", "cleared"},
         Write(draft, then)
  PROVE  /\ Written(draft, then)
         /\ current' \in Drafts /\ disk' \in Drafts /\ writes' \in Seq(Entries)
<1>1. [draft |-> draft, then |-> then] \in Entries
  BY DEF Entries
<1> QED
  BY <1>1 DEF Write, Written, StoreTypeOK

\* What the first write does when it lands.
Shifted ==
  /\ Len(writes) \in Nat \ {0} /\ Head(writes) = writes[1]
  /\ disk' = writes[1].draft /\ current' = current
  /\ Len(writes') \in Nat /\ Len(writes') = Len(writes) - 1
  /\ DOMAIN writes = 1..Len(writes) /\ DOMAIN writes' = 1..Len(writes')
  /\ \A i \in 1..Len(writes') : i + 1 \in 1..Len(writes) /\ writes'[i] = writes[i + 1]

LEMMA LandedShifts ==
  ASSUME StoreTypeOK, writes # <<>>, Landed
  PROVE  /\ Shifted
         /\ current' \in Drafts /\ disk' \in Drafts /\ writes' \in Seq(Entries)
<1>1. writes[1] \in Entries
  BY DEF StoreTypeOK
<1>2. writes[1].draft \in Drafts
  BY <1>1 DEF Entries
<1> QED
  BY <1>2 DEF Landed, Shifted, StoreTypeOK

\* A write that no attempt awaits keeps QueueInv, if it is of the attempt's draft
\* whenever that is home's.
LEMMA QueueKeptByWrite ==
  ASSUME QueueInv, nextToken \in Int, nextToken' \in Int, nextToken <= nextToken',
         NEW draft, NEW then, Written(draft, then), then # "saved",
         draft.token < nextToken', \A i \in 1..Len(writes) : writes[i].draft.token \in Int,
         then = "cleared" => draft = NoDraft, attempt' = attempt,
         attempt.stage = "saving" /\ attempt.draft.token = token' =>
           token' = token /\ draft = attempt.draft
  PROVE  QueueInv'
<1> SUFFICES ASSUME NEW i \in 1..Len(writes')
             PROVE  /\ writes'[i].draft.token < nextToken'
                    /\ writes'[i].then = "cleared" => writes'[i].draft = NoDraft
                    /\ writes'[i].then = "saved" =>
                         /\ attempt'.stage = "saving"
                         /\ \A j \in 1..Len(writes') : writes'[j].then = "saved" => i = j
                         /\ attempt'.draft.token = token' =>
                              \A j \in i..Len(writes') : writes'[j].draft = attempt'.draft
  BY DEF QueueInv
<1>1. CASE i \in 1..Len(writes) /\ writes'[i] = writes[i]
  <2>1. writes'[i].draft.token < nextToken'
    BY <1>1 DEF QueueInv
  <2>2. writes'[i].then = "cleared" => writes'[i].draft = NoDraft
    BY <1>1 DEF QueueInv
  <2>3. ASSUME writes'[i].then = "saved", NEW j \in 1..Len(writes'), writes'[j].then = "saved"
        PROVE  i = j
    BY <1>1, <2>3 DEF QueueInv, Written
  <2>4. ASSUME writes'[i].then = "saved", attempt'.draft.token = token',
               NEW j \in i..Len(writes')
        PROVE  writes'[j].draft = attempt'.draft
    <3>1. attempt.stage = "saving" /\ draft = attempt.draft /\ attempt.draft.token = token
      BY <1>1, <2>4 DEF QueueInv
    <3>2. j \in 1..Len(writes')
      BY <1>1 DEF Written
    <3> QED
      BY <1>1, <2>4, <3>1, <3>2 DEF QueueInv, Written
  <2> QED
    BY <1>1, <2>1, <2>2, <2>3, <2>4 DEF QueueInv
<1>2. CASE writes'[i] = [draft |-> draft, then |-> then]
  BY <1>2
<1> QED
  BY <1>1, <1>2 DEF Written

\* So does a landing, while the attempt stays and home's token stays or is new.
LEMMA QueueKeptByLanding ==
  ASSUME QueueInv, nextToken \in Int, nextToken' \in Int, nextToken <= nextToken',
         \A i \in 1..Len(writes) : writes[i].draft.token \in Int,
         Shifted, attempt' = attempt, token' = token \/ attempt.draft.token # token'
  PROVE  QueueInv'
<1> SUFFICES ASSUME NEW i \in 1..Len(writes')
             PROVE  /\ writes'[i].draft.token < nextToken'
                    /\ writes'[i].then = "cleared" => writes'[i].draft = NoDraft
                    /\ writes'[i].then = "saved" =>
                         /\ attempt'.stage = "saving"
                         /\ \A j \in 1..Len(writes') : writes'[j].then = "saved" => i = j
                         /\ attempt'.draft.token = token' =>
                              \A j \in i..Len(writes') : writes'[j].draft = attempt'.draft
  BY DEF QueueInv
<1>1. i + 1 \in 1..Len(writes) /\ writes'[i] = writes[i + 1]
  BY DEF Shifted
<1>2. writes'[i].draft.token < nextToken'
  BY <1>1 DEF QueueInv
<1>3. writes'[i].then = "cleared" => writes'[i].draft = NoDraft
  BY <1>1 DEF QueueInv
<1>4. ASSUME writes'[i].then = "saved", NEW j \in 1..Len(writes'), writes'[j].then = "saved"
      PROVE  i = j
  <2>1. j + 1 \in 1..Len(writes) /\ writes'[j] = writes[j + 1]
    BY DEF Shifted
  <2>2. i + 1 = j + 1
    BY <1>1, <1>4, <2>1 DEF QueueInv
  <2> QED
    BY <2>2 DEF Shifted
<1>5. ASSUME writes'[i].then = "saved", attempt'.draft.token = token', NEW j \in i..Len(writes')
      PROVE  writes'[j].draft = attempt'.draft
  <2>1. j \in 1..Len(writes') /\ j + 1 \in (i + 1)..Len(writes)
    BY DEF Shifted
  <2>2. writes'[j] = writes[j + 1]
    BY <2>1 DEF Shifted
  <2> QED
    BY <1>1, <1>5, <2>1, <2>2 DEF QueueInv
<1> QED
  BY <1>1, <1>2, <1>3, <1>4, <1>5 DEF QueueInv

LEMMA QueueTyped ==
  ASSUME StoreTypeOK
  PROVE  /\ Len(writes) \in Nat /\ DOMAIN writes = 1..Len(writes)
         /\ \A i \in 1..Len(writes) : writes[i].draft \in Drafts /\ writes[i].draft.token \in Int
<1>1. \A i \in 1..Len(writes) : writes[i] \in Entries
  BY DEF StoreTypeOK
<1> QED
  BY <1>1 DEF StoreTypeOK, Entries, Drafts, NoDraft, Tokens

\* DraftKept survives a write, and a landing, of what is owed.
LEMMA DraftKeptByWrite ==
  ASSUME DraftKept, NEW draft, NEW then, Written(draft, then),
         \A d \in owed' : d \in owed /\ d = draft
  PROVE  DraftKept'
  BY DEF DraftKept, Written

LEMMA DraftKeptByLanding ==
  ASSUME DraftKept, Shifted, owed' \subseteq owed
  PROVE  DraftKept'
  BY DEF DraftKept, Shifted

-----------------------------------------------------------------------------
(* The steps that leave the store alone. *)

LEMMA StepElsewhere ==
  ASSUME DraftInv,
         \/ \E text \in Texts \cup {Empty} : Type(text)
         \/ NewDraft
         \/ HomeReady
         \/ ViewGone
         \/ ShowSession
         \/ ShowHome
         \/ CreationFails
         \/ ChatCreated
         \/ CooledDown
         \/ \E k \in Tokens : GivenBack(k)
         \/ UNCHANGED draftVars
  PROVE  DraftInv'
<1> USE DraftAssumption
     DEF DraftInv, DraftTypeOK, SurfaceTypeOK, HomeTypeOK, StoreTypeOK, AttemptTypeOK,
         TokensInv, AttemptInv, QueueInv, DeliveryInv, OwedInv, DraftKept, HomeShown,
         Tokens, NoDraft, Drafts, Attempts, NoAttempt, surfaceVars, storeVars, homeVars
<1>1. CASE \E text \in Texts \cup {Empty} : Type(text)
  <2>1. SurfaceTypeOK' /\ HomeTypeOK'
    BY <1>1 DEF Type, Discard
  <2>2. StoreTypeOK' /\ AttemptTypeOK'
    BY <1>1 DEF Type, Discard
  <2>3. TokensInv' /\ AttemptInv' /\ QueueInv'
    BY <1>1 DEF Type, Discard
  <2>4. DeliveryInv' /\ OwedInv' /\ DraftKept'
    BY <1>1 DEF Type, Discard
  <2> QED
    BY <2>1, <2>2, <2>3, <2>4
<1>2. CASE NewDraft
  <2>1. SurfaceTypeOK' /\ HomeTypeOK'
    BY <1>2 DEF NewDraft, Discard
  <2>2. StoreTypeOK' /\ AttemptTypeOK'
    BY <1>2 DEF NewDraft, Discard
  <2>3. TokensInv' /\ AttemptInv' /\ QueueInv'
    BY <1>2 DEF NewDraft, Discard
  <2>4. DeliveryInv' /\ OwedInv' /\ DraftKept'
    BY <1>2 DEF NewDraft, Discard
  <2> QED
    BY <2>1, <2>2, <2>3, <2>4
<1>3. CASE HomeReady
  <2>1. SurfaceTypeOK' /\ HomeTypeOK'
    BY <1>3 DEF HomeReady
  <2>2. StoreTypeOK' /\ AttemptTypeOK'
    BY <1>3 DEF HomeReady
  <2>3. TokensInv' /\ AttemptInv' /\ QueueInv'
    BY <1>3 DEF HomeReady
  <2>4. DeliveryInv' /\ OwedInv' /\ DraftKept'
    BY <1>3 DEF HomeReady
  <2> QED
    BY <2>1, <2>2, <2>3, <2>4
<1>4. CASE ViewGone
  <2>1. SurfaceTypeOK' /\ HomeTypeOK'
    BY <1>4 DEF ViewGone, Rerendered
  <2>2. StoreTypeOK' /\ AttemptTypeOK'
    BY <1>4 DEF ViewGone, Rerendered
  <2>3. TokensInv' /\ AttemptInv' /\ QueueInv'
    BY <1>4 DEF ViewGone, Rerendered
  <2>4. DeliveryInv' /\ OwedInv' /\ DraftKept'
    BY <1>4 DEF ViewGone, Rerendered
  <2> QED
    BY <2>1, <2>2, <2>3, <2>4
<1>5. CASE ShowSession
  <2>1. SurfaceTypeOK' /\ HomeTypeOK'
    BY <1>5 DEF ShowSession, Rerendered
  <2>2. StoreTypeOK' /\ AttemptTypeOK'
    BY <1>5 DEF ShowSession, Rerendered
  <2>3. TokensInv' /\ AttemptInv' /\ QueueInv'
    BY <1>5 DEF ShowSession, Rerendered
  <2>4. DeliveryInv' /\ OwedInv' /\ DraftKept'
    BY <1>5 DEF ShowSession, Rerendered
  <2> QED
    BY <2>1, <2>2, <2>3, <2>4
<1>6. CASE ShowHome
  <2>1. SurfaceTypeOK' /\ HomeTypeOK'
    BY <1>6 DEF ShowHome, Rerendered
  <2>2. StoreTypeOK' /\ AttemptTypeOK'
    BY <1>6 DEF ShowHome, Rerendered
  <2>3. TokensInv' /\ AttemptInv' /\ QueueInv'
    BY <1>6 DEF ShowHome, Rerendered
  <2>4. DeliveryInv' /\ OwedInv' /\ DraftKept'
    BY <1>6 DEF ShowHome, Rerendered
  <2> QED
    BY <2>1, <2>2, <2>3, <2>4
<1>7. CASE CreationFails
  <2>1. SurfaceTypeOK' /\ HomeTypeOK'
    <3>1. composer' \in Texts \cup {Empty}
      BY <1>7 DEF CreationFails, NotCreated, PostHomeState
    <3>2. off' \in BOOLEAN /\ UNCHANGED <<selected, ready, clearSoon>> /\ HomeTypeOK'
      BY <1>7 DEF CreationFails, NotCreated, PostHomeState
    <3> QED
      BY <3>1, <3>2
  <2>2. StoreTypeOK' /\ AttemptTypeOK'
    BY <1>7 DEF CreationFails, NotCreated, PostHomeState
  <2>3. TokensInv' /\ AttemptInv' /\ QueueInv'
    BY <1>7 DEF CreationFails, NotCreated, PostHomeState
  <2>4. DeliveryInv' /\ OwedInv' /\ DraftKept'
    BY <1>7 DEF CreationFails, NotCreated, PostHomeState
  <2> QED
    BY <2>1, <2>2, <2>3, <2>4
<1>8. CASE ChatCreated
  <2>1. SurfaceTypeOK' /\ HomeTypeOK'
    BY <1>8 DEF ChatCreated, Rerendered
  <2>2. StoreTypeOK' /\ AttemptTypeOK'
    BY <1>8 DEF ChatCreated, Rerendered
  <2>3. TokensInv' /\ AttemptInv' /\ QueueInv'
    BY <1>8 DEF ChatCreated, Rerendered
  <2>4. DeliveryInv' /\ OwedInv' /\ DraftKept'
    BY <1>8 DEF ChatCreated, Rerendered
  <2> QED
    BY <2>1, <2>2, <2>3, <2>4
<1>9. CASE CooledDown
  <2>1. SurfaceTypeOK' /\ HomeTypeOK'
    BY <1>9 DEF CooledDown
  <2>2. StoreTypeOK' /\ AttemptTypeOK'
    BY <1>9 DEF CooledDown
  <2>3. TokensInv' /\ AttemptInv' /\ QueueInv'
    BY <1>9 DEF CooledDown
  <2>4. DeliveryInv' /\ OwedInv' /\ DraftKept'
    BY <1>9 DEF CooledDown
  <2> QED
    BY <2>1, <2>2, <2>3, <2>4
<1>10. CASE \E k \in Tokens : GivenBack(k)
  <2>1. SurfaceTypeOK' /\ HomeTypeOK'
    BY <1>10 DEF GivenBack, Concerns, PostHomeState
  <2>2. StoreTypeOK' /\ AttemptTypeOK'
    BY <1>10 DEF GivenBack, Concerns, PostHomeState
  <2>3. TokensInv' /\ AttemptInv' /\ QueueInv'
    BY <1>10 DEF GivenBack, Concerns, PostHomeState
  <2>4. DeliveryInv' /\ OwedInv' /\ DraftKept'
    BY <1>10 DEF GivenBack, Concerns, PostHomeState
  <2> QED
    BY <2>1, <2>2, <2>3, <2>4
<1>11. CASE UNCHANGED draftVars
  <2>1. SurfaceTypeOK' /\ HomeTypeOK'
    BY <1>11 DEF draftVars
  <2>2. StoreTypeOK' /\ AttemptTypeOK'
    BY <1>11 DEF draftVars
  <2>3. TokensInv' /\ AttemptInv' /\ QueueInv'
    BY <1>11 DEF draftVars
  <2>4. DeliveryInv' /\ OwedInv' /\ DraftKept'
    BY <1>11 DEF draftVars
  <2> QED
    BY <2>1, <2>2, <2>3, <2>4
<1> QED
  BY <1>1, <1>2, <1>3, <1>4, <1>5, <1>6, <1>7, <1>8, <1>9, <1>10, <1>11

-----------------------------------------------------------------------------
(* The steps that write. *)

LEMMA StepTimerFires == DraftInv /\ TimerFires => DraftInv'
<1> SUFFICES ASSUME DraftInv, TimerFires PROVE DraftInv'
  OBVIOUS
<1> USE DraftAssumption DEF DraftInv, DraftTypeOK, surfaceVars
<1>1. CASE homeDraft \in Large \/ (homeDraft = Empty /\ current.token # token)
  <2> UNCHANGED storeVars
    BY <1>1 DEF TimerFires, Clear, Save
  <2> USE DEF TimerFires, storeVars
  <2>1. DraftTypeOK'
    BY DEF SurfaceTypeOK, HomeTypeOK, StoreTypeOK, AttemptTypeOK
  <2>2. TokensInv' /\ AttemptInv' /\ QueueInv'
    BY DEF TokensInv, AttemptInv, QueueInv, HomeShown
  <2>3. DeliveryInv' /\ OwedInv' /\ DraftKept'
    BY DEF DeliveryInv, OwedInv, DraftKept, HomeShown
  <2> QED
    BY <2>1, <2>2, <2>3
<1>2. CASE homeDraft \notin Large /\ (homeDraft # Empty \/ current.token = token)
  <2> DEFINE draft == IF homeDraft = Empty THEN NoDraft ELSE [token |-> token, text |-> homeDraft]
  <2>1. draft \in Drafts /\ draft.token \in Int /\ draft.token < nextToken
    BY <1>2 DEF HomeTypeOK, Drafts, NoDraft, Tokens
  <2>2. Write(draft, "nothing")
    BY <1>2 DEF TimerFires, Clear, Save
  <2>3. /\ Written(draft, "nothing")
        /\ current' \in Drafts /\ disk' \in Drafts /\ writes' \in Seq(Entries)
    BY <2>1, <2>2, WriteAppends
  <2>4. UNCHANGED <<surfaceVars, homeDraft, creating, token, delivery, attempt, cooling, first,
                    nextToken, reloads, owed>> /\ timer' = FALSE
    BY DEF TimerFires
  <2>5. attempt.stage = "saving" /\ attempt.draft.token = token => draft = attempt.draft
    BY DEF AttemptInv, AttemptTypeOK, Attempts, NoAttempt, Drafts, NoDraft, HomeTypeOK, Tokens
  <2>6. \A d \in owed : d = draft
    BY DEF OwedInv, StoreTypeOK, Drafts, NoDraft, HomeTypeOK, Tokens
  <2> HIDE DEF draft
  <2>7. DraftTypeOK'
    BY <2>3, <2>4 DEF SurfaceTypeOK, HomeTypeOK, StoreTypeOK, AttemptTypeOK
  <2>8. TokensInv' /\ AttemptInv'
    BY <2>1, <2>3, <2>4 DEF TokensInv, AttemptInv, HomeShown, Written
  <2>9. QueueInv'
    BY <2>1, <2>3, <2>4, <2>5, QueueTyped, QueueKeptByWrite DEF HomeTypeOK
  <2>10. DeliveryInv' /\ OwedInv'
    BY <2>4 DEF DeliveryInv, OwedInv, HomeShown
  <2>11. DraftKept'
    BY <2>3, <2>4, <2>6, DraftKeptByWrite
  <2> QED
    BY <2>7, <2>8, <2>9, <2>10, <2>11
<1> QED
  BY <1>1, <1>2

LEMMA StepWriteLands == DraftInv /\ WriteLands => DraftInv'
<1> SUFFICES ASSUME DraftInv, WriteLands PROVE DraftInv'
  OBVIOUS
<1> USE DEF DraftInv, DraftTypeOK, surfaceVars, homeVars
<1>1. Shifted /\ current' \in Drafts /\ disk' \in Drafts /\ writes' \in Seq(Entries)
  BY LandedShifts DEF WriteLands
<1>2. UNCHANGED <<surfaceVars, homeVars, attempt, cooling, first, nextToken, reloads, owed>>
  BY DEF WriteLands
<1>3. disk'.token < nextToken
  BY <1>1 DEF Shifted, QueueInv
<1>4. DraftTypeOK'
  BY <1>1, <1>2 DEF SurfaceTypeOK, HomeTypeOK, StoreTypeOK, AttemptTypeOK
<1>5. TokensInv' /\ AttemptInv'
  BY <1>1, <1>2, <1>3 DEF TokensInv, AttemptInv, HomeShown, Shifted
<1>6. QueueInv'
  BY <1>1, <1>2, QueueTyped, QueueKeptByLanding DEF HomeTypeOK
<1>7. DeliveryInv' /\ OwedInv'
  BY <1>2 DEF DeliveryInv, OwedInv, HomeShown
<1>8. DraftKept'
  BY <1>1, <1>2, DraftKeptByLanding
<1> QED
  BY <1>4, <1>5, <1>6, <1>7, <1>8

LEMMA StepShowHomeCleared == DraftInv /\ ShowHomeCleared => DraftInv'
<1> SUFFICES ASSUME DraftInv, ShowHomeCleared PROVE DraftInv'
  OBVIOUS
<1> USE DraftAssumption DEF DraftInv, DraftTypeOK
<1>1. /\ nextToken <= MaxToken /\ token' = nextToken /\ nextToken' = nextToken + 1
      /\ homeDraft' = Empty /\ delivery' = FALSE /\ selected' = FALSE
      /\ UNCHANGED <<creating, attempt, cooling, first, reloads>>
  BY DEF ShowHomeCleared
<1>2. owed' = {}
  BY DEF ShowHomeCleared, Discard, OwedInv
<1>3. \/ UNCHANGED storeVars
      \/ /\ Written(NoDraft, "nothing")
         /\ current' \in Drafts /\ disk' \in Drafts /\ writes' \in Seq(Entries)
  BY WriteAppends DEF ShowHomeCleared, Clear, Drafts
<1>4. \/ ready' = FALSE /\ composer' = Empty /\ off' = FALSE /\ clearSoon' = TRUE
      \/ /\ composer' = (IF off THEN composer ELSE Empty) /\ clearSoon' = FALSE
         /\ HomeShown /\ UNCHANGED <<ready, off>>
  BY DEF ShowHomeCleared, Rerendered, SurfaceTypeOK, HomeShown
<1>5. timer' \in BOOLEAN
  BY DEF ShowHomeCleared, HomeTypeOK
<1>6. SurfaceTypeOK'
  BY <1>1, <1>4 DEF SurfaceTypeOK
<1>7. HomeTypeOK'
  <2>1. token' \in Tokens /\ token' < nextToken' /\ nextToken' \in 2..(MaxToken + 1)
    BY <1>1 DEF HomeTypeOK, Tokens
  <2> QED
    BY <1>1, <1>5, <2>1 DEF HomeTypeOK
<1>8. StoreTypeOK' /\ AttemptTypeOK'
  BY <1>1, <1>2, <1>3 DEF StoreTypeOK, AttemptTypeOK, storeVars
<1>9. TokensInv'
  BY <1>1, <1>3 DEF TokensInv, HomeTypeOK, Written, NoDraft, storeVars, StoreTypeOK, Drafts,
     Tokens, AttemptTypeOK, Attempts
<1>10. attempt.draft.token # token'
  BY <1>1 DEF TokensInv, AttemptTypeOK, Attempts, Drafts, NoDraft, Tokens, HomeTypeOK
<1>11. AttemptInv'
  BY <1>1, <1>10 DEF AttemptInv
<1>12. QueueInv'
  <2>1. CASE UNCHANGED storeVars
    BY <1>1, <1>10, <2>1, QueueTyped DEF QueueInv, storeVars, HomeTypeOK
  <2>2. CASE Written(NoDraft, "nothing")
    BY <1>1, <1>10, <2>2, QueueTyped, QueueKeptByWrite DEF HomeTypeOK, NoDraft
  <2> QED
    BY <1>3, <2>1, <2>2
<1>13. DeliveryInv'
  BY <1>1, <1>4, <1>10 DEF DeliveryInv, HomeShown, TokensInv, HomeTypeOK, Tokens, AttemptTypeOK,
     SurfaceTypeOK
<1>14. OwedInv' /\ DraftKept'
  BY <1>2, <1>4, <1>10, <1>1 DEF OwedInv, DraftKept
<1> QED
  BY <1>6, <1>7, <1>8, <1>9, <1>11, <1>12, <1>13, <1>14

LEMMA StepSubmit == DraftInv /\ Submit => DraftInv'
<1> SUFFICES ASSUME DraftInv, Submit PROVE DraftInv'
  OBVIOUS
<1> USE DraftAssumption DEF DraftInv, DraftTypeOK
<1>1. ~creating /\ ~delivery /\ HomeShown /\ composer \in Texts \ Large
  BY DEF Submit, DeliveryInv, HomeTypeOK
<1> DEFINE draft == [token |-> token, text |-> composer]
<1>2. draft \in Drafts /\ draft.token = token /\ draft.text = composer /\ composer \in Texts
  BY <1>1 DEF Drafts, HomeTypeOK, SurfaceTypeOK
<1>3. Write(draft, "saved")
  BY <1>1 DEF Submit, Save
<1>4. /\ Written(draft, "saved")
      /\ current' \in Drafts /\ disk' \in Drafts /\ writes' \in Seq(Entries)
  BY <1>2, <1>3, WriteAppends
<1>5. /\ creating' = TRUE /\ homeDraft' = composer /\ off' = TRUE
      /\ attempt' = [stage |-> "saving", draft |-> draft]
      /\ UNCHANGED <<selected, ready, composer, clearSoon, token, delivery, timer, cooling, first,
                     nextToken, reloads, owed>>
  BY <1>1 DEF Submit
<1>6. \A d \in owed : d = draft
  BY <1>1 DEF OwedInv, StoreTypeOK, Drafts, NoDraft, HomeTypeOK, Tokens
<1>7. \A i \in 1..Len(writes) : writes[i].then # "saved"
  BY <1>1 DEF QueueInv, AttemptTypeOK, NoAttempt
<1> HIDE DEF draft
<1>8. SurfaceTypeOK' /\ HomeTypeOK' /\ StoreTypeOK'
  BY <1>4, <1>5 DEF SurfaceTypeOK, HomeTypeOK, StoreTypeOK
<1>9. AttemptTypeOK'
  BY <1>2, <1>5 DEF AttemptTypeOK, Attempts, NoAttempt
<1>10. TokensInv'
  BY <1>2, <1>4, <1>5 DEF TokensInv, Written, HomeTypeOK
<1>11. AttemptInv'
  BY <1>2, <1>5 DEF AttemptInv, HomeTypeOK
<1>12. QueueInv'
  <2> SUFFICES ASSUME NEW i \in 1..Len(writes')
               PROVE  /\ writes'[i].draft.token < nextToken'
                      /\ writes'[i].then = "cleared" => writes'[i].draft = NoDraft
                      /\ writes'[i].then = "saved" =>
                           /\ attempt'.stage = "saving"
                           /\ \A j \in 1..Len(writes') : writes'[j].then = "saved" => i = j
                           /\ attempt'.draft.token = token' =>
                                \A j \in i..Len(writes') : writes'[j].draft = attempt'.draft
    BY DEF QueueInv
  <2>1. CASE i \in 1..Len(writes) /\ writes'[i] = writes[i]
    BY <1>5, <1>7, <2>1 DEF QueueInv
  <2>2. CASE i = Len(writes') /\ writes'[i] = [draft |-> draft, then |-> "saved"]
    <3>1. \A j \in 1..Len(writes') : writes'[j].then = "saved" => j = Len(writes')
      BY <1>4, <1>7 DEF Written
    <3>2. \A j \in i..Len(writes') : writes'[j].draft = attempt'.draft
      BY <1>4, <1>5, <2>2 DEF Written
    <3> QED
      BY <1>2, <1>5, <2>2, <3>1, <3>2 DEF HomeTypeOK
  <2> QED
    BY <1>4, <2>1, <2>2 DEF Written
<1>13. DeliveryInv'
  BY <1>1, <1>5 DEF DeliveryInv
<1>14. OwedInv'
  BY <1>1, <1>5, <1>6 DEF OwedInv, HomeShown, SurfaceTypeOK
<1>15. DraftKept'
  BY <1>4, <1>5, <1>6, DraftKeptByWrite
<1> QED
  BY <1>8, <1>9, <1>10, <1>11, <1>12, <1>13, <1>14, <1>15

LEMMA StepSaved == DraftInv /\ Saved => DraftInv'
<1> SUFFICES ASSUME DraftInv, Saved PROVE DraftInv'
  OBVIOUS
<1> USE DraftAssumption DEF DraftInv, DraftTypeOK
<1>1. /\ Shifted /\ writes[1].then = "saved"
      /\ current' \in Drafts /\ disk' \in Drafts /\ writes' \in Seq(Entries)
  BY LandedShifts DEF Saved, Shifted
<1>2. /\ owed' = IF attempt.draft.token = token THEN owed \cup {attempt.draft} ELSE owed
      /\ UNCHANGED <<selected, ready, clearSoon, homeDraft, token, timer, cooling, first,
                     nextToken, reloads>>
  BY DEF Saved
<1>3. \/ /\ attempt' = NoAttempt /\ creating' = FALSE /\ delivery' = FALSE
         /\ composer' = IF HomeShown THEN attempt.draft.text ELSE composer
         /\ off' = IF HomeShown THEN FALSE ELSE off
      \/ /\ attempt' = [attempt EXCEPT !.stage = "calling"] /\ delivery' = TRUE
         /\ off' = IF HomeShown THEN TRUE ELSE off
         /\ UNCHANGED <<composer, creating>>
  BY DEF Saved, NotCreated, PostHomeState
\* The save is the attempt's.
<1>4. 1 \in 1..Len(writes)
  BY <1>1 DEF Shifted
<1>5. attempt.stage = "saving" /\ creating
  BY <1>1, <1>4 DEF QueueInv, AttemptTypeOK, NoAttempt
<1>6. attempt.draft.token \in Tokens /\ attempt.draft.text \in Texts /\ attempt.draft \in Drafts
  BY <1>5 DEF AttemptInv, AttemptTypeOK, Attempts
<1>7. attempt.draft.token = token =>
        \A j \in 1..Len(writes) : writes[j].draft = attempt.draft
  BY <1>1, <1>4 DEF QueueInv
<1>8. attempt.draft.token # token => owed = {}
  BY <1>5 DEF OwedInv
<1>9. \A d \in owed' : d = attempt.draft /\ attempt.draft.token = token
  BY <1>2, <1>5, <1>8 DEF OwedInv
<1>10. \A i \in 1..Len(writes') : writes'[i].then # "saved"
  <2> SUFFICES ASSUME NEW i \in 1..Len(writes'), writes'[i].then = "saved" PROVE FALSE
    OBVIOUS
  <2>1. i + 1 \in 1..Len(writes) /\ writes[i + 1].then = "saved"
    BY <1>1 DEF Shifted
  <2>2. 1 = i + 1
    BY <1>1, <1>4, <2>1 DEF QueueInv
  <2> QED
    BY <2>2
<1>11. SurfaceTypeOK'
  <2>1. composer' \in Texts \cup {Empty}
    BY <1>3, <1>6 DEF SurfaceTypeOK
  <2>2. off' \in BOOLEAN
    BY <1>3 DEF SurfaceTypeOK
  <2> QED
    BY <1>2, <2>1, <2>2 DEF SurfaceTypeOK
<1>12. HomeTypeOK'
  BY <1>2, <1>3 DEF HomeTypeOK
<1>13. StoreTypeOK'
  BY <1>1, <1>2, <1>6 DEF StoreTypeOK
<1>14. AttemptTypeOK' /\ attempt'.draft.token < nextToken'
  <2>1. CASE attempt' = NoAttempt /\ creating' = FALSE
    BY <1>2, <2>1 DEF AttemptTypeOK, Attempts, NoAttempt, Drafts, NoDraft, HomeTypeOK
  <2>2. CASE attempt' = [attempt EXCEPT !.stage = "calling"] /\ UNCHANGED creating
    <3>1. attempt' = [stage |-> "calling", draft |-> attempt.draft]
      BY <2>2 DEF AttemptTypeOK, Attempts
    <3> QED
      BY <1>2, <1>5, <1>6, <2>2, <3>1 DEF AttemptTypeOK, Attempts, NoAttempt, TokensInv
  <2> QED
    BY <1>3, <2>1, <2>2
<1>15. TokensInv'
  BY <1>1, <1>2, <1>4, <1>14 DEF TokensInv, Shifted, QueueInv
<1>16. \/ attempt' = NoAttempt /\ ~creating'
       \/ /\ attempt'.stage = "calling" /\ attempt'.draft = attempt.draft /\ creating'
          /\ delivery' = TRUE
  BY <1>3, <1>5 DEF AttemptTypeOK, Attempts
<1>17. AttemptInv'
  BY <1>6, <1>16 DEF AttemptInv, NoAttempt
<1>18. QueueInv'
  BY <1>1, <1>2, <1>10 DEF QueueInv, Shifted
<1>19. DeliveryInv'
  <2>1. first[token] # "pending"
    BY <1>5 DEF DeliveryInv
  <2>2. HomeShown' /\ (creating' \/ delivery') => off'
    BY <1>2, <1>3 DEF HomeShown
  <2> QED
    BY <1>2, <1>3, <1>16, <2>1, <2>2 DEF DeliveryInv, NoAttempt
<1>20. OwedInv'
  <2>1. \A d \in owed' : /\ d.token = token' /\ d.text \in Texts /\ homeDraft' = d.text
                         /\ creating' => d = attempt'.draft
    BY <1>2, <1>5, <1>6, <1>9, <1>16 DEF AttemptInv
  <2>2. \A d \in owed' : HomeShown' => composer' = d.text
    BY <1>2, <1>3, <1>5, <1>9 DEF AttemptInv, HomeShown
  <2>3. clearSoon' => /\ ~ready' /\ owed' = {}
                      /\ creating' => attempt'.draft.token # token'
    BY <1>2, <1>5, <1>16 DEF OwedInv
  <2> QED
    BY <2>1, <2>2, <2>3 DEF OwedInv
<1>21. DraftKept'
  BY <1>1, <1>4, <1>7, <1>9 DEF DraftKept, Shifted
<1> QED
  BY <1>11, <1>12, <1>13, <1>14, <1>15, <1>17, <1>18, <1>19, <1>20, <1>21

\* What Emptied does: home holds nothing, under a token nothing else has.
LEMMA EmptiedFresh ==
  ASSUME DraftTypeOK, TokensInv, Emptied
  PROVE  /\ homeDraft' = Empty /\ token' = nextToken /\ nextToken' = nextToken + 1
         /\ token' \in Tokens /\ token' < nextToken' /\ nextToken' \in 2..(MaxToken + 1)
         /\ nextToken <= nextToken' /\ attempt.draft.token # token'
         /\ \A k \in Tokens : first[k] = "pending" => k < nextToken' /\ k # token'
         /\ \A n \in Int : n < nextToken => n < nextToken'
<1> USE DraftAssumption DEF DraftTypeOK
<1>1. nextToken <= MaxToken /\ nextToken \in Nat \ {0} /\ token' = nextToken
      /\ nextToken' = nextToken + 1 /\ homeDraft' = Empty
  BY DEF Emptied, HomeTypeOK
<1>2. attempt.draft.token \in Int
  BY DEF AttemptTypeOK, Attempts, Drafts, NoDraft, Tokens
<1>3. \A k \in Tokens : first[k] = "pending" => k < nextToken' /\ k # token'
  BY <1>1 DEF TokensInv, Tokens
<1> QED
  BY <1>1, <1>2, <1>3 DEF TokensInv, Tokens

LEMMA StepAccepted ==
  ASSUME DraftInv, NEW k \in Tokens, Accepted(k)
  PROVE  DraftInv'
<1> USE DraftAssumption DEF DraftInv, DraftTypeOK
<1>1. /\ first[k] = "pending" /\ first' = [first EXCEPT ![k] = "delivered"]
      /\ owed' = {d \in owed : d.token # k}
      /\ UNCHANGED <<selected, ready, composer, clearSoon, creating, timer, attempt, cooling,
                     reloads>>
  BY DEF Accepted
<1>2. AttemptTypeOK' /\ owed' \subseteq owed
  BY <1>1 DEF AttemptTypeOK
<1>3. CASE k # token
  <2> USE <1>1, <1>2, <1>3 DEF Accepted, Concerns, storeVars
  <2>1. SurfaceTypeOK' /\ HomeTypeOK' /\ StoreTypeOK'
    BY DEF SurfaceTypeOK, HomeTypeOK, StoreTypeOK
  <2>2. TokensInv' /\ AttemptInv' /\ QueueInv'
    BY DEF TokensInv, AttemptInv, QueueInv, HomeShown, AttemptTypeOK
  <2>3. DeliveryInv' /\ OwedInv' /\ DraftKept'
    BY DEF DeliveryInv, OwedInv, DraftKept, HomeShown, AttemptTypeOK, HomeTypeOK
  <2> QED
    BY <2>1, <2>2, <2>3
<1>4. CASE k = token
  <2>1. owed' = {} /\ ~creating /\ ~creating' /\ delivery' = FALSE
    BY <1>1, <1>4 DEF OwedInv, DeliveryInv, Accepted, Concerns
  <2>2. attempt = NoAttempt /\ attempt' = NoAttempt
    BY <1>1, <2>1 DEF AttemptTypeOK
  <2>3. first'[token] # "pending"
    BY <1>1, <1>4 DEF AttemptTypeOK
  <2>4. CASE current.token = k
    <3>1. /\ Written(NoDraft, "cleared") /\ UNCHANGED <<off, homeDraft, token, nextToken>>
          /\ current' \in Drafts /\ disk' \in Drafts /\ writes' \in Seq(Entries)
      BY <1>4, <2>4, WriteAppends DEF Accepted, Concerns, Clear, Drafts
    <3>2. DraftTypeOK'
      BY <1>1, <1>2, <2>1, <3>1 DEF SurfaceTypeOK, HomeTypeOK, StoreTypeOK
    <3>3. TokensInv'
      BY <1>1, <2>2, <3>1 DEF TokensInv, Written, NoDraft, HomeTypeOK, AttemptTypeOK
    <3>4. AttemptInv' /\ DeliveryInv' /\ OwedInv' /\ DraftKept'
      BY <1>1, <2>1, <2>2, <2>3, <3>1
      DEF AttemptInv, DeliveryInv, OwedInv, DraftKept, NoAttempt, HomeShown
    <3>5. QueueInv'
      BY <1>1, <2>2, <3>1, QueueTyped, QueueKeptByWrite DEF HomeTypeOK, NoDraft, NoAttempt
    <3> QED
      BY <3>2, <3>3, <3>4, <3>5
  <2>5. CASE current.token # k
    <3>1. Emptied /\ UNCHANGED storeVars /\ off' = IF HomeShown THEN creating ELSE off
      BY <1>4, <2>5 DEF Accepted, Concerns, Clear, PostHomeState
    <3>2. /\ homeDraft' = Empty /\ token' \in Tokens /\ token' < nextToken'
          /\ nextToken' \in 2..(MaxToken + 1) /\ nextToken <= nextToken'
          /\ nextToken' = nextToken + 1 /\ token' = nextToken
          /\ \A l \in Tokens : first[l] = "pending" => l < nextToken' /\ l # token'
      BY <3>1, EmptiedFresh
    <3>3. SurfaceTypeOK' /\ HomeTypeOK' /\ StoreTypeOK'
      BY <1>1, <2>1, <3>1, <3>2 DEF SurfaceTypeOK, HomeTypeOK, StoreTypeOK, storeVars
    <3>4. TokensInv'
      <4>1. current.token \in Int /\ disk.token \in Int
        BY DEF StoreTypeOK, Drafts, NoDraft, Tokens
      <4>2. \A l \in Tokens : first'[l] = "pending" => l < nextToken'
        BY <1>1, <3>2 DEF AttemptTypeOK
      <4> QED
        BY <2>2, <3>1, <3>2, <4>1, <4>2 DEF TokensInv, storeVars, NoAttempt, NoDraft, HomeTypeOK
    <3>5. first'[token'] # "pending"
      BY <1>1, <3>2 DEF AttemptTypeOK
    <3>6. AttemptInv' /\ DeliveryInv' /\ OwedInv' /\ DraftKept'
      BY <1>1, <2>1, <2>2, <3>5 DEF AttemptInv, DeliveryInv, OwedInv, DraftKept, NoAttempt
    <3>7. QueueInv'
      BY <2>2, <3>1, <3>2, QueueTyped DEF QueueInv, storeVars, NoAttempt, HomeTypeOK
    <3> QED
      BY <1>2, <3>3, <3>4, <3>6, <3>7
  <2> QED
    BY <2>4, <2>5
<1> QED
  BY <1>3, <1>4

LEMMA StepCleared == DraftInv /\ Cleared => DraftInv'
<1> SUFFICES ASSUME DraftInv, Cleared PROVE DraftInv'
  OBVIOUS
<1> USE DraftAssumption DEF DraftInv, DraftTypeOK
<1>1. /\ Shifted /\ writes[1].then = "cleared"
      /\ current' \in Drafts /\ disk' \in Drafts /\ writes' \in Seq(Entries)
  BY LandedShifts DEF Cleared, Shifted
<1>2. /\ Emptied /\ off' = IF HomeShown THEN creating \/ delivery ELSE off
      /\ UNCHANGED <<selected, ready, composer, clearSoon, creating, delivery, timer, attempt,
                     cooling, first, reloads, owed>>
  BY DEF Cleared, PostHomeState
<1>3. /\ homeDraft' = Empty /\ token' \in Tokens /\ token' < nextToken'
      /\ nextToken' \in 2..(MaxToken + 1) /\ nextToken <= nextToken'
      /\ nextToken' = nextToken + 1 /\ attempt.draft.token # token'
      /\ \A k \in Tokens : first[k] = "pending" => k < nextToken' /\ k # token'
  BY <1>2, EmptiedFresh
\* Nothing is owed while a clearing write is under way.
<1>4. 1 \in 1..Len(writes) /\ writes[1].draft = NoDraft /\ disk' = NoDraft
  BY <1>1 DEF Shifted, QueueInv
<1>5. owed = {} /\ owed' = {}
  BY <1>1, <1>2, <1>4 DEF OwedInv, DraftKept, Shifted, NoDraft, HomeTypeOK, Tokens
<1>6. SurfaceTypeOK'
  BY <1>2 DEF SurfaceTypeOK
<1>7. HomeTypeOK' /\ StoreTypeOK' /\ AttemptTypeOK'
  BY <1>1, <1>2, <1>3 DEF HomeTypeOK, StoreTypeOK, AttemptTypeOK
<1>8. TokensInv'
  <2>1. current.token \in Int /\ attempt.draft.token \in Int
    BY DEF StoreTypeOK, AttemptTypeOK, Attempts, Drafts, NoDraft, Tokens
  <2> QED
    BY <1>1, <1>2, <1>3, <1>4, <2>1 DEF TokensInv, Shifted, NoDraft, HomeTypeOK
<1>9. AttemptInv' /\ OwedInv' /\ DraftKept'
  BY <1>2, <1>3, <1>5 DEF AttemptInv, OwedInv, DraftKept
<1>10. DeliveryInv'
  BY <1>2, <1>3 DEF DeliveryInv, HomeShown
<1>11. QueueInv'
  BY <1>1, <1>2, <1>3, QueueTyped, QueueKeptByLanding DEF HomeTypeOK
<1> QED
  BY <1>6, <1>7, <1>8, <1>9, <1>10, <1>11

LEMMA StepReload == DraftInv /\ Reload => DraftInv'
<1> SUFFICES ASSUME DraftInv, Reload PROVE DraftInv'
  OBVIOUS
<1> USE DraftAssumption DEF DraftInv, DraftTypeOK
<1>1. /\ reloads < MaxReloads /\ nextToken <= MaxToken /\ reloads' = reloads + 1
      /\ selected' = FALSE /\ ready' = FALSE /\ composer' = Empty /\ off' = FALSE
      /\ clearSoon' = FALSE /\ disk' = disk
      /\ creating' = FALSE /\ delivery' = FALSE /\ timer' = FALSE
      /\ attempt' = NoAttempt /\ cooling' = FALSE /\ first' = [k \in Tokens |-> "none"]
  BY DEF Reload, Rerendered
\* What is awaited is a deletion at most, of a draft that is owed no more.
<1>2. /\ Len(writes') \in {0, 1} /\ DOMAIN writes' = 1..Len(writes') /\ writes' \in Seq(Entries)
      /\ \A i \in 1..Len(writes') : writes'[i] = [draft |-> NoDraft, then |-> "nothing"]
      /\ Len(writes') = 1 => owed' = owed \ {disk}
      /\ current' \in {NoDraft, disk} /\ owed' \subseteq owed
  <2>1. NoDraft \in Drafts /\ [draft |-> NoDraft, then |-> "nothing"] \in Entries
    BY DEF Drafts, Entries
  <2>2. CASE writes' = <<>> /\ owed' = owed /\ current' \in {NoDraft, disk}
    BY <2>2
  <2>3. CASE /\ writes' = <<[draft |-> NoDraft, then |-> "nothing"]>>
             /\ owed' = owed \ {disk} /\ current' = NoDraft
    BY <2>1, <2>3
  <2> QED
    BY <2>2, <2>3 DEF Reload, ReadBack, Expired, NothingStored
<1>3. \/ /\ disk = NoDraft \/ owed' = owed \ {disk}
         /\ homeDraft' = Empty /\ token' = nextToken /\ nextToken' = nextToken + 1
      \/ /\ disk # NoDraft /\ writes' = <<>>
         /\ homeDraft' = disk.text /\ token' = disk.token /\ nextToken' = nextToken
  BY DEF Reload, ReadBack, Expired, NothingStored, Emptied
<1>4. /\ token' \in Tokens /\ token' < nextToken' /\ nextToken' \in 2..(MaxToken + 1)
      /\ disk.token < nextToken' /\ homeDraft' \in Texts \cup {Empty} /\ 0 < nextToken'
  <2>1. disk.token \in Int /\ disk.token < nextToken /\ nextToken \in 2..(MaxToken + 1)
    BY DEF StoreTypeOK, TokensInv, Drafts, NoDraft, HomeTypeOK, Tokens
  <2>2. CASE homeDraft' = Empty /\ token' = nextToken /\ nextToken' = nextToken + 1
    BY <1>1, <2>1, <2>2 DEF Tokens
  <2>3. CASE /\ disk # NoDraft /\ homeDraft' = disk.text /\ token' = disk.token
             /\ nextToken' = nextToken
    <3>1. disk.token \in Tokens /\ disk.text \in Texts
      BY <2>3 DEF StoreTypeOK, Drafts
    <3> QED
      BY <2>1, <2>3, <3>1
  <2> QED
    BY <1>3, <2>2, <2>3
<1>5. SurfaceTypeOK' /\ HomeTypeOK'
  <2>1. reloads' \in 0..MaxReloads
    BY <1>1 DEF HomeTypeOK
  <2> QED
    BY <1>1, <1>4, <2>1 DEF SurfaceTypeOK, HomeTypeOK
<1>6. StoreTypeOK'
  BY <1>1, <1>2 DEF StoreTypeOK, Drafts
<1>7. AttemptTypeOK'
  BY <1>1 DEF AttemptTypeOK, Attempts, NoAttempt, Drafts
<1>8. TokensInv'
  BY <1>1, <1>2, <1>4 DEF TokensInv, NoAttempt, NoDraft
<1>9. AttemptInv' /\ QueueInv' /\ DeliveryInv'
  BY <1>1, <1>2, <1>4 DEF AttemptInv, QueueInv, DeliveryInv, NoAttempt, NoDraft, HomeShown
\* An owed draft is the stored one; when that has gone nothing is owed.
<1>10. OwedInv' /\ DraftKept'
  <2>1. \A d \in owed : disk = d /\ d # NoDraft /\ d.text \in Texts
    BY DEF DraftKept, OwedInv, NoDraft, HomeTypeOK, Tokens
  <2>2. CASE owed' = {}
    BY <1>1, <2>2 DEF OwedInv, DraftKept
  <2>3. CASE owed' # {}
    <3>1. disk # NoDraft /\ owed' # owed \ {disk}
      BY <1>2, <2>1, <2>3
    <3>2. writes' = <<>> /\ homeDraft' = disk.text /\ token' = disk.token
      BY <1>3, <3>1
    <3> QED
      BY <1>1, <1>2, <2>1, <3>2 DEF OwedInv, DraftKept, HomeShown
  <2> QED
    BY <2>2, <2>3
<1> QED
  BY <1>5, <1>6, <1>7, <1>8, <1>9, <1>10

-----------------------------------------------------------------------------
(* The invariant and what follows from it. *)

\* At the start home is empty and nothing is stored.
LEMMA InitDraft == DraftInit => DraftInv
<1> SUFFICES ASSUME DraftInit PROVE DraftInv
  OBVIOUS
<1> USE DraftAssumption DEF DraftInit
<1>1. SurfaceTypeOK /\ HomeTypeOK
  <2>1. token \in Tokens /\ token < nextToken /\ nextToken \in 2..(MaxToken + 1)
    BY DEF Tokens
  <2>2. reloads \in 0..MaxReloads
    OBVIOUS
  <2> QED
    BY <2>1, <2>2 DEF SurfaceTypeOK, HomeTypeOK
<1>2. StoreTypeOK /\ AttemptTypeOK
  BY DEF StoreTypeOK, AttemptTypeOK, Attempts, NoAttempt, Drafts, Entries
<1>3. TokensInv /\ AttemptInv /\ QueueInv
  BY DEF TokensInv, AttemptInv, QueueInv, NoAttempt, NoDraft
<1>4. DeliveryInv /\ OwedInv /\ DraftKept
  BY DEF DeliveryInv, OwedInv, DraftKept, NoAttempt, HomeShown, Tokens
<1> QED
  BY <1>1, <1>2, <1>3, <1>4 DEF DraftInv, DraftTypeOK

\* Every action keeps the invariant.
LEMMA StepDraft == DraftInv /\ [DraftNext]_draftVars => DraftInv'
  BY StepElsewhere, StepTimerFires, StepWriteLands, StepShowHomeCleared, StepSubmit, StepSaved,
     StepAccepted, StepCleared, StepReload
  DEF DraftNext

\* In every reachable state it holds.
LEMMA DraftInvariance == DraftSpec => []DraftInv
  BY InitDraft, StepDraft, PTL DEF DraftSpec

\* Every reachable state of the home composer, its store and its attempt has its type.
THEOREM DraftTypeSafety == DraftSpec => []DraftTypeOK
  BY DraftInvariance, PTL DEF DraftInv

\* For any texts, tokens, queued writes and crashes of the extension host: a draft that
\* was stored to be sent stays stored until OMP accepts it, the user gives it up or a
\* restart finds it more than a day old (acknowledgeDraft, PendingDraftStore.clear,
\* sanitize).
THEOREM DraftsKept == DraftSpec => []DraftKept
  BY DraftInvariance, PTL DEF DraftInv

-----------------------------------------------------------------------------
(* Provisioning. *)

\* Where a provision stands says how far the worktree has come: nothing is there
\* before "worktree add", all of it is once the reads are done, nobody has begun to
\* lay anything when the cleanup runs, and the directory is gone when it deletes
\* the branch.
StageInv ==
  /\ step \in {"fetch", "resolve", "add"} =>
       dir = "none" /\ branch = Gone /\ ~laid /\ commits = 0
  /\ step \in {"verify", "validate"} => dir = "whole" /\ ~laid
  /\ step \in {"bootstrap", "marker"} => dir = "whole"
  /\ step \in {"check", "remove", "unref"} => ~laid
  /\ step = "unref" => dir = "none"

ProvisionInv == ProvisionTypeOK /\ StageInv /\ WorkKept

\* At the start nothing is made.
LEMMA InitProvision == ProvisionInit => ProvisionInv
<1> SUFFICES ASSUME ProvisionInit PROVE ProvisionInv
  OBVIOUS
<1> USE ProvisionAssumption DEF ProvisionInit, Gone
<1>1. step \in Running /\ branch \in Gone..MaxCommits /\ commits \in 0..MaxCommits
  BY DEF Running
<1>2. unread \subseteq Reads /\ unread = {}
  OBVIOUS
<1>3. ProvisionTypeOK
  BY <1>1, <1>2 DEF ProvisionTypeOK
<1>4. StageInv /\ WorkKept
  BY DEF StageInv, WorkKept
<1> QED
  BY <1>3, <1>4 DEF ProvisionInv

\* Every action keeps the invariant.
LEMMA StepProvision == ProvisionInv /\ [ProvisionNext]_provisionVars => ProvisionInv'
<1> SUFFICES ASSUME ProvisionInv, [ProvisionNext]_provisionVars
             PROVE  ProvisionInv'
  OBVIOUS
<1> USE ProvisionAssumption
     DEF ProvisionInv, ProvisionTypeOK, StageInv, WorkKept, Running, Outcomes, Reads, Gone
<1>1. CASE GitStep
  BY <1>1 DEF GitStep, Fails, MadeOnDisk, gitVars, checkVars, othersVars
<1>2. CASE Add
  <2>1. branch' \in Gone..MaxCommits /\ step' \in Running \cup Outcomes /\ unread' \subseteq Reads
    BY <1>2 DEF Add, Fails, MadeOnDisk, othersVars
  <2>2. ProvisionTypeOK'
    BY <1>2, <2>1 DEF Add, Fails, MadeOnDisk, othersVars
  <2>3. StageInv'
    BY <1>2 DEF Add, Fails, MadeOnDisk, othersVars
  <2>4. WorkKept'
    BY <1>2 DEF Add, Fails, MadeOnDisk, othersVars
  <2> QED
    BY <2>2, <2>3, <2>4
<1>3. CASE \E read \in Reads : Read(read)
  BY <1>3 DEF Read, Shows, gitVars, othersVars
<1>4. CASE ReadFails
  BY <1>4 DEF ReadFails, Fails, MadeOnDisk, gitVars, othersVars
<1>5. CASE Verified
  BY <1>5 DEF Verified, Fails, MadeOnDisk, gitVars, checkVars, othersVars
<1>6. CASE Validated
  <2>1. ProvisionTypeOK'
    BY <1>6 DEF Validated, Fails, MadeOnDisk, gitVars, checkVars, othersVars
  <2>2. StageInv'
    BY <1>6 DEF Validated, Fails, MadeOnDisk, gitVars, checkVars, othersVars
  <2>3. WorkKept'
    BY <1>6 DEF Validated, Fails, MadeOnDisk, gitVars, checkVars, othersVars
  <2> QED
    BY <2>1, <2>2, <2>3
<1>7. CASE Bootstrapped
  BY <1>7 DEF Bootstrapped, Fails, MadeOnDisk, checkVars, othersVars
<1>8. CASE Marked
  BY <1>8 DEF Marked, Fails, MadeOnDisk, gitVars, checkVars, othersVars
<1>9. CASE Checked
  BY <1>9 DEF Checked, gitVars, checkVars, othersVars
<1>10. CASE RemoveWorktree
  BY <1>10 DEF RemoveWorktree, checkVars, othersVars
<1>11. CASE Unref
  <2>1. branch' \in Gone..MaxCommits /\ step' \in Outcomes
    BY <1>11 DEF Unref
  <2>2. ProvisionTypeOK'
    BY <1>11, <2>1 DEF Unref, checkVars, othersVars
  <2>3. StageInv'
    BY <1>11 DEF Unref, checkVars, othersVars
  <2>4. WorkKept'
    BY <1>11 DEF Unref, checkVars, othersVars
  <2> QED
    BY <2>2, <2>3, <2>4
<1>12. CASE SomeoneWorks
  <2>1. ProvisionTypeOK'
    BY <1>12 DEF SomeoneWorks, checkVars
  <2>2. StageInv'
    BY <1>12 DEF SomeoneWorks, checkVars
  <2>3. WorkKept'
    BY <1>12 DEF SomeoneWorks, checkVars
  <2> QED
    BY <2>1, <2>2, <2>3
<1>13. CASE HostKilled
  BY <1>13 DEF HostKilled, gitVars, othersVars
<1>14. CASE UNCHANGED provisionVars
  BY <1>14 DEF provisionVars, gitVars, checkVars, othersVars
<1> QED
  BY <1>1, <1>2, <1>3, <1>4, <1>5, <1>6, <1>7, <1>8, <1>9, <1>10, <1>11, <1>12, <1>13,
     <1>14 DEF ProvisionNext

\* In every reachable state it holds.
LEMMA ProvisionInvariance == ProvisionSpec => []ProvisionInv
  BY InitProvision, StepProvision, PTL DEF ProvisionSpec

\* Every reachable state of a provision has its type.
THEOREM ProvisionTypeSafety == ProvisionSpec => []ProvisionTypeOK
  BY ProvisionInvariance, PTL DEF ProvisionInv

\* However many commits others make and wherever they, a failing Git command or the
\* end of the window cut in: a failed provision deletes nobody's work, keeps a
\* worktree it has begun to lay out, and leaves nothing behind that nobody touched
\* (provisionGitWorktree, cleanupFailedProvision).
THEOREM ProvisionKeepsWork == ProvisionSpec => []WorkKept
  BY ProvisionInvariance, PTL DEF ProvisionInv

-----------------------------------------------------------------------------
(* All four. *)

\* The four share no variable: a behaviour of all is one of each.
LEMMA PartsApart ==
  OpeningSpec => DraftSpec /\ ProvisionSpec /\ ViewSpec /\ TurnSpec
<1>1. OpeningInit => DraftInit /\ ProvisionInit /\ ViewInit /\ TurnInit
  BY DEF OpeningInit
<1>2. [OpeningNext]_OpeningVars =>
        /\ [DraftNext]_draftVars /\ [ProvisionNext]_provisionVars
        /\ [ViewNext]_viewVars /\ [TurnNext]_turnVars
  BY DEF OpeningNext, OpeningVars, DraftPart, ProvisionPart, ViewPart, TurnPart
<1> QED
  BY <1>1, <1>2, PTL DEF OpeningSpec, DraftSpec, ProvisionSpec, ViewSpec, TurnSpec

\* Whatever is opened, every state of the four components has its type.
THEOREM OpeningTypeSafety == OpeningSpec => []TypeOK
  BY PartsApart, DraftTypeSafety, ProvisionTypeSafety, ViewTypeSafety, TypeSafety, PTL DEF TypeOK
=============================================================================
