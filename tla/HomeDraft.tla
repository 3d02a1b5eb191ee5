------------------------------- MODULE HomeDraft -------------------------------
(***************************************************************************)
(* The draft of a new chat, from the sidebar's home composer to OMP:       *)
(* sidebar/SessionSidebarProvider.ts with the composer of                  *)
(* sidebar/webview.ts, the durable copy of sidebar/PendingDraftStore.ts    *)
(* and the gate of sessionCreationGate.ts.  Creating the chat and what its *)
(* host does with the first prompt are SessionManager's and                *)
(* RpcSessionHost's: here they have any outcome.                           *)
(*                                                                         *)
(* A webview's message is handled, and a post shown, when it is made.  The *)
(* user types once the composer shows the state of the host.  The          *)
(* workspace state takes every write it is given.                          *)
(***************************************************************************)
EXTENDS Integers, Sequences

CONSTANTS Texts,     \* what the user may write
          Large,     \* what of it does not fit a frame to OMP: promptFrameFits
          Empty,     \* the empty draft
          MaxToken,  \* bound on draft tokens
          MaxWrites, \* bound on writes under way before the user goes on
          MaxReloads \* bound on crashes and reloads of the extension host

ASSUME DraftAssumption ==
  /\ Large \subseteq Texts /\ Empty \notin Texts
  /\ MaxToken \in Nat \ {0} /\ MaxWrites \in Nat /\ MaxReloads \in Nat

Tokens == 1..MaxToken
NoDraft == [token |-> 0, text |-> Empty]
Drafts == {NoDraft} \cup [token : Tokens, text : Texts \ Large]
Entries == [draft : Drafts, then : {"nothing", "saved", "cleared"}]

VARIABLES
  selected,  \* a chat is shown instead of home: #router.selected
  ready,     \* home has reported "ready"
  composer,  \* the text home shows
  off,       \* home's state.creating: no typing, no sending
  clearSoon, \* #focusQueue holds an intent to clear
  homeDraft, creating, token,
  delivery,  \* #pendingDelivery
  timer,     \* #draftTimer
  current,   \* PendingDraftStore.#current
  writes,    \* #writeQueue: drafts, each with what awaits it
  disk,      \* the workspace state
  attempt,   \* #createSession: the draft it is about, and whether it is at its save
  cooling,   \* the gate's cooldown runs
  first,     \* first[k]: the first prompt of the chat created for token k
  nextToken, reloads,
  owed       \* drafts that were stored for sending, neither accepted nor discarded

surfaceVars == <<selected, ready, composer, off, clearSoon>>
storeVars == <<current, writes, disk>>
homeVars == <<homeDraft, creating, token, delivery, timer>>
draftVars == <<surfaceVars, storeVars, homeVars, attempt, cooling, first, nextToken, reloads, owed>>

Attempts == [stage : {"none", "saving", "calling"}, draft : Drafts]
NoAttempt == [stage |-> "none", draft |-> NoDraft]

SurfaceTypeOK ==
  /\ selected \in BOOLEAN /\ ready \in BOOLEAN /\ off \in BOOLEAN /\ clearSoon \in BOOLEAN
  /\ composer \in Texts \cup {Empty}

HomeTypeOK ==
  /\ creating \in BOOLEAN /\ delivery \in BOOLEAN /\ timer \in BOOLEAN /\ cooling \in BOOLEAN
  /\ homeDraft \in Texts \cup {Empty}
  /\ token \in Tokens /\ token < nextToken /\ nextToken \in 2..(MaxToken + 1)
  /\ reloads \in 0..MaxReloads

StoreTypeOK ==
  /\ current \in Drafts /\ disk \in Drafts
  /\ writes \in Seq(Entries)
  /\ owed \subseteq Drafts

AttemptTypeOK ==
  /\ attempt \in Attempts /\ (attempt # NoAttempt <=> creating)
  /\ first \in [Tokens -> {"none", "pending", "delivered", "restored"}]

DraftTypeOK == SurfaceTypeOK /\ HomeTypeOK /\ StoreTypeOK /\ AttemptTypeOK

DraftInit ==
  /\ selected = FALSE /\ ready = FALSE /\ composer = Empty /\ off = FALSE
  /\ clearSoon = FALSE
  /\ homeDraft = Empty /\ creating = FALSE /\ token = 1 /\ delivery = FALSE /\ timer = FALSE
  /\ current = NoDraft /\ writes = <<>> /\ disk = NoDraft
  /\ attempt = NoAttempt /\ cooling = FALSE /\ first = [k \in Tokens |-> "none"]
  /\ nextToken = 2 /\ reloads = 0 /\ owed = {}

-----------------------------------------------------------------------------
(* PendingDraftStore. *)

Write(draft, then) ==
  /\ current' = draft
  /\ writes' = Append(writes, [draft |-> draft, then |-> then])
  /\ UNCHANGED disk

\* save: a draft too large for a frame is refused, and what is stored stays.
Save(k, text, then) ==
  IF text \in Large THEN UNCHANGED storeVars ELSE Write([token |-> k, text |-> text], then)

\* clear: only the draft with this token goes.
Clear(k, then) == IF current.token = k THEN Write(NoDraft, then) ELSE UNCHANGED storeVars

Landed == disk' = Head(writes).draft /\ writes' = Tail(writes) /\ UNCHANGED current

\* A write nothing awaits lands.
WriteLands ==
  /\ writes # <<>> /\ Head(writes).then = "nothing"
  /\ Landed
  /\ UNCHANGED <<surfaceVars, homeVars, attempt, cooling, first, nextToken, reloads, owed>>

-----------------------------------------------------------------------------
(* Home and its composer. *)

HomeShown == ready /\ ~selected

\* #postHomeState.
PostHomeState(busy) == off' = IF HomeShown THEN busy ELSE off

\* The user gave up the draft with the current token.
Discard == owed' = {d \in owed : d.token # token}

\* draftChanged, and #scheduleDraftPersistence.  A text beyond the bound on messages does
\* not reach the host at all.
Type(text) ==
  /\ HomeShown /\ ~off /\ text # composer /\ Len(writes) < MaxWrites
  /\ composer' = text
  /\ \/ homeDraft' = text /\ timer' = TRUE
     \/ text \in Large /\ UNCHANGED <<homeDraft, timer>>
  /\ Discard
  /\ UNCHANGED <<selected, ready, off, clearSoon, storeVars, creating, token, delivery,
                 attempt, cooling, first, nextToken, reloads>>

\* newDraft by the buttons of home: the host learns of the images alone.
NewDraft ==
  /\ HomeShown /\ ~off /\ composer # Empty /\ Len(writes) < MaxWrites
  /\ composer' = Empty /\ timer' = TRUE
  /\ Discard
  /\ UNCHANGED <<selected, ready, off, clearSoon, storeVars, homeDraft, creating, token,
                 delivery, attempt, cooling, first, nextToken, reloads>>

\* #persistDraftNow, by the timer.
TimerFires ==
  /\ timer
  /\ timer' = FALSE
  /\ IF homeDraft = Empty THEN Clear(token, "nothing") ELSE Save(token, homeDraft, "nothing")
  /\ UNCHANGED <<surfaceVars, homeDraft, creating, token, delivery, attempt, cooling, first,
                 nextToken, reloads, owed>>

\* Home reports "ready": state, draft and a pending intent are posted.
HomeReady ==
  /\ ~ready /\ ~selected
  /\ ready' = TRUE /\ clearSoon' = FALSE
  /\ off' = (creating \/ delivery)
  /\ composer' = IF clearSoon /\ ~off' THEN Empty ELSE homeDraft
  /\ timer' = (timer \/ (clearSoon /\ ~off'))
  /\ UNCHANGED <<selected, storeVars, homeDraft, creating, token, delivery, attempt, cooling,
                 first, nextToken, reloads, owed>>

\* The surface is rendered anew, or the view is gone.
Rerendered == ready' = FALSE /\ composer' = Empty /\ off' = FALSE

ViewGone ==
  /\ ready
  /\ Rerendered
  /\ UNCHANGED <<selected, clearSoon, storeVars, homeVars, attempt, cooling, first, nextToken,
                 reloads, owed>>

\* showSession, of a chat that is open.
ShowSession ==
  /\ ~selected /\ \E k \in Tokens : first[k] # "none"
  /\ selected' = TRUE /\ Rerendered
  /\ UNCHANGED <<clearSoon, storeVars, homeVars, attempt, cooling, first, nextToken, reloads,
                 owed>>

\* showHome(false).
ShowHome ==
  /\ selected
  /\ selected' = FALSE /\ Rerendered /\ clearSoon' = FALSE
  /\ UNCHANGED <<storeVars, homeVars, attempt, cooling, first, nextToken, reloads, owed>>

\* showHome(true), the New Session command: the draft is discarded, its durable copy
\* too, and the next one has another token.
ShowHomeCleared ==
  /\ nextToken <= MaxToken /\ Len(writes) < MaxWrites
  /\ selected' = FALSE
  /\ IF selected \/ ~ready
       THEN Rerendered /\ clearSoon' = TRUE
       ELSE /\ composer' = IF off THEN composer ELSE Empty
            /\ clearSoon' = FALSE /\ UNCHANGED <<ready, off>>
  /\ homeDraft' = Empty /\ delivery' = FALSE
  /\ token' = nextToken /\ nextToken' = nextToken + 1
  /\ timer' = (timer \/ (HomeShown /\ ~off))
  /\ Clear(token, "nothing")
  /\ Discard
  /\ UNCHANGED <<creating, attempt, cooling, first, reloads>>

-----------------------------------------------------------------------------
(* Sending. *)

\* submit of home, which refuses what is too large, then #createSession up to its save.
Submit ==
  /\ HomeShown /\ ~off /\ composer \in Texts \ Large /\ Len(writes) < MaxWrites
  /\ off' = TRUE
  /\ IF creating THEN UNCHANGED <<homeDraft, creating, attempt, storeVars>>
     ELSE /\ creating' = TRUE /\ homeDraft' = composer
          /\ attempt' = [stage |-> "saving", draft |-> [token |-> token, text |-> composer]]
          /\ Save(token, composer, "saved")
  /\ UNCHANGED <<selected, ready, composer, clearSoon, token, delivery, timer, cooling, first,
                 nextToken, reloads, owed>>

\* The attempt ends without a chat: sessionCreationFailed, and the state.
NotCreated ==
  /\ attempt' = NoAttempt /\ creating' = FALSE /\ delivery' = FALSE
  /\ composer' = IF HomeShown THEN attempt.draft.text ELSE composer
  /\ PostHomeState(FALSE)

\* The save has landed.  createSession is called, and the gate lets it pass unless it
\* cools down; a joined attempt cannot be, as #creating keeps others out.
Saved ==
  /\ writes # <<>> /\ Head(writes).then = "saved"
  /\ Landed
  /\ owed' = IF attempt.draft.token = token THEN owed \cup {attempt.draft} ELSE owed
  /\ IF cooling THEN NotCreated
     ELSE /\ attempt' = [attempt EXCEPT !.stage = "calling"]
          /\ delivery' = TRUE /\ PostHomeState(TRUE)
          /\ UNCHANGED <<composer, creating>>
  /\ UNCHANGED <<selected, ready, clearSoon, homeDraft, token, timer, cooling, first,
                 nextToken, reloads>>

\* The manager has made no chat: refused, failed or cancelled.
CreationFails ==
  /\ attempt.stage = "calling"
  /\ NotCreated /\ cooling' = TRUE
  /\ UNCHANGED <<selected, ready, clearSoon, storeVars, homeDraft, token, timer, first,
                 nextToken, reloads, owed>>

\* The chat is there and shown.
ChatCreated ==
  /\ attempt.stage = "calling"
  /\ attempt' = NoAttempt /\ creating' = FALSE /\ cooling' = TRUE
  /\ first' = [first EXCEPT ![attempt.draft.token] = "pending"]
  /\ selected' = TRUE /\ Rerendered
  /\ UNCHANGED <<clearSoon, storeVars, homeDraft, token, delivery, timer, nextToken, reloads, owed>>

CooledDown ==
  /\ cooling
  /\ cooling' = FALSE
  /\ UNCHANGED <<surfaceVars, storeVars, homeVars, attempt, first, nextToken, reloads, owed>>

-----------------------------------------------------------------------------
(* acknowledgeDraft, by the host of the chat. *)

\* Mutated form of Concerns: any acknowledgement is about the draft there is.
ConcernsAny(k) == TRUE
Concerns(k) == k = token

\* The durable copy is gone, so is what home holds, and the next draft has another
\* token, even if home has one already.
Emptied ==
  /\ nextToken <= MaxToken
  /\ homeDraft' = Empty /\ token' = nextToken /\ nextToken' = nextToken + 1

\* OMP has accepted the first prompt.  The timer, of 250 ms, has fired long before.
Accepted(k) ==
  /\ first[k] = "pending" /\ ~timer
  /\ first' = [first EXCEPT ![k] = "delivered"]
  /\ owed' = {d \in owed : d.token # k}
  /\ IF ~Concerns(k) THEN UNCHANGED <<storeVars, off, homeDraft, token, delivery, nextToken>>
     ELSE /\ Clear(k, "cleared") /\ delivery' = FALSE
          /\ IF current.token = k THEN UNCHANGED <<off, homeDraft, token, nextToken>>
             ELSE Emptied /\ PostHomeState(creating)
  /\ UNCHANGED <<selected, ready, composer, clearSoon, creating, timer, attempt, cooling, reloads>>

Cleared ==
  /\ writes # <<>> /\ Head(writes).then = "cleared"
  /\ Landed
  /\ Emptied /\ PostHomeState(creating \/ delivery)
  /\ UNCHANGED <<selected, ready, composer, clearSoon, creating, delivery, timer, attempt,
                 cooling, first, reloads, owed>>

\* The first prompt went back to the chat's composer, or the chat was closed.
GivenBack(k) ==
  /\ first[k] = "pending"
  /\ first' = [first EXCEPT ![k] = "restored"]
  /\ IF Concerns(k) THEN delivery' = FALSE /\ PostHomeState(creating)
     ELSE UNCHANGED <<delivery, off>>
  /\ UNCHANGED <<selected, ready, composer, clearSoon, storeVars, homeDraft, creating, token,
                 timer, attempt, cooling, nextToken, reloads, owed>>

-----------------------------------------------------------------------------
\* Home holds the stored draft, if there is one and sanitize takes it.
ReadBack ==
  /\ disk # NoDraft
  /\ current' = disk /\ homeDraft' = disk.text /\ token' = disk.token
  /\ writes' = <<>> /\ UNCHANGED <<nextToken, owed>>

\* It is older than MAX_AGE_MS, or from the future: it is deleted from the store, too.
Expired ==
  /\ disk # NoDraft
  /\ Emptied /\ current' = NoDraft /\ owed' = owed \ {disk}
  /\ writes' = <<[draft |-> NoDraft, then |-> "nothing"]>>

NothingStored ==
  /\ disk = NoDraft
  /\ Emptied /\ current' = NoDraft /\ writes' = <<>> /\ UNCHANGED owed

\* The extension host ends and starts again: the constructors read what is stored.
Reload ==
  /\ reloads < MaxReloads /\ nextToken <= MaxToken
  /\ reloads' = reloads + 1
  /\ selected' = FALSE /\ Rerendered /\ clearSoon' = FALSE
  /\ ReadBack \/ Expired \/ NothingStored
  /\ creating' = FALSE /\ delivery' = FALSE /\ timer' = FALSE
  /\ attempt' = NoAttempt /\ cooling' = FALSE /\ first' = [k \in Tokens |-> "none"]
  /\ UNCHANGED disk

DraftNext ==
  \/ \E text \in Texts \cup {Empty} : Type(text)
  \/ NewDraft \/ TimerFires \/ WriteLands
  \/ HomeReady \/ ViewGone \/ ShowSession \/ ShowHome \/ ShowHomeCleared
  \/ Submit \/ Saved \/ CreationFails \/ ChatCreated \/ CooledDown
  \/ \E k \in Tokens : Accepted(k) \/ GivenBack(k)
  \/ Cleared \/ Reload

DraftSpec == DraftInit /\ [][DraftNext]_draftVars

-----------------------------------------------------------------------------
\* A draft that was stored to be sent stays stored until OMP accepts it, the user gives
\* it up or a restart finds it more than a day old, whatever chats created before say of
\* theirs, and whether the chat is refused, fails or is closed: a crash within the day
\* gives it back (acknowledgeDraft, PendingDraftStore.clear and sanitize).  The day is
\* the code's: README.md:112, "remain in bounded workspace storage until OMP accepts
\* them", and CHANGELOG.md:55 set no such limit.
DraftKept ==
  \A d \in owed : disk = d /\ \A i \in DOMAIN writes : writes[i].draft = d
===============================================================================
