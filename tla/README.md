# Verification of oh-my-pi-vscode-sessions

TLA+ models of the OMP Sessions extension for VS Code, the TLC runs that check them and the
TLAPS proofs about them. Paths are those of the repository; line numbers are in `PROJECT.json`
(`map`).

The extension shows chats with OMP, an agent that runs as a child process and speaks a framed
protocol (RPC) over its pipes. A chat works in a git worktree, usually one the extension made
for it, and holds that worktree's writer lease against the chats of all other windows. Windows
are processes (extension hosts) that share the file system; inside one everything is single
threaded JavaScript, where other handlers run at every `await`.

## Inventory

| Component | State | Operations | Correct when |
|---|---|---|---|
| Writer lease (`worktreeLease.ts`) | one record file per owner, in a directory all windows share | `acquireWriterLease`, `release` | one writer per worktree whatever crashes; nothing readable as alive or unreadable is taken over; dead owners do not block |
| Ephemeral worktree (`ephemeralWorktree.ts`, parts of `SessionManager.ts`, `RpcSessionHost.ts`) | marker file with a phase, the set `#ephemeralWorktrees`, the first-prompt flags and their queue | provision, reserve, claim, release, cleanup at close, recovery of orphans | no worktree with somebody's work or process is removed; unused ones are |
| RPC host (`rpc/RpcSessionHost.ts`) | the current runtime, parity flags, attachments, teardown barrier, restart and dispose promises, files to resume | attach, detach, `ready`, prompts, restart, dispose, frames of the runtime | one OMP process per chat, parity before anything takes effect, every prompt taken or returned once, restart and disposal end |
| RPC process (`rpc/RpcProcess.ts`) | child process, table of pending requests, decoder, output queue | start, request, notify, dispose | every request settles once; dispose reaps the process tree |
| Teardown barrier (`rpc/teardownBarrier.ts`) | a chain of promises | enqueue, wait | no start before all teardowns; rejects for good after a failed one |
| Prompt ownership (`rpc/initialPromptOwnership.ts`) | one of four states | deliver, restore, settle | delivered or given back, never both |
| Worktree provisioning (`dzialkiWorktree.ts`) | how far a new worktree has come, whether its bootstrap began | fetch, add, verify, bootstrap, mark, clean up | a failed one leaves nothing, and deletes nothing of anybody's |
| Prompt lifecycle and watchdogs (`rpc/promptLifecycle.ts`, `responseStartWatchdog.ts`, `turnWatchdog.ts`) | drafts in flight, two timers | begin, fail, complete, end of turn; start, observe, timeout, recover | a draft is kept until OMP dealt with it; nothing that works is aborted; a turn that never ends is reported |
| View replay (`rpc/RpcViewReplayBuffer.ts`) | captured frames, open UI requests | begin, capture, boundary, drain | a reopened view shows every frame once and in order |
| Creation gate (`sessionCreationGate.ts`) | a flight, a cooldown | run, dispose | one chat for one request to send, and its draft is not lost |
| Session manager (`sessions/SessionManager.ts`, `loopHandoff.ts`) | open chats, creation queue, resume and handoff flights | new, open, handoff, close, shutdown | at most six live runtimes, no chat opened twice, shutdown misses none |
| Recent sessions (`sessions/RecentSessionStore.ts`) | a bounded list, a write queue | upsert, remove, prune | what is stored last is what was asked last |
| Sidebar (`sidebar/*.ts`) | the draft with its token, its durable copy and the queue of writes, the surface shown | type, submit, save, clear, acknowledge, show home or a chat | a draft survives until OMP takes it or the user gives it up |
| Frame decoder (`rpc/frameDecoder.ts`) | a partial line, a partial chunk sequence, the negotiated version | push, negotiate | what OMP sent, in order, or an error |
| Chat webview (`rpc/webviewState.ts`, `rpc/webview.ts`) | the turns, requests and status shown | one reducer, input handlers | shows what OMP said, whenever it was opened |
| Terminal transport (`terminal/*.ts`) | a pty and its replay buffer | the older transport | |
| Launch planning, messages, rendering | none worth a model | | |

How they interact: the sidebar stores a draft, passes the gate and asks the manager for a chat,
and is told when OMP has accepted the draft; the manager provisions a worktree, takes its lease,
opens a panel whose host owns the runtimes, and calls back into the ephemeral-worktree functions
at the first prompt; at close it disposes the host, then cleans up, then releases the lease.
Inside a chat, the host writes requests to OMP and handles what comes out of the decoder: it
settles requests, moves drafts, feeds the two watchdogs, and posts each frame to the view or,
while the view is being brought up to date, to the replay buffer. Two components of different
windows meet only in the file system, in lease records and markers.

What is hard here: steps of windows that interleave in the file system; windows killed at any
moment; host handlers that go on after an `await` with what they read before; results of a
runtime that has been replaced; promises nobody settles; answers that come after the timeout
which gave up on them; views that come and go while frames arrive. `PROJECT.json` lists each
place under `hazards`, with the properties that watch it, or why there is none yet.

## Modules

    WriterLock          what a lease promises: a lock
      ^ implemented by
    WriterLease         the protocol over files      <- MCWriterLease (TLC)
                                                     <- WriterLeaseProofs (TLAPS)
    RpcSessionHost      the runtimes of one chat     (checked directly)
    EphemeralWorktree   one worktree's ownership     <- MCEphemeralWorktree (TLC)
    SessionManager      the chats of one window      <- MCSessionManager (TLC)
    FrameDecoder        one decoder, as operators
      PromptDelivery    prompts, drafts, timeouts    <- MCChat (TLC)
    WebviewState        one view, as operators
    ViewReplay          the replay buffer, likewise
      ChatView          a view that comes and goes   \
    HomeDraft           the draft of a new chat       | <- MCOpening (TLC)
    Provisioning        a new worktree that may fail  |
    StuckTurn           a turn that does not end     /

    RpcSessionHost, EphemeralWorktree, SessionManager, PromptDelivery,
    ChatView, StuckTurn                              <- <module>Proofs (TLAPS)
    HomeDraft, Provisioning, MCOpening               <- OpeningProofs (TLAPS)

`EphemeralWorktree` uses the lease as one variable, the lock that `WriterLease` is shown to
implement. `SessionManager` sees of a chat's host only that it reports and is disposed,
`RpcSessionHost`'s subject, and of a worktree only that it is there. `PromptDelivery`,
`ChatView` and `StuckTurn` look at one running chat from three sides; they begin where
`RpcSessionHost` has a runtime, and `HomeDraft` ends where the host has the first prompt.
Definitions called "Mutated form of ..." describe plausible bugs; nothing refers to them. They
show that a property can fail.

### WriterLease

State: `dir` is the set of record files; `host` the life of the extension hosts; `pc`, `names`,
`unread`, `records`, `blocked`, `verified`, `conflict`, `target` are where each attempt stands
in `acquireWriterLeaseAtRoot` and its local variables. Each `await` is a step: `Publish` (write
under a temporary name and link), `List` (readdir), `Read` (one file; `Promise.all` makes the
order free), then `FindDead`/`Reclaim` per record of a dead process, `Decide`, `Withdraw` on the
way out, and `ReadOwn`/`UnlinkOwn` for `release`. Judging consecutive records without an `await`
is one step (`FindDead`). File contents are abstract: a record is its name with valid or not;
`Legacy` is the single file of version 2.6, `Garbled` one that does not parse. `MaxFaults` file
operations fail.

Not modelled: canonical paths (two spellings of one root are one directory) and the hash in the
file name.

### RpcSessionHost

State: `rpc` is `#rpc`; `stage[p]` is where the continuation of the `#startRpc` that made
runtime p stands, which lives on when p was replaced; `queue`, `torn`, `broken` are the teardown
barrier; `restart` and `disposed` are where these two functions stand; `starters` are
`#startRpc` calls still waiting for the barrier. Five history variables (`validated`,
`uiHandled`, `prompts`, `late`, `chat`) say what happened, for the properties.

After a breach of the protocol (`ProtocolError`) the runtime disposes itself and answers no
request, and goes on sending: its frames are decoded and handled until its process is gone
(`SendsFrames`). Besides UI requests and what blocks parity these are the beginnings and ends of
turns, which set the status (`TurnFrame`); `late` records that one came after the breach.

Each stretch between two awaits is an action. Three kinds of awaits are told apart.
Continuations of a settled promise run before any other event (`Microtask`). A message to a
webview or a callback takes, with `SlowPosts` FALSE, no time in which something else happens;
with TRUE, anything may come between. A request to OMP takes as long as it likes. The flags name
what a run assumes:

| Constant | Meaning |
|---|---|
| `MaxViews`, `MaxRestarts` | how often a view is attached, and restart is called |
| `Resumed` | the chat is opened on an existing session |
| `Prompted` | the chat is created with a prompt |
| `SlowPosts` | other events come while a message is being posted |
| `ReapFails` | terminating a process tree may fail |
| `EarlyFrames` | OMP sends frames before its ready frame |

The chat is one with a Dzialki parity profile, the one with every check. Abstracted: what parity
compares (only its outcome), and what `PromptDelivery`, `ChatView` and `StuckTurn` are about:
prompts after the startup prompt, rehydration, watchdogs.

### EphemeralWorktree

State: `tree`, `pristine`, `marker`, `old` are the worktree and its marker file; `lease` its
holder; `session` the life of the chat in the manager; `reserved`, `accepted`, `transitions` the
first-prompt flags of the host and their queue; `pc`, `mine`, `sentTo` the local variables of
`sendPrompt` per prompt; `scan` the recovery in other windows. A queued transition is one step,
since nobody outside reads what it writes while it runs, except after a crash: `Kill` leaves a
half-written marker there. The cleanup script belongs to the opened repository and is external:
it removes a tree only when its marker is `unused` and it is clean.

### SessionManager

State: `panel[c]` is where chat c stands, from `#sessions.push` over `SessionPanel.shutdown` and
`#remove` until it leaves `#sessions`; `file`, `unused`, `tree` are its session file, its entry
in `#ephemeralWorktrees` and its worktree; `recent` is the recent list; `queue`, `head`,
`victim` are `#creationQueue` and where `#createSession` stands with its first request;
`flights` and `handoff` the two single-flight maps; `shutdown` and `closing` the progress of
`shutdown()`. `kept` is history: chats that had a conversation and were not removed by the user.
`#refresh` is part of each action whose code calls it.

A stretch between two awaits is an action; the many awaits that prepare a launch are one step
with two outcomes (`Push`, `PrepareFails`), since the serial queue lets no other creation in
between, and closing chats may still take steps before it. Which chat is active and the status
of each change at any moment, so every live chat with a session file may be suspended. `Fresh`
are the chats with a worktree of their own, `Stubborn` those whose disposal may fail,
`QueueBound` the number of requests waiting or running.

Not modelled: read-only and TUI chats, `#creationBlock`, the bound of the recent list, and
session files that disappear.

### FrameDecoder and PromptDelivery

`FrameDecoder` is pure: a decoder is a record of `#assembly` and the two protocol flags, a line
is a whole frame, a chunk, or something else, and `DecodeLine` and `Push` return the new
decoder, the frames and whether it threw. The sizes and counts at which a chunk is refused are
constants. Bytes inside a line are abstracted, so is the partial line: OMP's lines arrive whole,
in pieces of any number.

`PromptDelivery` puts it behind a pipe. OMP (external) reads `cmds`, accepts, refuses, queues or
steers a prompt, begins turns of its own, and writes to `pipe` frames or, `MaxSoiled` times,
lines that are none, between two chunks too. `Data` is one data event: any first part of the
pipe is decoded, each frame is handled (`HandleFrame`), and then whoever awaited an answer goes
on (`GoOn`). `stage[p]` is where `sendPrompt` of prompt p stands: the advisor probe and
reservation (`preparing`), the message to the view before the timeout is armed (`announcing`),
the request (`requested`), its outcome. `drafts` is the prompt lifecycle, `armed` and `aborting`
the response-start timeout, `stale` says who goes on with a runtime that is gone. `Exit`,
`ParityBlocked` and `Restart` end a runtime; `draining` holds the drafts a restart has taken out
of the lifecycle while it waits for the teardowns. Then `Restarted` gives them back and another
runtime begins, or the wait is rejected (`RestartFails`): the barrier is closed for good
(`broken`), no runtime begins and those drafts are gone. `restored`, `finished`, `swept`,
`dropped`, `unread`, `inOrder` are history for the properties.

### WebviewState, ViewReplay and ChatView

`WebviewState` is the reducer of the view (messages, the live one, requests, streaming,
transport and parity status); `ViewReplay` is `RpcViewReplayBuffer`, operation by operation.
`ChatView` is the host between them and OMP: `Observe` (with the frames kept of the running
turn, `active` and `overflow`), `Deliver`, and `#rehydrateWebview`, whose state per attachment
is `jobs[r]` with the frames still to be posted in `todo[r]`. A view is attached, listens,
reports ready and is detached at any point of it, so several rehydrations may be under way. OMP
works meanwhile; answers and frames of its own share one pipe, cut into pieces anywhere. The
history comes as one page or, when OMP is busy, whole; message contents are numbers.

A prompt may be a command of OMP's own, also while a turn runs: its `prompt_result` says that no
agent was invoked (`LocalCommand`), which the reducer, `Follow` and `Observe` take for the end of
the turn. `hushed` says that this happened to the turn that runs. Of the `turn_start` frames only
those after such a result are written (`TurnGoesOn`), as the others find the turn shown.

### HomeDraft

The composer of home (`composer`, `off`, `ready`), the host's side of it (`homeDraft`, `token`,
`creating`, `delivery`, `timer`), `PendingDraftStore` (`current`, the queue `writes` with what
awaits each, `disk`), the surface (`selected`, `clearSoon`), `#createSession` (`attempt`) and
the gate (`cooling`). What becomes of the chat is open: it may be refused, be made, have its
first prompt accepted or given back, whenever (`first`). `Reload` is a crash or reload: what is
in memory and in the queue is lost, `disk` is not; what it holds is read back (`ReadBack`) or,
when it is more than a day old, deleted (`Expired`). `owed` is history: drafts whose save for
sending has landed and which neither OMP has accepted, nor the user has changed or discarded, nor
the store has deleted for their age. Drafts in `Large` do not fit a frame to OMP (too much text,
too many images): the composer may still send them, and `save` refuses them.
Images travel with the text. Assumed: writes of the workspace state succeed, the user types once
the composer shows the host's state, and OMP takes longer to accept than the 250 ms after which
typed text is saved. Joining a flight of the gate is left out: `#creating` keeps the sidebar
from it. So is `flush` (`SessionSidebarProvider.ts:170`), which a window that closes
in good order awaits: a reload may always lose the queue.

### Provisioning

`step` is where `provisionGitWorktree` stands, through `cleanupFailedProvision` to one of five
outcomes; `dir`, `branch`, `head`, `dirt` are what Git shows of the worktree; `unread` the
concurrent reads of a check still to come. Each Git command may fail or be killed, `worktree
add` with any part of its work done, and `SomeoneWorks` between any two. `branch` counts the
commits beyond the base. Branch names, links and the copied files are abstracted.

### StuckTurn

`quiet` is the 90 s of `#turnWatchdog`, `answered` is `#terminalAnswerPending`, `recovering`
what `recoverStuckTurn` awaits. OMP (external) begins, continues, answers and ends turns or does
not, answers requests or does not, and heeds an abort or not. Frames are handled one after the
other; `more` says that the data event has further ones, before which nothing that awaits goes
on. `sheltered` and `cut` are history. Which frames hold a final answer, and the text of the
notices, are abstracted.

## Runs

| Run | Instance | States | Shows |
|---|---|---|---|
| `lease` | 2 windows, a third process that gets the pid of the first, 2.6 and corrupt files, 1 fault | 470 k | mutual exclusion, fails closed, right owner named, nothing left behind, a lock is implemented, every attempt ends |
| `host_restarts` | 1 view, 2 restarts, teardowns may fail | 490 k | parity gates UI, ready means usable (but for the cases below), restart and disposal end |
| `host_reopen` | 2 views, 1 restart, startup prompt | 3.6 M | one process, none after disposal, prompt at most once and validated |
| `worktree` | 1 prompt, 1 restart, 1 fault, 2 scanning windows | 14 k | no removal underfoot or after an answer; abandoned trees reclaimed |
| `sessions` | 2 chats, 2 of one Loop alias (2 of the 4 stored), cap 2, 2 requests | 290 k | cap kept, one controller, one resumption at a time, no conversation lost, shutdown complete |
| `delivery` | 2 prompts, 1 turn of OMP's own or 1 stray line, 2 restarts, 2 lines ahead | 340 k | prompts kept in one place (but for the cases below), the timeout never runs against an idle OMP, frames in order |
| `opening` | the four modules of MCOpening, bounds below | 3.4 M | drafts kept for a day, no work deleted, reopened views complete (but for the cases below), turns watched |
| `host_orphan`, `host_stale_parity`, `host_lost_resume`, `worktree_two_prompts`, `sessions_dangling` | | | the violations below |

Why these bounds: two attempts meet each other live, and the third process makes the pid of a
dead one live again; records of more windows add others of the same kind, and the proofs cover
any number of them. A host with two restarts has a replaced startup, its successor, and a third
runtime to confuse them; two views are needed for a start not made by restart. Two scanning
windows race with each other and with the chat. Four chats are what a cap of two needs for a
third request to find it reached while two of them compete for one alias; one request runs and
one waits, so that a waiting one finds everything changed by the first. The fixed sets (`Fresh`,
`Stubborn`) let each special case happen to one chat. In `delivery`, one prompt runs while
another is refused, queued or steered; the turn of OMP's own is what a prompt does not expect;
with two units ahead (one unit may be two chunks) an answer and what follows it come in one
piece or two; a restart separates two runtimes, and a second one may follow one that failed. A
turn of OMP's own and a stray line exclude
each other (`MaxOdd`): the line ends the runtime, which does with the prompts what any other end
does. Both in one behaviour (1.5 M states) were checked too.

`opening` is the disjoint sum of four modules that share no state: `part` says which of them
runs, and the others stand still. `HomeDraft`: three texts, one of them too large, three tokens,
two writes under way, one reload; a draft with the same text but another token, a save behind a
clear, and a reload in each state occur. With four tokens it was checked alone (670 k states). `Provisioning`: two commits, so that one is made before the check and one
after. `ChatView`: two messages, one request, five frames, the first two of which may be results
of local commands, two attachments or detachments, three frames kept of a turn, so that it
overflows. With local commands at any time it was checked alone (8.1 M states). `StuckTurn`: two turns, four requests (a recovery
has three at most, so a second one begins), one restart; alone it was also checked with three
turns, six requests and three frames ahead.

`delivery` and `opening` do not check for deadlock: their bounds stop them (no prompt, frame or
token is left), and so does the code, whose user may do nothing more. `host_restarts` does not
either: with a barrier that was closed by a failed teardown, or a runtime that never gets ready,
the host really stops. In the others `Quiescent`, `AtRest` or `Over` name the states in which
nothing is left to do, and any other state without a step is an error.

Fairness. `WriterLease`: an attempt goes on taking its steps (promises of a running process
settle); nobody must start, release or crash. `RpcSessionHost`: the event loop runs what is
ready, every request is answered or rejected by its timeout; nothing is assumed of the user or
of OMP. `EphemeralWorktree`: time passes, and each window's scan goes on, as windows keep being
opened and each scans when activated and again when its timer fires; nothing is assumed of the
chat itself. None is assumed of `PromptDelivery`, `ChatView`, `HomeDraft`, `Provisioning` and
`StuckTurn`, whose properties are safety: that a stuck turn is noticed is stated of the states
at rest. `SessionManager`: some awaited step is taken as long as one can be (launches, disposals
and cleanups are bounded by timeouts, dialogs are answered); no request or closing is favoured.

## What the code does not keep

Each of these is a run that TLC refutes:

1. `host_orphan`. The `catch` of `#startRpc` checks that its runtime is the current one, awaits
   two messages, and then sets `#rpc` to undefined. A restart in between has put another runtime
   there; it has no owner any more, and `dispose()` resolves while its process runs.
2. `host_stale_parity`. After an exit, `#parityPassed` keeps its value. Reopening the view
   starts a runtime that inherits it, and its UI requests are carried out before its parity
   check.
3. `host_lost_resume`. A resumed chat restarted before its first `get_state` answer forgets the
   session it was opened on.
4. `worktree_two_prompts`. The rejection of the prompt that made the reservation releases it
   while a second prompt is in flight; the second one's answer then finds nothing to claim.
5. `sessions_dangling`. `#remove` takes an unused chat out of `#ephemeralWorktrees` and the
   recent list, then awaits the removal of its worktree while the chat is still in `#sessions`.
   Any `#refresh` meanwhile lists it again, and the row stays behind.

Seen while modelling, without a run:

- A restart whose runtime is torn down before its ready frame never settles:
  `RpcProcess.dispose` does not reject the promise `start` waits for. This takes a frame before
  the ready frame that blocks parity, hence `EarlyFrames = FALSE` in `host_restarts`, where
  `RestartEnds` is checked (with TRUE it fails).
- A restart counts a startup prompt as restored (`RpcSessionHost.ts:585`) even when it is still
  pending; nobody claims it then.
- With slow messages, the `idle` report of a startup overwrites a failure that came meanwhile
  (`RpcSessionHost.ts:582`).
- After a breach of the protocol the chat is reported failed, but the frames its runtime sends
  until it is gone are handled as before, whatever `#parityFailed` says: a late end of a turn
  reports idle again (`RpcSessionHost.ts:831-844`). The exit then returns early (line 481), and
  the chat says idle with no runtime behind it. `ReadyIsUsable` excepts it (`late`).
- After a failed teardown the barrier rejects for good: the chat may still say idle, has no
  runtime, and cannot get one. `ReadyIsUsable` leaves this case out.
- `closeAll` awaits `Promise.all`: after the first disposal that fails, `shutdown` rejects while
  other chats are still being closed, though `docs/rpc-cutover.md:171` says that deactivation
  awaits all of them. `ShutdownComplete` speaks of a shutdown that succeeds.
- A chat whose disposal failed stays in `#sessions`, counts against the cap and may be chosen
  for suspension, which then fails again (`SessionManager.ts:1079`).
- `openSession` and a handoff reveal a chat that is already being closed.
- A prompt rejected because dispose has begun queues its release before the process is gone.

Prompts (`PromptDelivery`):

- `agent_end` removes the oldest draft, whichever prompt the turn was for; a turn of OMP's own
  or of a queued prompt sweeps the draft of another, and if that is refused nothing comes back.
  `PromptKept` exempts these (`swept`).
- A request that times out gives the prompt back although OMP may accept it later: it is then
  executed and in the composer. A crash followed by a restart gives back the drafts of prompts
  OMP had accepted.
- The failure of one prompt clears the timeout armed for another. An exit does not clear it. Its
  abort follows a message, and may hit the turn of the next prompt.
- A restart drains the drafts into a local variable and awaits the teardowns
  (`RpcSessionHost.ts:280-286`). When one of them failed the wait rejects, and these prompts are
  neither in flight nor in the composer. `PromptKept` excepts them (`dropped`).
- When a line throws, the frames decoded before it in the same piece are lost. `RpcProcess` goes
  on decoding what comes behind it until the process is gone, and the host handles it.
- A prompt refused at once is given back before the `draftChanged` message with the empty text
  arrives which the view sends after `submit`; that replaces the host's copy, so a view opened
  later does not show the draft.

Reopened views (`ChatView`):

- Frames that share a piece with the answer that brings the history are captured, and then
  dropped with the captured ones from before it (`RpcSessionHost.ts:1531`). A message that ended
  there is missing until the view is opened again; `TranscriptComplete` exempts it (`lost`).
- Answers to the host's own `get_messages` are remembered as frames of the running turn, and
  replayed: they reset the transcript and detach the live message until its next update.
  Finished messages of the running turn are shown twice; `TranscriptComplete` counts them once.
- A turn that ends between the `get_state` answer and the history leaves the view streaming.
  Requests of the running turn that were answered come back when the view is reopened.

- A `prompt_result` with `agentInvoked` false that comes while a turn runs ends the turn for the
  host and the view: the chat is reported idle, the frames kept of the turn are forgotten, and a
  reopened view shows it as not running until OMP's next `turn_start` or `agent_start`.
  `WorkShown` excepts such a turn (`hushed`).

Turn watchdog (`StuckTurn`):

- A recovery reads the state and aborts later: what it aborts may be a turn that began
  meanwhile. Frames handled during a recovery are not observed, so after a failed one the old
  `#terminalAnswerPending` lets any frame arm the 90 s again, and a working turn that began
  meanwhile is aborted when it is silent that long. `TurnsWatched` exempts turns whose start was
  handled while a recovery was under way or its abort unread, although `CHANGELOG.md:64` knows
  no such case.
- The notice that one abort restored the chat is posted even when none was sent. A clean exit
  during a recovery is reported as a failure.

Home (`HomeDraft`):

- `#createSession` awaits the save before its `try`: a workspace state that refuses the write
  leaves `#creating` true for good, and no chat can be started from home any more
  (`SessionSidebarProvider.ts:287`).
- A draft of more than 24 hours is deleted when the window is opened again
  (`PendingDraftStore.ts:24-26`, `70`), although `README.md:112-114` says that drafts remain in
  storage until OMP accepts them, and `CHANGELOG.md:55-56` says likewise. `DraftKept` excepts it.
- An accepted draft stays in the composer of home if the user went back there during its
  delivery; `sessionCreated`, which the webview would handle, is never posted.
- `acknowledgeDraft` awaits the clear and then empties `#homeDraft` and takes a new token,
  whatever home has by then.
- The New Session command clears the durable copy of a draft that is being delivered, though
  `CHANGELOG.md:55-56` says that it is cleared only after OMP accepts. `DraftKept` counts this
  as the user giving it up.

Provisioning: when `worktree add` itself fails or is killed, what it has left is not cleaned up,
as `created` is not yet set; nor after a refused cleanup. `WorkKept` asks for nothing left only
where no Git command failed that had to remove something.

## Proofs

`WriterLeaseProofs.tla` proves for every number of windows, attempts, pids and faults:
`TypeSafety`, `Exclusion` (`MutualExclusion`), `Survival` (`RecordsSurvive`), `Closed`
(`FailsClosed`) and `Refinement` (the protocol implements `WriterLock`). The assumptions are
those `WriterLease` names about its constants: an attempt has a host, a host has a pid, and the
two foreign names are no attempt's. Pids may be shared.

`MutualExclusion` is not inductive: it says nothing of attempts that are about to hold. The
invariant `IInv` adds, in named parts:

- `Born`, `Known`: an attempt past `idle` has a host that was born; what it listed and read are
  names; `TargetsDead`: a record about to be unlinked belongs to a dead host. Hosts do not come
  back, and so a live record is never hit (`RecordsSurvive`), though pids are reused.
- `Ordered`: of two live attempts that both have a listing and no verdict against them, one is
  in the listing of the other. Publishing before listing makes this so: the later one to list
  finds the other's record, which nobody removed.
- `Pending` and `HeldClear`: an obstacle (a file of version 2.6, a corrupt one, or a listed live
  rival) is still to be read, or read and still to be judged, or has blocked the attempt; who
  holds has nothing left to read or judge and was not blocked.

Of two live holders one has, by `Ordered`, the other in its listing: an obstacle, which by
`Pending` and `HeldClear` no holder has. One step of the proof per action, one conjunct at a
time below it.

`OpeningProofs.tla` proves of `Provisioning`, for any number of commits: `ProvisionTypeSafety`
and `ProvisionKeepsWork` (`WorkKept`). From `ProvisionAssumption` alone. `WorkKept` speaks of how a
provision ends and is not inductive; `StageInv` adds what each stage knows of the worktree:
nothing is there before `worktree add`, all of it between the reads and the bootstrap, no
bootstrap has begun when the cleanup runs, and the directory is gone when the branch is deleted.
That a commit made after the check survives is then the argument of `update-ref`, which deletes
the commit that was checked and no other.

It proves of `HomeDraft`, for any texts, tokens, writes under way and reloads:
`DraftTypeSafety` and `DraftsKept` (`DraftKept`). From `DraftAssumption`: the empty draft is no
text, those too large are texts, and there is at least one token. A draft that was too large or
has expired is owed to nobody. `DraftKept` says of an owed draft that it is stored and
that every queued write is of it; why nothing else gets into the queue is what the other parts
of `DraftInv` say:

- `TokensInv`: no token in use is still to be handed out, so a new one meets nothing old;
- `AttemptInv`, `OwedInv`: home holds and shows the draft that is being saved or is owed, so
  what the timer saves is that draft;
- `DeliveryInv`: home takes no input while a chat is made or its prompt is on the way, so a
  second attempt for the token does not begin before the first is settled;
- `QueueInv`: one write at most is awaited by an attempt, and no later one is of another draft.

The queue is reasoned about by two lemmas (`WriteAppends`, `LandedShifts`) that say what a write
and its landing do to every index, and by lemmas that carry `QueueInv` and `DraftKept` over
each; then one lemma per action that writes.

`WriterLeaseProofs.tla` also proves `Refusals` (`RefusalNamesOwner`), `NoLeftovers`
(`EndedLeavesNothing`) and `StaleReclaimed` (`StaleRecordsGone`), which speak of states without
failed file operations. `FaultlessInv` adds to `IInv` what such states know: what an attempt
read is readable, or the corrupt file it comes from is still there (`Intact`); its own record is
still to be read or judged, or was found (`OwnSeen`); whatever blocks it is a record of somebody
else (`ConflictKnown`); and each other file it listed that still exists is to be read, judged or
unlinked, or has blocked it (`Accounted`).

`EphemeralWorktreeProofs.tla` proves for any prompts, scanning windows, restarts and faults:
`TypeSafety`, `CleanupSpares` (`NeverUnderfoot`), `KilledReservationKept`
(`KilledFirstPromptKept`) and `CloseSettles` (`ClosedSettles`). `NeverUnderfoot` is not
inductive because a cleanup does not look for processes; it is kept off by the lease, and by a
marker that is not `unused`. So `IInv` says that a script runs only under the lease
(`LeaseHeld`), what the marker says given the entry of `#ephemeralWorktrees`, the reservation
and the acceptance (`MarkerFollows`), and that a reservation keeps the worktree and does not
outlive the close, as the release that close queues comes before the cleanup
(`ReservationKeeps`). `AcknowledgedKept` (`AnsweredKept`) assumes a single prompt: with two it
is false, which is what the run `worktree_two_prompts` shows. It needs the order of the queue
of transitions too: the mark of an answer stands before the release of a restart or a close,
which wait until nothing is in flight (`OnlyPrompt`).

`SessionManagerProofs.tla` proves for any chats, cap and queue: `TypeSafety`, `Capped`
(`ProcessCap`), `LoopControlled` (`OneController`), `FlightsFinish` (`ResumedOnce`),
`ConversationsKept` (`KeptResumable`, of a recent list without its bound of 50) and
`ShutDownClean` (`ShutdownComplete`). All are about
what a request found when it was made and relies on when its turn comes. `IInv` says that it is
still so: its chat is in no other request and not in `#sessions` (`QueueApart`,
`FlightsQueued`), the room and the absence of a Loop found before the launch persist while it is
awaited (`RoomKept`, `LoopAlone`), and a chat with a conversation is never one that a cleanup
takes (`KeptApart`). `ShutdownWaits` says whom a shutdown is still waiting for.

`StuckTurnProofs.tla` proves for any turns, frames under way, requests and restarts:
`TypeSafety` and `Watched` (`TurnsWatched`). The invariant is about what is in the pipe: an
answer under way is older than the start of a turn that still works (`WorkSpared`), so once that
start was handled nothing of the watchdog is left to hit the turn; and the answer of a turn that
does not end comes behind its start, and makes the 90 s run when it is handled
(`AnswerNoticed`).

`RpcSessionHostProofs.tla` proves for any number of restarts, in three stages:

- With nothing assumed of how long a message to the view takes, and for any number of views:
  `TypeSafety` (each runtime is queued for teardown at most twice, once when it is dropped and
  once when its startup ends, which bounds the barrier) and `SentOnce` (the startup prompt is
  given to one runtime at most, and not after it went back to the user).
- With `SlowPosts = FALSE`, for any number of views: `OneAtATime` (`OneRuntime`),
  `DisposalReaps` (`DisposedMeansReaped`) and `PromptValidated` (`PromptOnce`). None is
  inductive. `IInv` adds that a runtime whose startup posts is the current one
  (`PostsAreCurrent`), that at most one teardown is under way and then no runtime is current
  (`OneBehind`), that who waits for the barrier waits for all of it (`WaitForAll`), and that a
  restart under way meets no runtime but one just begun for a view (`RestartAlone`). The
  assumption is
  needed: with slow posts a startup that fails drops its successor, which is what
  `host_orphan` shows.
- With `SlowPosts = FALSE` and one view: `UiValidated` (`UiOnlyAfterParity`) and `ReadyAnswers`
  (`ReadyIsUsable`). Only a restart starts a second runtime then, and it resets the parity flags
  before it does (`FlagsCurrent`). But for the two exceptions of `ReadyIsUsable`, a chat that says idle or
  running has a current runtime that passed parity and kept to the protocol, or a restart has
  just taken it away (`IdleUsable`). The assumption is needed: a view that is opened again
  starts a runtime under the old flags, which is what `host_stale_parity` shows.

`PromptDeliveryProofs.tla` proves for any prompts, frames, limits of the decoder, turns, soiled
lines and restarts, and a pipe of any length: `TypeSafety` (`DeliveryTypeOK`), `PromptSafety`
(`PromptKept`), `TimerSafety` (`TimerHasWork`) and `WireSafety` (`WireInOrder`). One data event
decodes and handles a piece of any length, so this needs what folds compute for every sequence.
There is no induction to instantiate here; instead the values a fold passes through are named (`IterExists`), and if one
of them broke a claim that passes from each to the next, the first to break it would contradict
itself (`Least`, `Along`). On that rest what `Push` returns for any lines (`PushFacts`:
every frame it returns comes from a line, every whole frame is returned unless it throws), what
handling its frames does (`PieceHandled`) and what those who awaited answers do then
(`AnswersStood`). The invariant has four parts besides the types:

- `PipeTrue`: what is under way says of a prompt that it is over only if OMP has dealt with it;
  only output comes in chunks;
- `PlacesKept`: a prompt has one draft at most and is in one place at most. Each handler keeps
  the number of places of every prompt that OMP has not dealt with (`Keeps`); a restart whose
  wait is rejected is the one step that takes a place away, and a prompt lost to it is in none;
- `AnsweredOnce`: a command is read once and answered once, and not before it was sent, so a
  refusal cannot give back a draft that was not there yet;
- `ArmedForWork`: when the timeout is armed, OMP has a turn or an unread command somebody waits
  for, or a frame that clears it is under way. `TimerHasWork` looks at an empty pipe only.

`WireInOrder` says of the pipe as it is that the rest of it gives the frames not yet handled. That
is not inductive: a data event may stop after any line, in the middle of a run of chunks, and a
soiled line may come between two chunks. `WireTrue` says it of every part of the pipe
(`ReadsAll`): as long as nothing throws, what the first i lines give is a beginning of what was
written, the decoder has enabled version 2 if the answer to the negotiation is among it, and a
run of chunks is open only where its last chunk, or a line that will throw, comes next.
`ReadRest` lets the reading of a pipe go on from wherever its first part ended; `FrameWritten`
and `OutputWritten` add a frame on one line or two chunks, `SoilRead` a soiled line at the end or
before the last line, and `CutRead` takes a piece away. Of a decoder that threw nothing is said:
the code gives the runtime up then.

`ChatViewProofs.tla` proves for any messages, requests, attachments, frames kept of a turn and
pieces of output: `ViewTypeSafety` (`ViewTypeOK`), `ViewTranscriptComplete`
(`TranscriptComplete`) and `ViewWorkShown` (`WorkShown`). From `ViewAssumption` alone: the bounds
are natural numbers. Both properties speak of a view that is up to date and so are far from
inductive. `ViewInvariant` (`ViewCoherence`) says how every view gets there: the frames queued
for it (`todo`), those captured for it (`replay`) and those OMP has written since (`out`), read
one after the other (`Coming`), bring it up to date (`Follows`). In parts:

- `Orderly`: such a sequence is one OMP could have written. Messages begin and end in order, one
  that began ends in it unless OMP still streams it, a history is followed by the ends of the
  messages it lacks, and a request it cancels is not open;
- `Finishes`: every finished message that was not lost is shown or ends in it, each of those shown
  comes after the ones before it, and the message the view streams is the one OMP streams, or
  ends in it before any other begins;
- `Requested`, `Runs`: an open request is shown, answered or asked in it; a turn that works
  (`Working`: no `prompt_result` without an agent was written during it) is shown or begins in it
  and nothing after says that none runs, unless the turn outgrew its buffer;
- `Knows`: before its history has come, a rehydration knows nothing of the view. The frames the
  host keeps of the turn, and those it captures, are orderly each with the pipe behind them, and
  at the history boundary (`BoundaryFollows`) that is enough to give the above: what the history
  lacks still ends behind it;
- `Phased`: frames are captured for the last attachment only, and a rehydration has frames to
  post only between its history and its end;
- `Called`: of the commands and answers under way no two are of one rehydration, and each finds
  it waiting for just that, though rehydrations of earlier attachments may still be running.

A data event handles a piece of any length and only then lets those go on whose answer was in
it. So the invariant is stated of any state of the host, any rest of the output and any answers
not acted upon (`Coherent`); one frame keeps it (`ReceivedKnows`, `ReceivedSees`), so does what
an answer sets off, and the folds over the piece carry it through. A history that was captured
behind frames of the same piece drops them: what ended there becomes `lost`, the exemption of
`TranscriptComplete`. For that property there remains to show that two filters of sequences
agree: what is left of the view's messages without repetitions and without the lost ones is
ascending and has the members of OMP's log, and there is one such sequence only.

`OpeningProofs.tla` ends with the composition: the four components of `MCOpening` share no
variable, so its behaviours are behaviours of each (`PartsApart`), and `OpeningTypeSafety`
(`TypeOK`) states the types of all four. The other invariants of the run `opening` are theorems
of the component each is about. With these every invariant that a passing run checks, and the
refinement, is a theorem, a few under the hypotheses named above.

The proofs needed the model stated more generally than before: the type of a decoder bounded
what a chunked frame had received, which a decoder that goes on after an error exceeds, and held
at the bounds of the run alone. `FramesAssumption` says what OMP's chunks are: an output is cut
in two, and within the limits.

Besides these hypotheses the theorems rest on nothing but the assumptions that the modules name
about their constants. Each inductive invariant was first checked by TLC: `RpcSessionHost`'s
with two views and one restart (`IInv`, 5.0 M states), one view and two restarts (`ViewInv`,
1.3 M), and with slow posts one view and one restart and two views and none (`TypeInv` and
`PromptInHand`, 3.1 M and 790 k); `WireTrue` with two soiled lines and a restart and with two
and two turns of OMP's own; `ViewInvariant` with local commands at any time (8.1 M); the others at the bounds of the runs.

Only model-checked:

- The properties the code does not keep, and what is proved under a hypothesis that runs refute
  without it, as said above.
- All liveness (`Settles`, `RestartEnds`, `DisposeEnds`, `AbandonedReclaimed`, `ShutdownEnds`):
  TLAPS does not prove liveness under fairness or reason about ENABLED.

## Plan

What is left, in this order:

1. Histories of several pages with a total that changes between them; overload retries;
   workspace-state writes that fail.
2. In `SessionManager`, read-only chats, directory conflicts and the bound of the recent list.

## Not modelled

Rendering, markup, colours and notices; launch planning and the choice of a directory (pure
functions of settings and files); Git and setup scripts beyond their success; parity predicates
(comparisons of fixed strings, only their outcome matters here); the terminal transport (the
older one: a pty and its buffer); registration of commands, logging, titles and image decoding.
In modelled parts: bytes inside a line of output, image contents, tools and subagents in the
transcript, the profile and surface tokens of the sidebar, the two steps of terminating a
process tree.
