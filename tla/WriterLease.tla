------------------------------ MODULE WriterLease ------------------------------
(***************************************************************************)
(* The writer lease of one worktree (src/worktreeLease.ts).                *)
(*                                                                         *)
(* Every attempt to become the writer publishes a record file under a name *)
(* that holds its own random token, then lists the lease directory, reads  *)
(* the files it saw one at a time, and judges each record: a record of a   *)
(* live process or one it cannot read blocks the attempt, a record of a    *)
(* dead process is unlinked.  The attempt that finds nothing in its way    *)
(* holds the lease until release() unlinks its record.                     *)
(*                                                                         *)
(* An attempt runs in an extension host; several attempts may run in one   *)
(* host.  A host may die at any step, and the operating system may give    *)
(* the pid of a dead host to a new one.  Each await of the code is a       *)
(* separate step of the model.  File operations may fail, MaxFaults times  *)
(* in a behaviour.                                                         *)
(***************************************************************************)
EXTENDS Integers, FiniteSets

CONSTANTS Attempts,        \* acquisition attempts: one token each
          Hosts,           \* incarnations of extension host processes
          Pids,
          HostOf,          \* the host an attempt runs in
          PidOf,           \* the pid of a host; pids may be reused
          LegacyPid,       \* the owner named in the version 2.6 lease file
          Legacy,          \* the one mutable lease path of version 2.6
          Garbled,         \* a token lease file that does not parse
          None,
          LeftOver,        \* foreign files that may be there at the start
          MaxFaults        \* bound on failing file operations

Foreign == {Legacy, Garbled}
Names == Attempts \cup Foreign

ASSUME HostOfAssumption == HostOf \in [Attempts -> Hosts]
ASSUME PidOfAssumption == PidOf \in [Hosts -> Pids]
ASSUME LegacyPidAssumption == LegacyPid \in Pids
ASSUME NamesAssumption ==
  Legacy # Garbled /\ Legacy \notin Attempts /\ Garbled \notin Attempts
ASSUME NoneAssumption == None \notin Names
ASSUME LeftOverAssumption == LeftOver \subseteq Foreign
ASSUME MaxFaultsAssumption == MaxFaults \in Nat

VARIABLES
  host,       \* host[h]: "unborn", "running" or "dead"
  dir,        \* the lease files of this worktree that exist
  pc,         \* where each attempt is in acquireWriterLeaseAtRoot
  names,      \* the directory listing an attempt took
  unread,     \* the listed names whose file it has not read yet
  records,    \* the records it has read and not judged yet
  blocked,    \* its local variable blocked
  verified,   \* its local variable ownTokenVerified
  conflict,   \* its local variable conflict
  target,     \* the record of a dead process it is about to unlink
  faults      \* file operations that failed so far

locals == <<names, unread, records, blocked, verified, conflict, target>>
vars == <<host, dir, pc, names, unread, records, blocked, verified, conflict,
          target, faults>>

Stages == {"idle", "published", "scanning", "unlinking", "withdrawing",
           "aborting", "held", "releasing", "unlinkingOwn",
           "refused", "failed", "released"}

Record == [name : Names, valid : BOOLEAN]

TypeOK ==
  /\ host \in [Hosts -> {"unborn", "running", "dead"}]
  /\ dir \in SUBSET Names
  /\ pc \in [Attempts -> Stages]
  /\ names \in [Attempts -> SUBSET Names]
  /\ unread \in [Attempts -> SUBSET Names]
  /\ records \in [Attempts -> SUBSET Record]
  /\ blocked \in [Attempts -> BOOLEAN]
  /\ verified \in [Attempts -> BOOLEAN]
  /\ conflict \in [Attempts -> Names \cup {None}]
  /\ target \in [Attempts -> Names \cup {None}]
  /\ faults \in 0..MaxFaults

-------------------------------------------------------------------------------
(* Processes.                                                              *)

Live(a) == host[HostOf[a]] = "running"

\* process.kill(pid, 0): any running process answers for its pid.
IsProcessAlive(p) == \E h \in Hosts : host[h] = "running" /\ PidOf[h] = p

RecordPid(n) == IF n \in Attempts THEN PidOf[HostOf[n]] ELSE LegacyPid

\* A new extension host; the pid may be one that a dead host had.
StartHost(h) ==
  /\ host[h] = "unborn"
  /\ ~IsProcessAlive(PidOf[h])
  /\ host' = [host EXCEPT ![h] = "running"]
  /\ UNCHANGED <<dir, pc, locals, faults>>

\* A crash or a kill: nothing of the process runs any more, its files stay.
KillHost(h) ==
  /\ host[h] = "running"
  /\ host' = [host EXCEPT ![h] = "dead"]
  /\ UNCHANGED <<dir, pc, locals, faults>>

\* A version 2.6 extension gives up its lease.
LegacyRelease ==
  /\ Legacy \in dir
  /\ dir' = dir \ {Legacy}
  /\ UNCHANGED <<host, pc, locals, faults>>

-------------------------------------------------------------------------------
(* acquireWriterLeaseAtRoot                                                *)

At(a, stage) == Live(a) /\ pc[a] = stage
Goto(a, stage) == pc' = [pc EXCEPT ![a] = stage]

\* The file operation fails: one of the bounded number of faults.
Fault == faults < MaxFaults /\ faults' = faults + 1

\* unlinkExact: the file is gone afterwards, unless the unlink failed, which
\* the code swallows.
UnlinkExact(n) ==
  \/ dir' = dir \ {n} /\ UNCHANGED faults
  \/ Fault /\ UNCHANGED dir

\* publishOwnerAtomically: link() makes the complete record appear at once.
Publish(a) ==
  /\ At(a, "idle")
  /\ \/ Goto(a, "published") /\ dir' = dir \cup {a} /\ UNCHANGED faults
     \/ Goto(a, "refused") /\ Fault /\ UNCHANGED dir
  /\ UNCHANGED <<host, locals>>

\* readdir of the lease directory; when it throws, the attempt rethrows after
\* removing its own record.
List(a) ==
  /\ At(a, "published")
  /\ \/ /\ Goto(a, "scanning")
        /\ names' = [names EXCEPT ![a] = dir]
        /\ unread' = [unread EXCEPT ![a] = dir]
        /\ UNCHANGED faults
     \/ Goto(a, "aborting") /\ Fault /\ UNCHANGED <<names, unread>>
  /\ UNCHANGED <<host, dir, records, blocked, verified, conflict, target>>

\* Mutated form of Read: a file that vanished since the listing is ambiguous.
ReadVanishedAsAmbiguous(a, n) ==
  /\ At(a, "scanning") /\ n \in unread[a]
  /\ unread' = [unread EXCEPT ![a] = @ \ {n}]
  /\ records' = [records EXCEPT
       ![a] = @ \cup {[name |-> n, valid |-> n \in dir \ {Garbled}]}]
  /\ UNCHANGED <<host, dir, pc, names, blocked, verified, conflict, target, faults>>

\* A listed file that vanished since is skipped; one that cannot be read or
\* does not hold the token of its name is ambiguous (valid = FALSE).
Read(a, n) ==
  /\ At(a, "scanning") /\ n \in unread[a]
  /\ unread' = [unread EXCEPT ![a] = @ \ {n}]
  /\ \/ n \notin dir /\ UNCHANGED <<records, faults>>
     \/ /\ n \in dir \ {Garbled} /\ UNCHANGED faults
        /\ records' = [records EXCEPT ![a] = @ \cup {[name |-> n, valid |-> TRUE]}]
     \/ /\ n \in dir /\ (Fault \/ (n = Garbled /\ UNCHANGED faults))
        /\ records' = [records EXCEPT ![a] = @ \cup {[name |-> n, valid |-> FALSE]}]
  /\ UNCHANGED <<host, dir, pc, names, blocked, verified, conflict, target>>

OwnRecord(a) == [name |-> a, valid |-> TRUE]

\* Mutated form of Reclaimable: a readable record is reclaimed unseen its pid.
ReclaimableUnseen(a, r) == r.name \notin {a, Legacy} /\ r.valid

\* Mutated form of Reclaimable: the 2.6 lease file is treated like a token.
ReclaimableLegacy(a, r) ==
  r.name # a /\ r.valid /\ ~IsProcessAlive(RecordPid(r.name))

\* A record whose owner is gone, and that may be removed for it.
Reclaimable(a, r) ==
  /\ r.name \notin {a, Legacy}
  /\ r.valid
  /\ ~IsProcessAlive(RecordPid(r.name))

\* Mutated form of Judge: a record that cannot be read does not block.
JudgeReadable(a, S) ==
  LET rivals == {r.name : r \in {q \in S : q.valid /\ q.name # a}}
  IN /\ blocked' = [blocked EXCEPT ![a] = @ \/ rivals # {}]
     /\ verified' = [verified EXCEPT ![a] = @ \/ OwnRecord(a) \in S]
     /\ UNCHANGED conflict

\* What the turns of the loop over the records S leave in the local variables,
\* none of them reclaimable: any record but the own, intact one blocks, and
\* the first that can be read is the conflict to report.
Judge(a, S) ==
  LET rivals == {r.name : r \in {q \in S : q.valid /\ q.name # a}}
  IN /\ blocked' = [blocked EXCEPT ![a] = @ \/ S \ {OwnRecord(a)} # {}]
     /\ verified' = [verified EXCEPT ![a] = @ \/ OwnRecord(a) \in S]
     /\ IF conflict[a] = None /\ rivals # {}
          THEN \E n \in rivals : conflict' = [conflict EXCEPT ![a] = n]
          ELSE UNCHANGED conflict

\* Mutated form of FindDead: the record instead of its path is to be unlinked.
FindDeadWholeRecord(a, r, S) ==
  /\ At(a, "scanning") /\ unread[a] = {}
  /\ Reclaimable(a, r)
  /\ S = {}
  /\ records' = [records EXCEPT ![a] = @ \ {r}]
  /\ target' = [target EXCEPT ![a] = r]
  /\ Goto(a, "unlinking")
  /\ UNCHANGED <<host, dir, names, unread, blocked, verified, conflict, faults>>

\* The loop is synchronous up to the next record of a dead process, which it
\* unlinks in an await; S are the records it passes before.
FindDead(a, r, S) ==
  /\ At(a, "scanning") /\ unread[a] = {}
  /\ Reclaimable(a, r)
  /\ S \subseteq {q \in records[a] : ~Reclaimable(a, q)}
  /\ Judge(a, S)
  /\ records' = [records EXCEPT ![a] = @ \ (S \cup {r})]
  /\ target' = [target EXCEPT ![a] = r.name]
  /\ Goto(a, "unlinking")
  /\ UNCHANGED <<host, dir, names, unread, faults>>

\* Mutated form of Reclaim: the dead record is passed over and stays.
ReclaimNothing(a) ==
  /\ At(a, "unlinking")
  /\ Goto(a, "scanning")
  /\ target' = [target EXCEPT ![a] = None]
  /\ UNCHANGED <<host, dir, names, unread, records, blocked, verified, conflict, faults>>

\* The await of the unlink: the pid was judged in an earlier turn.
Reclaim(a) ==
  /\ At(a, "unlinking")
  /\ UnlinkExact(target[a])
  /\ Goto(a, "scanning")
  /\ target' = [target EXCEPT ![a] = None]
  /\ UNCHANGED <<host, names, unread, records, blocked, verified, conflict>>

\* Mutated form of Decide: a blocked attempt waits until it is free.
DecideWhenFree(a) ==
  /\ At(a, "scanning") /\ unread[a] = {}
  /\ records[a] \subseteq {OwnRecord(a)} /\ ~blocked[a]
  /\ Judge(a, records[a])
  /\ records' = [records EXCEPT ![a] = {}]
  /\ Goto(a, "held")
  /\ UNCHANGED <<host, dir, names, unread, target, faults>>

\* No dead record is left: the loop ends and the verdict falls in one turn.
Decide(a) ==
  /\ At(a, "scanning") /\ unread[a] = {}
  /\ \A r \in records[a] : ~Reclaimable(a, r)
  /\ Judge(a, records[a])
  /\ records' = [records EXCEPT ![a] = {}]
  /\ Goto(a, IF blocked'[a] \/ ~verified'[a] THEN "withdrawing" ELSE "held")
  /\ UNCHANGED <<host, dir, names, unread, target, faults>>

\* Mutated form of Withdraw: the record of the rival is removed.
WithdrawConflict(a) ==
  /\ \/ At(a, "withdrawing") /\ Goto(a, "refused")
     \/ At(a, "aborting") /\ Goto(a, "failed")
  /\ UnlinkExact(conflict[a])
  /\ UNCHANGED <<host, locals>>

\* Mutated form of Withdraw: a refused attempt leaves its record.
WithdrawLeaving(a) ==
  /\ \/ At(a, "withdrawing") /\ Goto(a, "refused")
     \/ At(a, "aborting") /\ Goto(a, "failed")
  /\ UNCHANGED <<host, dir, locals, faults>>

\* The attempt removes its own record and reports a refusal or an error.
Withdraw(a) ==
  /\ \/ At(a, "withdrawing") /\ Goto(a, "refused")
     \/ At(a, "aborting") /\ Goto(a, "failed")
  /\ UnlinkExact(a)
  /\ UNCHANGED <<host, locals>>

-------------------------------------------------------------------------------
(* releaseLease                                                            *)

\* The session ended: from this call on the lease protects nobody.
Release(a) ==
  /\ At(a, "held")
  /\ Goto(a, "releasing")
  /\ UNCHANGED <<host, dir, locals, faults>>

\* Only a record that is still there, and readable, is unlinked.
ReadOwn(a) ==
  /\ At(a, "releasing")
  /\ \/ a \in dir /\ Goto(a, "unlinkingOwn") /\ UNCHANGED faults
     \/ a \notin dir /\ Goto(a, "released") /\ UNCHANGED faults
     \/ a \in dir /\ Goto(a, "released") /\ Fault
  /\ UNCHANGED <<host, dir, locals>>

UnlinkOwn(a) ==
  /\ At(a, "unlinkingOwn")
  /\ UnlinkExact(a)
  /\ Goto(a, "released")
  /\ UNCHANGED <<host, locals>>

-------------------------------------------------------------------------------
Init ==
  /\ host = [h \in Hosts |-> "unborn"]
  /\ dir \in SUBSET LeftOver
  /\ pc = [a \in Attempts |-> "idle"]
  /\ names = [a \in Attempts |-> {}]
  /\ unread = [a \in Attempts |-> {}]
  /\ records = [a \in Attempts |-> {}]
  /\ blocked = [a \in Attempts |-> FALSE]
  /\ verified = [a \in Attempts |-> FALSE]
  /\ conflict = [a \in Attempts |-> None]
  /\ target = [a \in Attempts |-> None]
  /\ faults = 0

\* The steps an attempt takes by itself once the caller asked for the lease.
Step(a) ==
  \/ List(a) \/ Reclaim(a) \/ Decide(a) \/ Withdraw(a)
  \/ ReadOwn(a) \/ UnlinkOwn(a)
  \/ \E n \in unread[a] : Read(a, n)
  \/ \E r \in records[a], S \in SUBSET records[a] : FindDead(a, r, S)

\* Every host is dead: nothing more can happen.
Quiescent ==
  /\ \A h \in Hosts : host[h] = "dead"
  /\ Legacy \notin dir
  /\ UNCHANGED vars

Next ==
  \/ \E h \in Hosts : StartHost(h) \/ KillHost(h)
  \/ LegacyRelease
  \/ \E a \in Attempts : Publish(a) \/ Release(a) \/ Step(a)
  \/ Quiescent

Spec == Init /\ [][Next]_vars

\* Promises of a running process settle: each attempt keeps taking its steps.
\* Nobody is obliged to start, close or crash an editor.
FairSpec == Spec /\ \A a \in Attempts : WF_vars(Step(a))

-------------------------------------------------------------------------------
(* Properties                                                              *)

Holds(a) == Live(a) /\ pc[a] = "held"

\* Two sessions of running extension hosts never hold the writer lease of one
\* worktree together, however their attempts interleave with each other, with
\* crashes, pid reuse and failing file operations (acquireWriterLeaseAtRoot).
MutualExclusion ==
  \A a, b \in Attempts : Holds(a) /\ Holds(b) => a = b

\* Between its publication and its own unlink, the record of a live attempt
\* stays in the directory: nobody else's reclaim ever hits it, although the
\* reclaimer judged a copy it read earlier (unlinkExact after isProcessAlive).
RecordsSurvive ==
  \A a \in Attempts :
    Live(a) /\ pc[a] \in {"published", "scanning", "unlinking", "held",
                          "releasing", "unlinkingOwn", "withdrawing", "aborting"}
      => a \in dir

\* A live lease coexists with no version 2.6 lease file and no unreadable
\* record: what cannot be judged blocks (the ambiguous and legacy branches).
FailsClosed ==
  \A a \in Attempts : Holds(a) => dir \cap Foreign = {}

\* Without failing file operations and unreadable files, a refusal names the
\* owner that is in the way, and that is another attempt or a 2.6 session.
RefusalNamesOwner ==
  \A a \in Attempts :
    pc[a] = "refused" /\ faults = 0 /\ Garbled \notin dir
      => conflict[a] \in Names \ {a, Garbled}

\* An attempt that was refused, failed or released leaves no record behind
\* unless a file operation failed.
EndedLeavesNothing ==
  \A a \in Attempts :
    pc[a] \in {"refused", "failed", "released"} /\ faults = 0 => a \notin dir

\* A granted lease found no trace of former writers: of the files it listed only
\* its own is left, those of dead writers were reclaimed (stale-PID recovery).
StaleRecordsGone ==
  \A a \in Attempts : Holds(a) /\ faults = 0 => names[a] \cap dir \subseteq {a}

\* Liveness: an attempt that published reaches a verdict unless its host dies;
\* two attempts that block each other are both refused, never stuck.
Settles ==
  \A a \in Attempts :
    pc[a] = "published" ~> pc[a] \in {"held", "refused", "failed"} \/ ~Live(a)

\* What the protocol implements: a lock.
Lock == INSTANCE WriterLock WITH
  holders <- {a \in Attempts : Holds(a)},
  granted <- {a \in Attempts :
                pc[a] \in {"held", "releasing", "unlinkingOwn", "released"}}

\* Every behaviour of the lease files is a behaviour of the abstract lock: a
\* lease is granted only when nobody live holds it, and never twice.
ImplementsLock == Lock!LockSpec

===============================================================================
