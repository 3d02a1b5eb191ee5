--------------------------- MODULE WriterLeaseProofs ---------------------------
(***************************************************************************)
(* Proofs about the writer lease, for any number of attempts, hosts and    *)
(* pids, any sharing of pids, any foreign files and any number of faults.  *)
(*                                                                         *)
(* The argument: publish-then-list orders any two attempts.  Of two live   *)
(* attempts that both took a listing, the later one found the record of    *)
(* the earlier (Ordered), because a live attempt's record is not removed   *)
(* by others (RecordsSurvive), because only records of dead processes are  *)
(* unlinked and a process once dead stays dead, whoever inherits its pid   *)
(* (TargetsDead).  A listed record of a live claimant stays an obstacle    *)
(* until it has blocked the attempt (Pending), so the two cannot both hold *)
(* the lease.                                                              *)
(*                                                                         *)
(* What the protocol promises only while no file operation fails (it names *)
(* the owner, leaves no record, reclaims the dead) needs more:             *)
(* FaultlessInv follows each listed file and each verdict back to what     *)
(* caused it.                                                              *)
(***************************************************************************)
EXTENDS WriterLease, TLAPS

\* An attempt that has a listing and no verdict against it.
Engaged(a) == pc[a] \in {"scanning", "unlinking", "held"}
\* An attempt that stands in the way of others.
Claiming(a) == pc[a] \in {"published", "scanning", "unlinking", "held"}

\* An attempt only ever ran in a host that was started.
Born == \A a \in Attempts : pc[a] # "idle" => host[HostOf[a]] # "unborn"

\* Listings and records name files that were published.
Known ==
  /\ \A b \in dir \cap Attempts : pc[b] # "idle"
  /\ \A a, b \in Attempts : b \in names[a] => pc[b] # "idle"
  /\ \A a \in Attempts : unread[a] \subseteq names[a]
  /\ \A a \in Attempts : \A r \in records[a] :
       /\ r.name \in Attempts => pc[r.name] # "idle"
       /\ r.name = Garbled => ~r.valid

TargetsDead ==
  \A a \in Attempts : pc[a] = "unlinking" =>
    target[a] \in Attempts /\ host[HostOf[target[a]]] = "dead"

\* Of two live attempts that took a listing, one is in the listing of the other.
Ordered ==
  \A a, b \in Attempts :
    a # b /\ Engaged(a) /\ Engaged(b) /\ Live(a) /\ Live(b)
      => b \in names[a] \/ a \in names[b]

\* What must keep a from the lease.
Obstacle(a, n) ==
  \/ n \in Foreign \cap dir
  \/ n \in Attempts \ {a} /\ n \in names[a] /\ Live(n) /\ Claiming(n)

\* An obstacle is still to be read, or still to be judged, or has blocked.
Pending ==
  \A a \in Attempts, n \in Names :
    Engaged(a) /\ Live(a) /\ Obstacle(a, n)
      => n \in unread[a] \/ blocked[a] \/ \E r \in records[a] : r.name = n

HeldClear ==
  \A a \in Attempts :
    pc[a] = "held" => unread[a] = {} /\ records[a] = {} /\ ~blocked[a]

IInv ==
  /\ TypeOK /\ Born /\ Known /\ TargetsDead /\ RecordsSurvive
  /\ Ordered /\ Pending /\ HeldClear

-------------------------------------------------------------------------------
USE HostOfAssumption, PidOfAssumption, LegacyPidAssumption, NamesAssumption,
    NoneAssumption, MaxFaultsAssumption, LeftOverAssumption

\* Every state has the declared types.
LEMMA TypeCorrect == Spec => []TypeOK
<1>1. Init => TypeOK
  BY DEF Init, TypeOK, Stages, Names, Foreign
<1>2. TypeOK /\ [Next]_vars => TypeOK'
  <2> SUFFICES ASSUME TypeOK, [Next]_vars PROVE TypeOK'
    OBVIOUS
  <2> USE DEF TypeOK, Stages, Goto, At, Fault, UnlinkExact, locals
  <2>1. ASSUME NEW h \in Hosts, StartHost(h) PROVE TypeOK'
    BY <2>1 DEF StartHost
  <2>2. ASSUME NEW h \in Hosts, KillHost(h) PROVE TypeOK'
    BY <2>2 DEF KillHost
  <2>3. CASE LegacyRelease
    BY <2>3 DEF LegacyRelease
  <2>4. ASSUME NEW a \in Attempts, Publish(a) PROVE TypeOK'
    BY <2>4 DEF Publish, Names
  <2>5. ASSUME NEW a \in Attempts, Release(a) PROVE TypeOK'
    BY <2>5 DEF Release
  <2>6. ASSUME NEW a \in Attempts, List(a) PROVE TypeOK'
    BY <2>6 DEF List
  <2>7. ASSUME NEW a \in Attempts, Reclaim(a) PROVE TypeOK'
    BY <2>7 DEF Reclaim
  <2>8. ASSUME NEW a \in Attempts, Decide(a) PROVE TypeOK'
    BY <2>8 DEF Decide, Judge, Record
  <2>9. ASSUME NEW a \in Attempts, Withdraw(a) PROVE TypeOK'
    BY <2>9 DEF Withdraw
  <2>10. ASSUME NEW a \in Attempts, ReadOwn(a) PROVE TypeOK'
    BY <2>10 DEF ReadOwn
  <2>11. ASSUME NEW a \in Attempts, UnlinkOwn(a) PROVE TypeOK'
    BY <2>11 DEF UnlinkOwn
  <2>12. ASSUME NEW a \in Attempts, NEW n \in unread[a], Read(a, n) PROVE TypeOK'
    <3>1. n \in Names
      OBVIOUS
    <3>2. [name |-> n, valid |-> TRUE] \in Record /\ [name |-> n, valid |-> FALSE] \in Record
      BY <3>1 DEF Record
    <3>3. \E R \in SUBSET Record :
            records' = records \/ records' = [records EXCEPT ![a] = records[a] \cup R]
      <4>1. CASE n \notin dir /\ UNCHANGED records
        BY <4>1
      <4>2. CASE records' = [records EXCEPT ![a] = @ \cup {[name |-> n, valid |-> TRUE]}]
        BY <3>2, <4>2
      <4>3. CASE records' = [records EXCEPT ![a] = @ \cup {[name |-> n, valid |-> FALSE]}]
        BY <3>2, <4>3
      <4>4. QED
        BY <2>12, <4>1, <4>2, <4>3 DEF Read
    <3>4. records' \in [Attempts -> SUBSET Record]
      BY <3>3
    <3>5. faults' \in 0..MaxFaults
      BY <2>12 DEF Read
    <3>6. unread' \in [Attempts -> SUBSET Names]
      BY <2>12 DEF Read
    <3>7. UNCHANGED <<host, dir, pc, names, blocked, verified, conflict, target>>
      BY <2>12 DEF Read
    <3>8. QED
      BY <3>4, <3>5, <3>6, <3>7
  <2>13. ASSUME NEW a \in Attempts, NEW r \in records[a], NEW S \in SUBSET records[a],
                FindDead(a, r, S)
         PROVE  TypeOK'
    BY <2>13 DEF FindDead, Judge, Record
  <2>14. CASE UNCHANGED vars
    BY <2>14 DEF vars
  <2>15. QED
    BY <2>1, <2>2, <2>3, <2>4, <2>5, <2>6, <2>7, <2>8, <2>9, <2>10, <2>11,
       <2>12, <2>13, <2>14 DEF Next, Step, Quiescent
<1>3. QED
  BY <1>1, <1>2, PTL DEF Spec

\* The invariant is inductive.
LEMMA IInvStep == ASSUME IInv, TypeOK', [Next]_vars PROVE IInv'
<1> USE DEF TypeOK, IInv, Goto, At, Fault, UnlinkExact, locals
<1>1. ASSUME NEW h \in Hosts, StartHost(h) PROVE IInv'
  <2>1. Born'
    BY <1>1 DEF StartHost, Born, Live
  <2>2. Known'
    BY <1>1 DEF StartHost, Known, Live, Names, Foreign, Born
  <2>3. TargetsDead'
    BY <1>1 DEF StartHost, TargetsDead, Live, Born, Known, Reclaimable, IsProcessAlive, RecordPid, Names, Foreign
  <2>4. RecordsSurvive'
    BY <1>1 DEF StartHost, Born, RecordsSurvive, Live, TargetsDead
  <2>5. Ordered'
    BY <1>1 DEF StartHost, Born, Ordered, Engaged, Live, RecordsSurvive
  <2>6. Pending'
    BY <1>1 DEF StartHost, Born, Pending, Engaged, Obstacle, Claiming, Live, Names
  <2>7. HeldClear'
    BY <1>1 DEF StartHost, HeldClear
  <2>8. QED
    BY <2>1, <2>2, <2>3, <2>4, <2>5, <2>6, <2>7
<1>2. ASSUME NEW h \in Hosts, KillHost(h) PROVE IInv'
  <2>1. Born'
    BY <1>2 DEF KillHost, Born, Live
  <2>2. Known'
    BY <1>2 DEF KillHost, Known, Live, Names, Foreign, Born
  <2>3. TargetsDead'
    BY <1>2 DEF KillHost, TargetsDead, Live, Born, Known, Reclaimable, IsProcessAlive, RecordPid, Names, Foreign
  <2>4. RecordsSurvive'
    BY <1>2 DEF KillHost, RecordsSurvive, Live, TargetsDead
  <2>5. Ordered'
    BY <1>2 DEF KillHost, Ordered, Engaged, Live, RecordsSurvive
  <2>6. Pending'
    BY <1>2 DEF KillHost, Pending, Engaged, Obstacle, Claiming, Live, Names, Foreign, RecordsSurvive, TargetsDead, Known, Reclaimable, OwnRecord, IsProcessAlive, RecordPid
  <2>7. HeldClear'
    BY <1>2 DEF KillHost, HeldClear
  <2>8. QED
    BY <2>1, <2>2, <2>3, <2>4, <2>5, <2>6, <2>7
<1>3. ASSUME LegacyRelease PROVE IInv'
  <2>1. Born'
    BY <1>3 DEF LegacyRelease, Born, Live
  <2>2. Known'
    BY <1>3 DEF LegacyRelease, Known, Live, Names, Foreign, Born
  <2>3. TargetsDead'
    BY <1>3 DEF LegacyRelease, TargetsDead, Live, Born, Known, Reclaimable, IsProcessAlive, RecordPid, Names, Foreign
  <2>4. RecordsSurvive'
    BY <1>3 DEF LegacyRelease, RecordsSurvive, Live, TargetsDead
  <2>5. Ordered'
    BY <1>3 DEF LegacyRelease, Ordered, Engaged, Live, RecordsSurvive
  <2>6. Pending'
    BY <1>3 DEF LegacyRelease, Pending, Engaged, Obstacle, Claiming, Live, Names, Foreign, RecordsSurvive, TargetsDead, Known, Reclaimable, OwnRecord, IsProcessAlive, RecordPid
  <2>7. HeldClear'
    BY <1>3 DEF LegacyRelease, HeldClear
  <2>8. QED
    BY <2>1, <2>2, <2>3, <2>4, <2>5, <2>6, <2>7
<1>4. ASSUME NEW a \in Attempts, Publish(a) PROVE IInv'
  <2>1. Born'
    BY <1>4 DEF Publish, Born, Live
  <2>2. Known'
    BY <1>4 DEF Publish, Known, Live, Names, Foreign, Born
  <2>3. TargetsDead'
    BY <1>4 DEF Publish, TargetsDead, Live, Born, Known, Reclaimable, IsProcessAlive, RecordPid, Names, Foreign
  <2>4. RecordsSurvive'
    BY <1>4 DEF Publish, RecordsSurvive, Live, TargetsDead
  <2>5. Ordered'
    BY <1>4 DEF Publish, Ordered, Engaged, Live, RecordsSurvive
  <2>6. Pending'
    BY <1>4 DEF Publish, Pending, Engaged, Obstacle, Claiming, Live, Names, Foreign, RecordsSurvive, TargetsDead, Known, Reclaimable, OwnRecord, IsProcessAlive, RecordPid
  <2>7. HeldClear'
    BY <1>4 DEF Publish, HeldClear
  <2>8. QED
    BY <2>1, <2>2, <2>3, <2>4, <2>5, <2>6, <2>7
<1>5. ASSUME NEW a \in Attempts, Release(a) PROVE IInv'
  <2>1. Born'
    BY <1>5 DEF Release, Born, Live
  <2>2. Known'
    BY <1>5 DEF Release, Known, Live, Names, Foreign, Born
  <2>3. TargetsDead'
    BY <1>5 DEF Release, TargetsDead, Live, Born, Known, Reclaimable, IsProcessAlive, RecordPid, Names, Foreign
  <2>4. RecordsSurvive'
    BY <1>5 DEF Release, RecordsSurvive, Live, TargetsDead
  <2>5. Ordered'
    BY <1>5 DEF Release, Ordered, Engaged, Live, RecordsSurvive
  <2>6. Pending'
    BY <1>5 DEF Release, Pending, Engaged, Obstacle, Claiming, Live, Names, Foreign, RecordsSurvive, TargetsDead, Known, Reclaimable, OwnRecord, IsProcessAlive, RecordPid
  <2>7. HeldClear'
    BY <1>5 DEF Release, HeldClear
  <2>8. QED
    BY <2>1, <2>2, <2>3, <2>4, <2>5, <2>6, <2>7
<1>6. ASSUME NEW a \in Attempts, List(a) PROVE IInv'
  <2>1. Born'
    BY <1>6 DEF List, Born, Live
  <2>2. Known'
    BY <1>6 DEF List, Known
  <2>3. TargetsDead'
    BY <1>6 DEF List, TargetsDead, Live, Born, Known, Reclaimable, IsProcessAlive, RecordPid, Names, Foreign
  <2>4. RecordsSurvive'
    BY <1>6 DEF List, RecordsSurvive, Live, TargetsDead
  <2>5. Ordered'
    BY <1>6 DEF List, Ordered, Engaged, Live, RecordsSurvive
  <2>6. Pending'
    BY <1>6 DEF List, Pending, Engaged, Obstacle, Claiming, Live, Names, Foreign, RecordsSurvive, TargetsDead, Known, Reclaimable, OwnRecord, IsProcessAlive, RecordPid
  <2>7. HeldClear'
    BY <1>6 DEF List, HeldClear
  <2>8. QED
    BY <2>1, <2>2, <2>3, <2>4, <2>5, <2>6, <2>7
<1>7. ASSUME NEW a \in Attempts, Reclaim(a) PROVE IInv'
  <2>1. Born'
    BY <1>7 DEF Reclaim, Born, Live
  <2>2. Known'
    BY <1>7 DEF Reclaim, Known, Live, Names, Foreign, Born
  <2>3. TargetsDead'
    BY <1>7 DEF Reclaim, TargetsDead, Live, Born, Known, Reclaimable, IsProcessAlive, RecordPid, Names, Foreign
  <2>4. RecordsSurvive'
    BY <1>7 DEF Reclaim, RecordsSurvive, Live, TargetsDead
  <2>5. Ordered'
    BY <1>7 DEF Reclaim, Ordered, Engaged, Live, RecordsSurvive
  <2>6. Pending'
    BY <1>7 DEF Reclaim, Pending, Engaged, Obstacle, Claiming, Live, Names, Foreign, RecordsSurvive, TargetsDead, Known, Reclaimable, OwnRecord, IsProcessAlive, RecordPid
  <2>7. HeldClear'
    BY <1>7 DEF Reclaim, HeldClear
  <2>8. QED
    BY <2>1, <2>2, <2>3, <2>4, <2>5, <2>6, <2>7
<1>8. ASSUME NEW a \in Attempts, Decide(a) PROVE IInv'
  <2>1. Born'
    BY <1>8 DEF Decide, Judge, Born, Live
  <2>2. Known'
    BY <1>8 DEF Decide, Judge, Known, Live, Names, Foreign, Born
  <2>3. TargetsDead'
    BY <1>8 DEF Decide, Judge, TargetsDead, Live, Born, Known, Reclaimable, IsProcessAlive, RecordPid, Names, Foreign
  <2>4. RecordsSurvive'
    BY <1>8 DEF Decide, Judge, RecordsSurvive, Live, TargetsDead
  <2>5. Ordered'
    BY <1>8 DEF Decide, Judge, Ordered, Engaged, Live, RecordsSurvive
  <2>6. Pending'
    BY <1>8 DEF Decide, Judge, Pending, Engaged, Obstacle, Claiming, Live, Names, Foreign, RecordsSurvive, TargetsDead, Known, Reclaimable, OwnRecord, IsProcessAlive, RecordPid
  <2>7. HeldClear'
    BY <1>8 DEF Decide, Judge, HeldClear
  <2>8. QED
    BY <2>1, <2>2, <2>3, <2>4, <2>5, <2>6, <2>7
<1>9. ASSUME NEW a \in Attempts, Withdraw(a) PROVE IInv'
  <2>1. Born'
    BY <1>9 DEF Withdraw, Born, Live
  <2>2. Known'
    BY <1>9 DEF Withdraw, Known, Live, Names, Foreign, Born
  <2>3. TargetsDead'
    BY <1>9 DEF Withdraw, TargetsDead, Live, Born, Known, Reclaimable, IsProcessAlive, RecordPid, Names, Foreign
  <2>4. RecordsSurvive'
    BY <1>9 DEF Withdraw, RecordsSurvive, Live, TargetsDead
  <2>5. Ordered'
    BY <1>9 DEF Withdraw, Ordered, Engaged, Live, RecordsSurvive
  <2>6. Pending'
    BY <1>9 DEF Withdraw, Pending, Engaged, Obstacle, Claiming, Live, Names, Foreign, RecordsSurvive, TargetsDead, Known, Reclaimable, OwnRecord, IsProcessAlive, RecordPid
  <2>7. HeldClear'
    BY <1>9 DEF Withdraw, HeldClear
  <2>8. QED
    BY <2>1, <2>2, <2>3, <2>4, <2>5, <2>6, <2>7
<1>10. ASSUME NEW a \in Attempts, ReadOwn(a) PROVE IInv'
  <2>1. Born'
    BY <1>10 DEF ReadOwn, Born, Live
  <2>2. Known'
    BY <1>10 DEF ReadOwn, Known, Live, Names, Foreign, Born
  <2>3. TargetsDead'
    BY <1>10 DEF ReadOwn, TargetsDead, Live, Born, Known, Reclaimable, IsProcessAlive, RecordPid, Names, Foreign
  <2>4. RecordsSurvive'
    BY <1>10 DEF ReadOwn, RecordsSurvive, Live, TargetsDead
  <2>5. Ordered'
    BY <1>10 DEF ReadOwn, Ordered, Engaged, Live, RecordsSurvive
  <2>6. Pending'
    BY <1>10 DEF ReadOwn, Pending, Engaged, Obstacle, Claiming, Live, Names, Foreign, RecordsSurvive, TargetsDead, Known, Reclaimable, OwnRecord, IsProcessAlive, RecordPid
  <2>7. HeldClear'
    BY <1>10 DEF ReadOwn, HeldClear
  <2>8. QED
    BY <2>1, <2>2, <2>3, <2>4, <2>5, <2>6, <2>7
<1>11. ASSUME NEW a \in Attempts, UnlinkOwn(a) PROVE IInv'
  <2>1. Born'
    BY <1>11 DEF UnlinkOwn, Born, Live
  <2>2. Known'
    BY <1>11 DEF UnlinkOwn, Known, Live, Names, Foreign, Born
  <2>3. TargetsDead'
    BY <1>11 DEF UnlinkOwn, TargetsDead, Live, Born, Known, Reclaimable, IsProcessAlive, RecordPid, Names, Foreign
  <2>4. RecordsSurvive'
    BY <1>11 DEF UnlinkOwn, RecordsSurvive, Live, TargetsDead
  <2>5. Ordered'
    BY <1>11 DEF UnlinkOwn, Ordered, Engaged, Live, RecordsSurvive
  <2>6. Pending'
    BY <1>11 DEF UnlinkOwn, Pending, Engaged, Obstacle, Claiming, Live, Names, Foreign, RecordsSurvive, TargetsDead, Known, Reclaimable, OwnRecord, IsProcessAlive, RecordPid
  <2>7. HeldClear'
    BY <1>11 DEF UnlinkOwn, HeldClear
  <2>8. QED
    BY <2>1, <2>2, <2>3, <2>4, <2>5, <2>6, <2>7
<1>12. ASSUME NEW a \in Attempts, NEW n \in unread[a], Read(a, n) PROVE IInv'
  <2>1. Born'
    BY <1>12 DEF Read, Born, Live
  <2>2. Known'
    BY <1>12 DEF Read, Known, Live, Names, Foreign, Born
  <2>3. TargetsDead'
    BY <1>12 DEF Read, TargetsDead, Live, Born, Known, Reclaimable, IsProcessAlive, RecordPid, Names, Foreign
  <2>4. RecordsSurvive'
    BY <1>12 DEF Read, RecordsSurvive, Live, TargetsDead
  <2>5. Ordered'
    BY <1>12 DEF Read, Ordered, Engaged, Live, RecordsSurvive
  <2>6. Pending'
    <3> SUFFICES ASSUME NEW c \in Attempts, NEW m \in Names,
                        Engaged(c)', Live(c)', Obstacle(c, m)'
                 PROVE  m \in unread'[c] \/ blocked'[c] \/ \E r \in records'[c] : r.name = m
      BY DEF Pending
    <3>1. Engaged(c) /\ Live(c) /\ Obstacle(c, m)
      BY <1>12 DEF Read, Engaged, Live, Obstacle, Claiming
    <3>2. m \in unread[c] \/ blocked[c] \/ \E r \in records[c] : r.name = m
      BY <3>1 DEF Pending
    <3>3. m \in dir
      BY <3>1 DEF Obstacle, Claiming, RecordsSurvive
    <3>4. \A b \in Attempts : records[b] \subseteq records'[b]
      BY <1>12 DEF Read
    <3>5. CASE c = a /\ m = n
      <4>1. CASE records' = [records EXCEPT ![a] = @ \cup {[name |-> n, valid |-> TRUE]}]
        <5>1. [name |-> n, valid |-> TRUE] \in records'[a]
          BY <4>1
        <5>2. QED
          BY <3>5, <5>1
      <4>2. CASE records' = [records EXCEPT ![a] = @ \cup {[name |-> n, valid |-> FALSE]}]
        <5>1. [name |-> n, valid |-> FALSE] \in records'[a]
          BY <4>2
        <5>2. QED
          BY <3>5, <5>1
      <4>3. QED
        BY <1>12, <3>3, <3>5, <4>1, <4>2 DEF Read
    <3>6. CASE ~(c = a /\ m = n)
      BY <1>12, <3>2, <3>4, <3>6 DEF Read
    <3>7. QED
      BY <3>5, <3>6
  <2>7. HeldClear'
    BY <1>12 DEF Read, HeldClear
  <2>8. QED
    BY <2>1, <2>2, <2>3, <2>4, <2>5, <2>6, <2>7
<1>13. ASSUME NEW a \in Attempts, NEW r \in records[a], NEW S \in SUBSET records[a],
             FindDead(a, r, S) PROVE IInv'
  <2>1. Born'
    BY <1>13 DEF FindDead, Judge, Born, Live
  <2>2. Known'
    BY <1>13 DEF FindDead, Judge, Known, Live, Names, Foreign, Born
  <2>3. TargetsDead'
    <3>1. r \in Record /\ r.name \in Names /\ r.name \in Attempts
      BY <1>13 DEF FindDead, Reclaimable, Known, Names, Foreign, Record
    <3>2. host[HostOf[r.name]] = "dead"
      BY <1>13, <3>1 DEF FindDead, Reclaimable, IsProcessAlive, RecordPid, Known, Born
    <3>3. QED
      BY <1>13, <3>1, <3>2 DEF FindDead, Judge, TargetsDead
  <2>4. RecordsSurvive'
    BY <1>13 DEF FindDead, Judge, RecordsSurvive, Live, TargetsDead
  <2>5. Ordered'
    BY <1>13 DEF FindDead, Judge, Ordered, Engaged, Live, RecordsSurvive
  <2>6. Pending'
    <3> SUFFICES ASSUME NEW c \in Attempts, NEW m \in Names,
                        Engaged(c)', Live(c)', Obstacle(c, m)'
                 PROVE  m \in unread'[c] \/ blocked'[c] \/ \E q \in records'[c] : q.name = m
      BY DEF Pending
    <3>1. Engaged(c) /\ Live(c) /\ Obstacle(c, m)
      BY <1>13 DEF FindDead, Judge, Engaged, Live, Obstacle, Claiming
    <3>2. m \in unread[c] \/ blocked[c] \/ \E q \in records[c] : q.name = m
      BY <3>1 DEF Pending
    <3>3. CASE c # a
      BY <1>13, <3>2, <3>3 DEF FindDead, Judge
    <3>4. CASE c = a
      <4>1. CASE m \in unread[a] \/ blocked[a]
        BY <1>13, <3>4, <4>1 DEF FindDead, Judge
      <4>2. ASSUME NEW q \in records[a], q.name = m
            PROVE  blocked'[a] \/ q \in records'[a]
        <5>1. r.name # m
          BY <1>13, <3>1, <3>4 DEF FindDead, Reclaimable, Obstacle, Live, IsProcessAlive,
             RecordPid, Foreign, Known
        <5>2. q # OwnRecord(a)
          BY <3>1, <3>4, <4>2 DEF Obstacle, OwnRecord, Foreign
        <5>3. CASE q \in S
          BY <1>13, <5>2, <5>3 DEF FindDead, Judge
        <5>4. CASE q \notin S
          BY <1>13, <4>2, <5>1, <5>4 DEF FindDead
        <5>5. QED
          BY <5>3, <5>4
      <4>3. QED
        BY <3>2, <3>4, <4>1, <4>2
    <3>5. QED
      BY <3>3, <3>4
  <2>7. HeldClear'
    BY <1>13 DEF FindDead, Judge, HeldClear
  <2>8. QED
    BY <2>1, <2>2, <2>3, <2>4, <2>5, <2>6, <2>7
<1>14. ASSUME UNCHANGED vars PROVE IInv'
  <2>1. Born'
    BY <1>14 DEF vars, Born, Live
  <2>2. Known'
    BY <1>14 DEF vars, Known, Live, Names, Foreign, Born
  <2>3. TargetsDead'
    BY <1>14 DEF vars, TargetsDead, Live, Born, Known, Reclaimable, IsProcessAlive, RecordPid, Names, Foreign
  <2>4. RecordsSurvive'
    BY <1>14 DEF vars, RecordsSurvive, Live, TargetsDead
  <2>5. Ordered'
    BY <1>14 DEF vars, Ordered, Engaged, Live, RecordsSurvive
  <2>6. Pending'
    BY <1>14 DEF vars, Pending, Engaged, Obstacle, Claiming, Live, Names, Foreign, RecordsSurvive, TargetsDead, Known, Reclaimable, OwnRecord, IsProcessAlive, RecordPid
  <2>7. HeldClear'
    BY <1>14 DEF vars, HeldClear
  <2>8. QED
    BY <2>1, <2>2, <2>3, <2>4, <2>5, <2>6, <2>7
<1>15. QED
  BY <1>1, <1>2, <1>3, <1>4, <1>5, <1>6, <1>7, <1>8, <1>9, <1>10, <1>11, <1>12, <1>13, <1>14 DEF Next, Step, Quiescent

\* In every reachable state the invariant holds.
LEMMA Invariance == Spec => []IInv
<1>1. Init => IInv
  <2> SUFFICES ASSUME Init PROVE IInv
    OBVIOUS
  <2>1. TypeOK
    BY DEF Init, TypeOK, Stages, Names, Foreign
  <2>2. QED
    BY <2>1 DEF Init, IInv, Born, Known, TargetsDead, RecordsSurvive, Ordered, Engaged,
       Pending, HeldClear, Foreign
<1>2. IInv /\ TypeOK' /\ [Next]_vars => IInv'
  BY IInvStep
<1>3. QED
  BY <1>1, <1>2, TypeCorrect, PTL DEF Spec

-------------------------------------------------------------------------------
(* Theorems                                                                *)

\* All states are well typed (every definition of WriterLease).
THEOREM TypeSafety == Spec => []TypeOK
  BY TypeCorrect

\* Two live holders contradict the invariant: one would be an obstacle of the other.
LEMMA IInvExcludes == IInv => MutualExclusion
<1> SUFFICES ASSUME IInv, NEW a \in Attempts, NEW b \in Attempts,
                    Holds(a), Holds(b), b \in names[a], a # b
             PROVE  FALSE
  BY DEF IInv, Ordered, MutualExclusion, Holds, Engaged
<1>1. Obstacle(a, b) /\ Engaged(a) /\ Live(a) /\ b \in Names
  BY DEF Obstacle, Holds, Claiming, Engaged, Names
<1>2. QED
  BY <1>1 DEF IInv, Pending, HeldClear, Holds

\* Never two live holders, whatever the interleaving of acquireWriterLeaseAtRoot,
\* crashes, pid reuse and failing file operations.
THEOREM Exclusion == Spec => []MutualExclusion
  BY IInvExcludes, Invariance, PTL

\* The record of a live attempt is only removed by that attempt.
THEOREM Survival == Spec => []RecordsSurvive
  BY Invariance, PTL DEF IInv

\* No lease is held beside a 2.6 lease file or an unreadable record.
THEOREM Closed == Spec => []FailsClosed
<1>1. IInv => FailsClosed
  <2> SUFFICES ASSUME IInv, NEW a \in Attempts, Holds(a), NEW n \in dir \cap Foreign
               PROVE  FALSE
    BY DEF FailsClosed
  <2>1. Obstacle(a, n) /\ Engaged(a) /\ Live(a) /\ n \in Names
    BY DEF Obstacle, Holds, Engaged, Names
  <2>2. QED
    BY <2>1 DEF IInv, Pending, HeldClear, Holds
<1>2. QED
  BY <1>1, Invariance, PTL

\* The lease files implement the abstract lock: every step of the protocol
\* grants the free lock, vacates it, or leaves it alone.
THEOREM Refinement == Spec => ImplementsLock
<1> DEFINE H == {a \in Attempts : Holds(a)}
           G == {a \in Attempts : pc[a] \in {"held", "releasing", "unlinkingOwn", "released"}}
<1>1. Init => Lock!LockInit
  BY DEF Init, Lock!LockInit, Holds
<1>2. IInv /\ MutualExclusion /\ MutualExclusion' /\ [Next]_vars => [Lock!LockNext]_(Lock!lockVars)
  <2> SUFFICES ASSUME IInv, MutualExclusion, MutualExclusion', [Next]_vars
               PROVE  \/ \E a \in Attempts : H = {} /\ a \notin G /\ H' = {a} /\ G' = G \cup {a}
                      \/ H # {} /\ H' = {} /\ G' = G
                      \/ H' = H /\ G' = G
    BY DEF Lock!LockNext, Lock!Grant, Lock!Vacate, Lock!lockVars
  <2> USE DEF Goto, At, locals
  <2>1. /\ \A a, b \in Attempts : a \in H /\ b \in H => a = b
        /\ \A a, b \in Attempts : a \in H' /\ b \in H' => a = b
    BY DEF MutualExclusion
  <2>2. TypeOK
    BY DEF IInv
  <2>3. CASE \E h \in Hosts : StartHost(h)
    <3>1. G' = G
      BY <2>3 DEF StartHost
    <3>2. \A a \in Attempts : Holds(a)' <=> Holds(a)
      BY <2>2, <2>3 DEF StartHost, Holds, Live, TypeOK, IInv, Born
    <3>3. QED
      BY <3>1, <3>2
  <2>4. CASE \E h \in Hosts : KillHost(h)
    <3>1. G' = G
      BY <2>4 DEF KillHost
    <3>2. H' \subseteq H
      BY <2>2, <2>4 DEF KillHost, Holds, Live, TypeOK
    <3>3. QED
      BY <3>1, <3>2, <2>1
  <2>5. ASSUME NEW a \in Attempts, Decide(a)
        PROVE  \/ H = {} /\ a \notin G /\ H' = {a} /\ G' = G \cup {a}
               \/ H' = H /\ G' = G
    <3>1. \A b \in Attempts \ {a} : pc'[b] = pc[b] /\ (Holds(b)' <=> Holds(b))
      BY <2>2, <2>5 DEF Decide, Holds, Live, TypeOK
    <3>2. ~Holds(a) /\ a \notin G
      BY <2>5 DEF Decide, Holds
    <3>3. CASE pc'[a] = "held"
      <4>1. Holds(a)'
        BY <2>5, <3>3 DEF Decide, Holds, Live
      <4>2. H = {}
        BY <2>1, <3>1, <3>2, <4>1
      <4>3. H' = {a} /\ G' = G \cup {a}
        BY <2>1, <3>1, <3>3, <4>1
      <4>4. QED
        BY <3>2, <4>2, <4>3
    <3>4. CASE pc'[a] # "held"
      <4>1. pc'[a] = "withdrawing"
        BY <2>2, <2>5, <3>4 DEF Decide, TypeOK
      <4>2. QED
        BY <3>1, <3>2, <4>1 DEF Holds
    <3>5. QED
      BY <3>3, <3>4
  <2>6. ASSUME NEW a \in Attempts, Release(a)
        PROVE  H # {} /\ H' = {} /\ G' = G
    <3>1. Holds(a) /\ ~Holds(a)'
      BY <2>2, <2>6 DEF Release, Holds, TypeOK
    <3>2. \A b \in Attempts \ {a} : pc'[b] = pc[b] /\ (Holds(b)' <=> Holds(b))
      BY <2>2, <2>6 DEF Release, Holds, Live, TypeOK
    <3>3. a \in G /\ a \in G'
      BY <2>2, <2>6 DEF Release, TypeOK
    <3>4. QED
      BY <2>1, <3>1, <3>2, <3>3
  <2>7. ASSUME NEW a \in Attempts,
               \/ Publish(a) \/ List(a) \/ Reclaim(a) \/ Withdraw(a) \/ ReadOwn(a) \/ UnlinkOwn(a)
               \/ \E n \in unread[a] : Read(a, n)
               \/ \E r \in records[a], S \in SUBSET records[a] : FindDead(a, r, S)
        PROVE  H' = H /\ G' = G
    <3>1. host' = host
      BY <2>7 DEF Publish, List, Reclaim, Withdraw, ReadOwn, UnlinkOwn, Read, FindDead
    <3>2. \A b \in Attempts : pc'[b] = "held" <=> pc[b] = "held"
      BY <2>2, <2>7 DEF Publish, List, Reclaim, Withdraw, ReadOwn, UnlinkOwn, Read, FindDead, TypeOK
    <3>3. \A b \in Attempts : b \in G' <=> b \in G
      BY <2>2, <2>7 DEF Publish, List, Reclaim, Withdraw, ReadOwn, UnlinkOwn, Read, FindDead, TypeOK
    <3>4. QED
      BY <3>1, <3>2, <3>3 DEF Holds, Live
  <2>8. CASE LegacyRelease \/ UNCHANGED vars
    BY <2>8 DEF LegacyRelease, vars, Holds, Live
  <2>9. QED
    BY <2>3, <2>4, <2>5, <2>6, <2>7, <2>8 DEF Next, Step, Quiescent
<1>3. QED
  BY <1>1, <1>2, Invariance, Exclusion, PTL DEF Spec, ImplementsLock, Lock!LockSpec

-------------------------------------------------------------------------------
(* While no file operation has failed.                                     *)

\* Without faults only an unreadable foreign file yields an ambiguous record, and
\* such a file is still there when its record is judged.
Intact ==
  \A a \in Attempts : \A r \in records[a] :
    /\ r.name = Garbled => Garbled \in dir
    /\ faults = 0 => r.valid \/ r.name = Garbled

\* Without faults an attempt that scans is still to meet its own record, or met it.
OwnSeen ==
  \A a \in Attempts :
    pc[a] \in {"scanning", "unlinking"} /\ faults = 0
      => a \in unread[a] \/ verified[a] \/ OwnRecord(a) \in records[a]

\* The conflict to report is a readable record of somebody else, and without faults
\* and unreadable files every verdict against an attempt comes with one.
ConflictKnown ==
  \A a \in Attempts :
    /\ conflict[a] \notin {a, Garbled}
    /\ faults = 0 /\ Garbled \notin dir
         => (blocked[a] \/ pc[a] \in {"withdrawing", "refused"} => conflict[a] # None)

\* Without faults a listed file that still exists is to be read, to be judged or to
\* be unlinked, unless it belongs to the attempt or has blocked it.
Accounted ==
  \A a \in Attempts : \A n \in names[a] \cap dir :
    Engaged(a) /\ faults = 0 /\ n # a
      => \/ n \in unread[a] \/ blocked[a] \/ \E r \in records[a] : r.name = n
         \/ pc[a] = "unlinking" /\ n = target[a]

FaultlessInv ==
  /\ IInv /\ Intact /\ OwnSeen /\ ConflictKnown /\ Accounted /\ EndedLeavesNothing

\* What the turns of the loop over S leave as the conflict to report: the one that
\* was known before, or a readable rival among S if there is any.
LEMMA JudgeConflict ==
  ASSUME FaultlessInv, NEW a \in Attempts, NEW S \in SUBSET records[a], Judge(a, S)
  PROVE  /\ conflict'[a] \notin {a, Garbled}
         /\ conflict[a] # None => conflict'[a] = conflict[a]
         /\ (\E q \in S : q.valid /\ q.name # a) => conflict'[a] # None
<1> DEFINE rivals == {r.name : r \in {q \in S : q.valid /\ q.name # a}}
<1>1. conflict \in [Attempts -> Names \cup {None}] /\ records[a] \subseteq Record
  BY DEF FaultlessInv, IInv, TypeOK
<1>2. \A n \in rivals : n \in Names /\ n \notin {a, Garbled, None}
  BY <1>1 DEF FaultlessInv, IInv, Known, Record
<1>3. CASE conflict[a] = None /\ rivals # {}
  <2>1. PICK n \in rivals : conflict' = [conflict EXCEPT ![a] = n]
    BY <1>3 DEF Judge
  <2>2. QED
    BY <1>1, <1>2, <1>3, <2>1
<1>4. CASE ~(conflict[a] = None /\ rivals # {})
  <2>1. conflict' = conflict
    BY <1>4 DEF Judge
  <2>2. rivals # {} <=> \E q \in S : q.valid /\ q.name # a
    OBVIOUS
  <2>3. QED
    BY <1>4, <2>1, <2>2 DEF FaultlessInv, ConflictKnown
<1>5. QED
  BY <1>3, <1>4

\* The strengthened invariant is inductive.
LEMMA FaultlessStep == ASSUME FaultlessInv, TypeOK', [Next]_vars PROVE FaultlessInv'
<1> USE DEF TypeOK, FaultlessInv, Goto, At, Fault, UnlinkExact, locals
<1>0. IInv' /\ TypeOK
  BY IInvStep DEF IInv
<1>1. ASSUME NEW h \in Hosts, StartHost(h) PROVE FaultlessInv'
  <2>1. Intact'
    BY <1>0, <1>1 DEF StartHost, Intact
  <2>2. OwnSeen'
    BY <1>0, <1>1 DEF StartHost, OwnSeen, OwnRecord
  <2>3. ConflictKnown'
    BY <1>0, <1>1 DEF StartHost, ConflictKnown
  <2>4. Accounted'
    BY <1>0, <1>1 DEF StartHost, Accounted, Engaged
  <2>5. EndedLeavesNothing'
    BY <1>0, <1>1 DEF StartHost, EndedLeavesNothing
  <2>6. QED
    BY <1>0, <2>1, <2>2, <2>3, <2>4, <2>5
<1>2. ASSUME NEW h \in Hosts, KillHost(h) PROVE FaultlessInv'
  <2>1. Intact'
    BY <1>0, <1>2 DEF KillHost, Intact
  <2>2. OwnSeen'
    BY <1>0, <1>2 DEF KillHost, OwnSeen, OwnRecord
  <2>3. ConflictKnown'
    BY <1>0, <1>2 DEF KillHost, ConflictKnown
  <2>4. Accounted'
    BY <1>0, <1>2 DEF KillHost, Accounted, Engaged
  <2>5. EndedLeavesNothing'
    BY <1>0, <1>2 DEF KillHost, EndedLeavesNothing
  <2>6. QED
    BY <1>0, <2>1, <2>2, <2>3, <2>4, <2>5
<1>3. ASSUME LegacyRelease PROVE FaultlessInv'
  <2>1. Intact'
    BY <1>0, <1>3 DEF LegacyRelease, Intact
  <2>2. OwnSeen'
    BY <1>0, <1>3 DEF LegacyRelease, OwnSeen, OwnRecord
  <2>3. ConflictKnown'
    BY <1>0, <1>3 DEF LegacyRelease, ConflictKnown
  <2>4. Accounted'
    BY <1>0, <1>3 DEF LegacyRelease, Accounted, Engaged
  <2>5. EndedLeavesNothing'
    BY <1>0, <1>3 DEF LegacyRelease, EndedLeavesNothing
  <2>6. QED
    BY <1>0, <2>1, <2>2, <2>3, <2>4, <2>5
<1>4. ASSUME NEW a \in Attempts, Publish(a) PROVE FaultlessInv'
  <2>1. Intact'
    BY <1>0, <1>4 DEF Publish, Intact
  <2>2. OwnSeen'
    BY <1>0, <1>4 DEF Publish, OwnSeen, OwnRecord
  <2>3. ConflictKnown'
    BY <1>0, <1>4 DEF Publish, ConflictKnown
  <2>4. Accounted'
    BY <1>0, <1>4 DEF Publish, Accounted, Engaged, IInv, Known
  <2>5. EndedLeavesNothing'
    BY <1>0, <1>4 DEF Publish, EndedLeavesNothing
  <2>6. QED
    BY <1>0, <2>1, <2>2, <2>3, <2>4, <2>5
<1>5. ASSUME NEW a \in Attempts, Release(a) PROVE FaultlessInv'
  <2>1. Intact'
    BY <1>0, <1>5 DEF Release, Intact
  <2>2. OwnSeen'
    BY <1>0, <1>5 DEF Release, OwnSeen, OwnRecord
  <2>3. ConflictKnown'
    BY <1>0, <1>5 DEF Release, ConflictKnown
  <2>4. Accounted'
    BY <1>0, <1>5 DEF Release, Accounted, Engaged
  <2>5. EndedLeavesNothing'
    BY <1>0, <1>5 DEF Release, EndedLeavesNothing
  <2>6. QED
    BY <1>0, <2>1, <2>2, <2>3, <2>4, <2>5
<1>6. ASSUME NEW a \in Attempts, List(a) PROVE FaultlessInv'
  <2>1. Intact'
    BY <1>0, <1>6 DEF List, Intact, RecordsSurvive, IInv, Live
  <2>2. OwnSeen'
    BY <1>0, <1>6 DEF List, OwnSeen, OwnRecord, RecordsSurvive, IInv, Live
  <2>3. ConflictKnown'
    BY <1>0, <1>6 DEF List, ConflictKnown, RecordsSurvive, IInv, Live
  <2>4. Accounted'
    BY <1>0, <1>6 DEF List, Accounted, Engaged, RecordsSurvive, IInv, Live
  <2>5. EndedLeavesNothing'
    BY <1>0, <1>6 DEF List, EndedLeavesNothing, RecordsSurvive, IInv, Live
  <2>6. QED
    BY <1>0, <2>1, <2>2, <2>3, <2>4, <2>5
<1>7. ASSUME NEW a \in Attempts, Reclaim(a) PROVE FaultlessInv'
  <2>1. Intact'
    BY <1>0, <1>7 DEF Reclaim, Intact, IInv, TargetsDead, Names, Foreign
  <2>2. OwnSeen'
    BY <1>0, <1>7 DEF Reclaim, OwnSeen, OwnRecord
  <2>3. ConflictKnown'
    BY <1>0, <1>7 DEF Reclaim, ConflictKnown, IInv, TargetsDead, Names, Foreign
  <2>4. Accounted'
    BY <1>0, <1>7 DEF Reclaim, Accounted, Engaged
  <2>5. EndedLeavesNothing'
    BY <1>0, <1>7 DEF Reclaim, EndedLeavesNothing
  <2>6. QED
    BY <1>0, <2>1, <2>2, <2>3, <2>4, <2>5
<1>8. ASSUME NEW a \in Attempts, Decide(a) PROVE FaultlessInv'
  <2>1. Intact'
    BY <1>0, <1>8 DEF Decide, Judge, Intact
  <2>2. OwnSeen'
    BY <1>0, <1>8 DEF Decide, Judge, OwnSeen, OwnRecord
  <2>3. ConflictKnown'
    <3>1. UNCHANGED <<dir, faults>> /\ At(a, "scanning") /\ unread[a] = {}
      BY <1>8 DEF Decide
    <3>2. /\ conflict'[a] \notin {a, Garbled}
          /\ conflict[a] # None => conflict'[a] = conflict[a]
          /\ (\E q \in records[a] : q.valid /\ q.name # a) => conflict'[a] # None
      BY <1>0, <1>8, JudgeConflict DEF Decide
    <3>3. \A c \in Attempts \ {a} : conflict'[c] = conflict[c] /\ pc'[c] = pc[c] /\ blocked'[c] = blocked[c]
      BY <1>0, <1>8 DEF Decide, Judge
    <3>4. ASSUME faults = 0, Garbled \notin dir PROVE conflict'[a] # None \/ (~blocked'[a] /\ pc'[a] = "held")
      <4>1. CASE blocked[a]
        BY <3>2, <3>4, <4>1 DEF ConflictKnown
      <4>2. CASE ~blocked[a] /\ records[a] \ {OwnRecord(a)} # {}
        <5>1. PICK q \in records[a] : q # OwnRecord(a)
          BY <4>2
        <5>2. q.valid /\ q \in Record
          BY <1>0, <3>4 DEF Intact
        <5>3. q.name # a
          BY <5>1, <5>2 DEF OwnRecord, Record
        <5>4. QED
          BY <3>2, <5>2, <5>3
      <4>3. CASE ~blocked[a] /\ records[a] \ {OwnRecord(a)} = {}
        <5>1. ~blocked'[a] /\ verified'[a]
          BY <1>0, <1>8, <3>1, <3>4, <4>3 DEF Decide, Judge, OwnSeen
        <5>2. QED
          BY <1>0, <1>8, <5>1 DEF Decide
      <4>4. QED
        BY <4>1, <4>2, <4>3
    <3>5. QED
      BY <3>1, <3>2, <3>3, <3>4 DEF ConflictKnown
  <2>4. Accounted'
    <3> SUFFICES ASSUME NEW c \in Attempts, NEW n \in names[c] \cap dir, Engaged(c)', faults = 0, n # c
                 PROVE  \/ n \in unread'[c] \/ blocked'[c] \/ \E r \in records'[c] : r.name = n
                        \/ pc'[c] = "unlinking" /\ n = target'[c]
      BY <1>8 DEF Decide, Accounted
    <3>1. CASE c # a
      BY <1>0, <1>8, <3>1 DEF Decide, Judge, Accounted, Engaged
    <3>2. CASE c = a
      <4>1. blocked[a] \/ \E r \in records[a] : r.name = n
        BY <1>8, <3>2 DEF Decide, Accounted, Engaged
      <4>2. \A r \in records[a] : r.name = n => r # OwnRecord(a)
        BY <3>2 DEF OwnRecord
      <4>3. blocked'[a]
        BY <1>0, <1>8, <4>1, <4>2 DEF Decide, Judge
      <4>4. QED
        BY <3>2, <4>3
    <3>3. QED
      BY <3>1, <3>2
  <2>5. EndedLeavesNothing'
    BY <1>0, <1>8 DEF Decide, Judge, EndedLeavesNothing
  <2>6. QED
    BY <1>0, <2>1, <2>2, <2>3, <2>4, <2>5
<1>9. ASSUME NEW a \in Attempts, Withdraw(a) PROVE FaultlessInv'
  <2>1. Intact'
    BY <1>0, <1>9 DEF Withdraw, Intact
  <2>2. OwnSeen'
    BY <1>0, <1>9 DEF Withdraw, OwnSeen, OwnRecord
  <2>3. ConflictKnown'
    BY <1>0, <1>9 DEF Withdraw, ConflictKnown
  <2>4. Accounted'
    BY <1>0, <1>9 DEF Withdraw, Accounted, Engaged
  <2>5. EndedLeavesNothing'
    BY <1>0, <1>9 DEF Withdraw, EndedLeavesNothing
  <2>6. QED
    BY <1>0, <2>1, <2>2, <2>3, <2>4, <2>5
<1>10. ASSUME NEW a \in Attempts, ReadOwn(a) PROVE FaultlessInv'
  <2>1. Intact'
    BY <1>0, <1>10 DEF ReadOwn, Intact
  <2>2. OwnSeen'
    BY <1>0, <1>10 DEF ReadOwn, OwnSeen, OwnRecord
  <2>3. ConflictKnown'
    BY <1>0, <1>10 DEF ReadOwn, ConflictKnown
  <2>4. Accounted'
    BY <1>0, <1>10 DEF ReadOwn, Accounted, Engaged
  <2>5. EndedLeavesNothing'
    BY <1>0, <1>10 DEF ReadOwn, EndedLeavesNothing
  <2>6. QED
    BY <1>0, <2>1, <2>2, <2>3, <2>4, <2>5
<1>11. ASSUME NEW a \in Attempts, UnlinkOwn(a) PROVE FaultlessInv'
  <2>1. Intact'
    BY <1>0, <1>11 DEF UnlinkOwn, Intact
  <2>2. OwnSeen'
    BY <1>0, <1>11 DEF UnlinkOwn, OwnSeen, OwnRecord
  <2>3. ConflictKnown'
    BY <1>0, <1>11 DEF UnlinkOwn, ConflictKnown
  <2>4. Accounted'
    BY <1>0, <1>11 DEF UnlinkOwn, Accounted, Engaged
  <2>5. EndedLeavesNothing'
    BY <1>0, <1>11 DEF UnlinkOwn, EndedLeavesNothing
  <2>6. QED
    BY <1>0, <2>1, <2>2, <2>3, <2>4, <2>5
<1>12. ASSUME NEW a \in Attempts, NEW n \in unread[a], Read(a, n) PROVE FaultlessInv'
  <2>1. Intact'
    BY <1>0, <1>12 DEF Read, Intact, RecordsSurvive, IInv, Live
  <2>2. OwnSeen'
    BY <1>0, <1>12 DEF Read, OwnSeen, OwnRecord, RecordsSurvive, IInv, Live
  <2>3. ConflictKnown'
    BY <1>0, <1>12 DEF Read, ConflictKnown, RecordsSurvive, IInv, Live
  <2>4. Accounted'
    <3> SUFFICES ASSUME NEW c \in Attempts, NEW m \in names[c] \cap dir, Engaged(c), faults' = 0, m # c
                 PROVE  \/ m \in unread'[c] \/ blocked[c] \/ \E r \in records'[c] : r.name = m
                        \/ pc[c] = "unlinking" /\ m = target[c]
      BY <1>12 DEF Read, Accounted, Engaged
    <3>1. faults = 0 /\ \A b \in Attempts : records[b] \subseteq records'[b]
      BY <1>0, <1>12 DEF Read
    <3>2. \/ m \in unread[c] \/ blocked[c] \/ \E r \in records[c] : r.name = m
          \/ pc[c] = "unlinking" /\ m = target[c]
      BY <3>1 DEF Accounted
    <3>3. CASE c = a /\ m = n
      <4>1. CASE records' = [records EXCEPT ![a] = @ \cup {[name |-> n, valid |-> TRUE]}]
        <5>1. [name |-> n, valid |-> TRUE] \in records'[a]
          BY <1>0, <4>1
        <5>2. QED
          BY <3>3, <5>1
      <4>2. CASE records' = [records EXCEPT ![a] = @ \cup {[name |-> n, valid |-> FALSE]}]
        <5>1. [name |-> n, valid |-> FALSE] \in records'[a]
          BY <1>0, <4>2
        <5>2. QED
          BY <3>3, <5>1
      <4>3. QED
        BY <1>12, <3>3, <4>1, <4>2 DEF Read
    <3>4. CASE ~(c = a /\ m = n)
      BY <1>0, <1>12, <3>1, <3>2, <3>4 DEF Read
    <3>5. QED
      BY <3>3, <3>4
  <2>5. EndedLeavesNothing'
    BY <1>0, <1>12 DEF Read, EndedLeavesNothing, RecordsSurvive, IInv, Live
  <2>6. QED
    BY <1>0, <2>1, <2>2, <2>3, <2>4, <2>5
<1>13. ASSUME NEW a \in Attempts, NEW r \in records[a], NEW S \in SUBSET records[a], FindDead(a, r, S) PROVE FaultlessInv'
  <2>1. Intact'
    BY <1>0, <1>13 DEF FindDead, Judge, Intact
  <2>2. OwnSeen'
    <3>1. r # OwnRecord(a)
      BY <1>13 DEF FindDead, Reclaimable, OwnRecord
    <3>2. UNCHANGED <<unread, faults>> /\ At(a, "scanning")
      BY <1>13 DEF FindDead
    <3>3. \A c \in Attempts \ {a} :
            pc'[c] = pc[c] /\ verified'[c] = verified[c] /\ records'[c] = records[c]
      BY <1>0, <1>13 DEF FindDead, Judge
    <3>4. /\ verified[a] \/ OwnRecord(a) \in S => verified'[a]
          /\ records'[a] = records[a] \ (S \cup {r})
      BY <1>0, <1>13 DEF FindDead, Judge
    <3>5. QED
      BY <1>0, <3>1, <3>2, <3>3, <3>4 DEF OwnSeen
  <2>3. ConflictKnown'
    <3>1. UNCHANGED <<dir, faults>> /\ pc'[a] = "unlinking"
      BY <1>0, <1>13 DEF FindDead
    <3>2. /\ conflict'[a] \notin {a, Garbled}
          /\ conflict[a] # None => conflict'[a] = conflict[a]
          /\ (\E q \in S : q.valid /\ q.name # a) => conflict'[a] # None
      BY <1>0, <1>13, JudgeConflict DEF FindDead
    <3>3. \A c \in Attempts \ {a} : conflict'[c] = conflict[c] /\ pc'[c] = pc[c] /\ blocked'[c] = blocked[c]
      BY <1>0, <1>13 DEF FindDead, Judge
    <3>4. ASSUME faults = 0, Garbled \notin dir, blocked'[a] PROVE conflict'[a] # None
      <4>1. CASE blocked[a]
        BY <3>2, <3>4, <4>1 DEF ConflictKnown
      <4>2. CASE ~blocked[a]
        <5>1. PICK q \in S : q # OwnRecord(a)
          BY <1>0, <1>13, <3>4, <4>2 DEF FindDead, Judge
        <5>2. q.valid /\ q \in Record
          BY <1>0, <3>4 DEF Intact
        <5>3. q.name # a
          BY <5>1, <5>2 DEF OwnRecord, Record
        <5>4. QED
          BY <3>2, <5>2, <5>3
      <4>3. QED
        BY <4>1, <4>2
    <3>5. QED
      BY <3>1, <3>2, <3>3, <3>4 DEF ConflictKnown
  <2>4. Accounted'
    <3> SUFFICES ASSUME NEW c \in Attempts, NEW n \in names[c] \cap dir, Engaged(c)', faults = 0, n # c
                 PROVE  \/ n \in unread[c] \/ blocked'[c] \/ \E q \in records'[c] : q.name = n
                        \/ pc'[c] = "unlinking" /\ n = target'[c]
      BY <1>13 DEF FindDead, Accounted
    <3>1. CASE c # a
      BY <1>0, <1>13, <3>1 DEF FindDead, Judge, Accounted, Engaged
    <3>2. CASE c = a
      <4>1. blocked[a] \/ \E q \in records[a] : q.name = n
        BY <1>13, <3>2 DEF FindDead, Accounted, Engaged
      <4>2. CASE blocked[a]
        BY <1>0, <1>13, <3>2, <4>2 DEF FindDead, Judge
      <4>3. ASSUME NEW q \in records[a], q.name = n
            PROVE  \/ blocked'[a] \/ q \in records'[a]
                   \/ pc'[a] = "unlinking" /\ n = target'[a]
        <5>1. q # OwnRecord(a)
          BY <3>2, <4>3 DEF OwnRecord
        <5>2. CASE q \in S
          BY <1>0, <1>13, <5>1, <5>2 DEF FindDead, Judge
        <5>3. CASE q = r
          BY <1>0, <1>13, <4>3, <5>3 DEF FindDead
        <5>4. CASE q \notin S \cup {r}
          BY <1>0, <1>13, <5>4 DEF FindDead
        <5>5. QED
          BY <5>2, <5>3, <5>4
      <4>4. QED
        BY <3>2, <4>1, <4>2, <4>3
    <3>3. QED
      BY <3>1, <3>2
  <2>5. EndedLeavesNothing'
    BY <1>0, <1>13 DEF FindDead, Judge, EndedLeavesNothing
  <2>6. QED
    BY <1>0, <2>1, <2>2, <2>3, <2>4, <2>5
<1>14. ASSUME UNCHANGED vars PROVE FaultlessInv'
  <2>1. Intact'
    BY <1>0, <1>14 DEF vars, Intact
  <2>2. OwnSeen'
    BY <1>0, <1>14 DEF vars, OwnSeen, OwnRecord
  <2>3. ConflictKnown'
    BY <1>0, <1>14 DEF vars, ConflictKnown
  <2>4. Accounted'
    BY <1>0, <1>14 DEF vars, Accounted, Engaged
  <2>5. EndedLeavesNothing'
    BY <1>0, <1>14 DEF vars, EndedLeavesNothing
  <2>6. QED
    BY <1>0, <2>1, <2>2, <2>3, <2>4, <2>5
<1>15. QED
  BY <1>1, <1>2, <1>3, <1>4, <1>5, <1>6, <1>7, <1>8, <1>9, <1>10, <1>11, <1>12, <1>13, <1>14 DEF Next, Step, Quiescent

\* In every reachable state the strengthened invariant holds.
LEMMA FaultlessInvariance == Spec => []FaultlessInv
<1>1. Init /\ IInv => FaultlessInv
  BY DEF Init, FaultlessInv, Intact, OwnSeen, ConflictKnown, Accounted, EndedLeavesNothing,
     Names, Foreign
<1>2. FaultlessInv /\ TypeOK' /\ [Next]_vars => FaultlessInv'
  BY FaultlessStep
<1>3. QED
  BY <1>1, <1>2, Invariance, TypeCorrect, PTL DEF Spec

\* A refusal of acquireWriterLeaseAtRoot names the live owner that is in the way,
\* as long as no file operation failed and every lease file can be read.
THEOREM Refusals == Spec => []RefusalNamesOwner
<1>1. FaultlessInv => RefusalNamesOwner
  BY DEF FaultlessInv, ConflictKnown, RefusalNamesOwner, IInv, TypeOK
<1>2. QED
  BY <1>1, FaultlessInvariance, PTL

\* Whoever was refused, failed or released left no record behind, unless an unlink
\* failed: unlinkExact runs on every way out of the acquisition and in releaseLease.
THEOREM NoLeftovers == Spec => []EndedLeavesNothing
  BY FaultlessInvariance, PTL DEF FaultlessInv

\* A lease is granted over no trace of former writers (stale-PID recovery).
THEOREM StaleReclaimed == Spec => []StaleRecordsGone
<1>1. FaultlessInv => StaleRecordsGone
  BY DEF FaultlessInv, Accounted, StaleRecordsGone, Holds, Engaged, IInv, HeldClear
<1>2. QED
  BY <1>1, FaultlessInvariance, PTL

===============================================================================
