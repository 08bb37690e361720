-------------------------- MODULE BackupLoopProofs --------------------------
(***************************************************************************)
(* Proofs about BackupLoop, for any number of requests, changes, failures  *)
(* and restarts.                                                           *)
(***************************************************************************)
EXTENDS BackupLoop, TLAPS

(***************************************************************************)
(* Type correctness.                                                       *)
(***************************************************************************)
LEMMA TypeStep == TypeOK /\ [Next]_vars => TypeOK'
<1> SUFFICES ASSUME TypeOK, [Next]_vars PROVE TypeOK'
  OBVIOUS
<1> USE ConstantsAssumption DEF ConstantsAssumption, TypeOK
<1>1. CASE Write
  BY <1>1 DEF Write, run, flags, silent, counts
<1>2. CASE Signal
  BY <1>2 DEF Signal, run, silent, counts
<1>3. CASE WriterLost
  BY <1>3 DEF WriterLost, run, flags, counts
<1>4. ASSUME NEW r \in Requests, Request(r) PROVE TypeOK'
  BY <1>4 DEF Request, Runners, data, flags, silent, counts
<1>5. ASSUME NEW r \in Runners, Lock(r) PROVE TypeOK'
  BY <1>5 DEF Lock, data, counts
<1>6. ASSUME NEW r \in Runners, Snapshot(r) PROVE TypeOK'
  BY <1>6 DEF Snapshot, data, flags, silent, counts
<1>7. ASSUME NEW r \in Runners, Succeed(r) PROVE TypeOK'
  <2>1. snap[r] \in 0..version /\ version' = version
    BY <1>7 DEF Succeed
  <2>2. snap' \in [Runners -> 0..version']
    BY <1>7, <2>1 DEF Succeed, Leave
  <2>3. shown' \in BOOLEAN
    BY <1>7 DEF Succeed, Leave
  <2>4. QED
    BY <1>7, <2>1, <2>2, <2>3 DEF Succeed, Leave, flags, silent, counts
<1>8. ASSUME NEW r \in Runners, Fail(r) PROVE TypeOK'
  <2>1. version' = version /\ writing' = writing /\ mirrored' = mirrored
    BY <1>8 DEF Fail, data
  <2>2. snap' \in [Runners -> 0..version']
    BY <1>8, <2>1 DEF Fail, Leave
  <2>3. shown' \in BOOLEAN /\ dirty' \in BOOLEAN
    BY <1>8 DEF Fail, Leave
  <2>4. failures' \in 0..MaxFailures
    BY <1>8 DEF Fail
  <2>5. stage' \in [Runners -> {"off", "lock", "mirror", "upload"}]
    BY <1>8 DEF Fail, Leave
  <2>6. QED
    BY <1>8, <2>1, <2>2, <2>3, <2>4, <2>5 DEF Fail, Leave
<1>9. ASSUME NEW r \in Runners, Hangup(r) PROVE TypeOK'
  BY <1>9 DEF Hangup, data, flags, silent, counts
<1>11. CASE Check
  BY <1>11 DEF Check, data, flags, run, silent, counts
<1>12. CASE Woken
  BY <1>12 DEF Woken, data, run, silent, counts
<1>13. CASE Tick
  BY <1>13 DEF Tick, data, flags, run, silent, counts
<1>14. CASE Disturbed
  BY <1>14 DEF Disturbed, data, run, silent, counts
<1>15. CASE Quiet
  BY <1>15 DEF Quiet, Runners, data, flags, silent, counts
<1>16. CASE Restart
  <2>1. version' = version /\ mirrored' = mirrored /\ failures' = failures
    BY <1>16 DEF Restart
  <2>2. snap' \in [Runners -> 0..version']
    BY <1>16, <2>1 DEF Restart
  <2>3. stage' \in [Runners -> {"off", "lock", "mirror", "upload"}]
    BY <1>16 DEF Restart
  <2>4. restarts' \in 0..MaxRestarts /\ writing' \in 0..version'
    BY <1>16, <2>1 DEF Restart
  <2>5. QED
    BY <1>16, <2>1, <2>2, <2>3, <2>4 DEF Restart
<1>17. CASE UNCHANGED vars
  BY <1>17 DEF vars
<1>18. QED
  BY <1>1, <1>2, <1>3, <1>4, <1>5, <1>6, <1>7, <1>8, <1>9, <1>11,
     <1>12, <1>13, <1>14, <1>15, <1>16, <1>17 DEF Next, RunStep

\* Every variable keeps its type, whoever runs what and whatever is dropped.
THEOREM TypeCorrect == Spec => []TypeOK
<1>1. Init => TypeOK
  <2> SUFFICES ASSUME Init PROVE TypeOK
    OBVIOUS
  <2>1. snap \in [Runners -> 0..version]
    BY DEF Init
  <2>2. stage \in [Runners -> {"off", "lock", "mirror", "upload"}]
    BY DEF Init
  <2>3. dirty \in BOOLEAN /\ permit \in BOOLEAN /\ shown \in BOOLEAN /\ dropped \in BOOLEAN
    BY DEF Init
  <2>4. version \in 0..MaxVersion /\ failures \in 0..MaxFailures /\ restarts \in 0..MaxRestarts
    BY ConstantsAssumption DEF Init, ConstantsAssumption
  <2>5. QED
    BY <2>1, <2>2, <2>3, <2>4 DEF Init, TypeOK
<1>2. QED
  BY <1>1, TypeStep, PTL DEF Spec

-----------------------------------------------------------------------------
(***************************************************************************)
(* The lock.  A runner is past it exactly while it holds it, and the loop  *)
(* waits for its own run before it starts another.                         *)
(***************************************************************************)
LockHeld ==
  /\ \A r \in Runners : stage[r] \in {"mirror", "upload"} <=> holder = r
  /\ stage[Loop] # "off" <=> loop = "run"

LEMMA LockInit == Init => LockHeld
  BY ConstantsAssumption DEF ConstantsAssumption, Init, LockHeld, Runners

LEMMA LockStep ==
  ASSUME TypeOK, LockHeld, [Next]_vars
  PROVE  LockHeld'
<1> USE ConstantsAssumption DEF ConstantsAssumption, LockHeld, TypeOK
<1>1. CASE UNCHANGED <<stage, holder>> /\ (loop' = "run" <=> loop = "run")
  BY <1>1
<1>2. ASSUME NEW r \in Requests, Request(r) PROVE LockHeld'
  BY <1>2 DEF Request, Runners
<1>3. ASSUME NEW r \in Runners, Lock(r) PROVE LockHeld'
  BY <1>3 DEF Lock
<1>4. ASSUME NEW r \in Runners, Snapshot(r) PROVE LockHeld'
  BY <1>4 DEF Snapshot
<1>5. ASSUME NEW r \in Runners, Succeed(r) \/ Fail(r) PROVE LockHeld'
  <2>1. stage[r] \in {"mirror", "upload"} /\ Leave(r)
    BY <1>5 DEF Succeed, Fail
  <2>2. holder = r
    BY <2>1
  <2>3. holder' = Nobody
    BY <2>1, <2>2 DEF Leave
  <2>4. ASSUME NEW q \in Runners PROVE stage'[q] \notin {"mirror", "upload"}
    BY <2>1, <2>2 DEF Leave
  <2>5. stage'[Loop] # "off" <=> loop' = "run"
    BY <2>1, <2>2 DEF Leave, Runners
  <2>6. QED
    BY <2>3, <2>4, <2>5 DEF Runners
<1>6. ASSUME NEW r \in Runners, Hangup(r) PROVE LockHeld'
  <2>1. r \in Requests /\ stage' = [stage EXCEPT ![r] = "off"] /\ loop' = loop
    BY <1>6 DEF Hangup
  <2>2. CASE holder = r
    BY <1>6, <2>1, <2>2 DEF Hangup, Runners
  <2>3. CASE holder # r
    BY <1>6, <2>1, <2>3 DEF Hangup, Runners
  <2>4. QED
    BY <2>2, <2>3
<1>7. CASE Quiet
  BY <1>7 DEF Quiet, Runners
<1>8. CASE Restart
  BY <1>8 DEF Restart, Runners
<1>9. QED
  BY <1>1, <1>2, <1>3, <1>4, <1>5, <1>6, <1>7, <1>8
     DEF Next, RunStep, Write, Signal, WriterLost, Check, Woken, Tick,
         Disturbed, run, vars

\* Two runs of a server never upload at once.
THEOREM OneRun == Spec => []OneRunAtATime
<1>1. LockHeld => OneRunAtATime
  BY DEF LockHeld, OneRunAtATime
<1>2. TypeOK /\ LockHeld /\ [Next]_vars => LockHeld'
  BY LockStep
<1>3. QED
  BY <1>1, <1>2, LockInit, TypeCorrect, PTL DEF Spec

-----------------------------------------------------------------------------
(***************************************************************************)
(* What is about to be uploaded is not older than what the mirror holds:   *)
(* the snapshot is taken under the lock, so no other run can overtake it.  *)
(***************************************************************************)
SnapFresh == \A r \in Runners : stage[r] = "upload" => mirrored <= snap[r]

LEMMA SnapStep ==
  ASSUME TypeOK, LockHeld, SnapFresh, [Next]_vars
  PROVE  SnapFresh'
<1> USE ConstantsAssumption DEF ConstantsAssumption, SnapFresh, TypeOK
<1>1. CASE UNCHANGED <<stage, mirrored, snap>>
  BY <1>1
<1>2. ASSUME NEW r \in Requests, Request(r) PROVE SnapFresh'
  BY <1>2 DEF Request, Runners, data
<1>3. ASSUME NEW r \in Runners, Lock(r) PROVE SnapFresh'
  BY <1>3 DEF Lock, data
<1>4. ASSUME NEW r \in Runners, Snapshot(r) PROVE SnapFresh'
  BY <1>4 DEF Snapshot, data
<1>5. ASSUME NEW r \in Runners, Succeed(r) PROVE SnapFresh'
  <2>1. ASSUME NEW q \in Runners PROVE stage'[q] # "upload"
    BY <1>5 DEF Succeed, Leave, LockHeld
  <2>2. QED
    BY <2>1
<1>6. ASSUME NEW r \in Runners, Fail(r) PROVE SnapFresh'
  BY <1>6 DEF Fail, Leave, data
<1>7. ASSUME NEW r \in Runners, Hangup(r) PROVE SnapFresh'
  BY <1>7 DEF Hangup, data
<1>8. CASE Quiet
  BY <1>8 DEF Quiet, Runners, data
<1>9. CASE Restart
  BY <1>9 DEF Restart, LockHeld
<1>10. QED
  BY <1>1, <1>2, <1>3, <1>4, <1>5, <1>6, <1>7, <1>8, <1>9
     DEF Next, RunStep, Write, Signal, WriterLost, Check, Woken, Tick,
         Disturbed, run, data, vars

LEMMA Fresh == Spec => [](LockHeld /\ SnapFresh)
<1>1. Init => SnapFresh
  BY DEF Init, SnapFresh
<1>2. TypeOK /\ LockHeld /\ SnapFresh /\ [Next]_vars => LockHeld' /\ SnapFresh'
  BY LockStep, SnapStep
<1>3. QED
  BY <1>1, <1>2, LockInit, TypeCorrect, PTL DEF Spec

-----------------------------------------------------------------------------
(***************************************************************************)
(* The refinement: whatever the lock, the loop, the requests and restarts  *)
(* do, the mirror takes a step of MirrorContract or none.  A success       *)
(* catches up, a write is a change, everything else stutters.              *)
(***************************************************************************)
LEMMA ContractStep ==
  ASSUME TypeOK, LockHeld, SnapFresh, [Next]_vars
  PROVE  [Contract!Next]_<<version, mirrored>>
<1>1. CASE Write
  BY <1>1 DEF Write, Contract!Next, Contract!Change
<1>2. ASSUME NEW r \in Runners, Succeed(r)
      PROVE  Contract!Next
  BY <1>2 DEF Succeed, SnapFresh, TypeOK, Contract!Next, Contract!CatchUp
<1>3. CASE UNCHANGED <<version, mirrored>>
  BY <1>3
<1>4. QED
  BY <1>1, <1>2, <1>3
     DEF Next, RunStep, Signal, WriterLost, Request, Lock, Snapshot, Fail,
         Hangup, Check, Woken, Tick, Disturbed, Quiet, Restart,
         data, vars

\* BackupLoop implements the safety of MirrorContract.
THEOREM MirrorRefines == Spec => MirrorAdvances
<1>1. Init => Contract!Init
  BY DEF Init, Contract!Init
<1>2. TypeOK /\ LockHeld /\ SnapFresh /\ [Next]_vars
        => [Contract!Next]_<<version, mirrored>>
  BY ContractStep
<1>3. QED
  BY <1>1, <1>2, Fresh, TypeCorrect, PTL
     DEF Spec, MirrorAdvances, Contract!Spec, Contract!contract

-----------------------------------------------------------------------------
(***************************************************************************)
(* No change is forgotten.  The step that could forget one is the success  *)
(* of a run: it is saved by the flag having been cleared before the        *)
(* snapshot, so that a change after it has set the flag again.             *)
(***************************************************************************)
LEMMA ForgottenStep ==
  ASSUME TypeOK, LockHeld, SnapFresh, NoChangeForgotten,
         [Next]_vars
  PROVE  NoChangeForgotten'
<1> USE ConstantsAssumption DEF ConstantsAssumption, NoChangeForgotten, TypeOK
<1>1. CASE UNCHANGED <<version, writing, mirrored, dirty, holder, stage, snap, dropped>>
  BY <1>1
<1>2. CASE Write
  BY <1>2 DEF Write
<1>3. CASE Signal
  BY <1>3 DEF Signal
<1>4. ASSUME NEW r \in Requests, Request(r) PROVE NoChangeForgotten'
  BY <1>4 DEF Request, LockHeld, Runners, data, flags, silent
<1>5. ASSUME NEW r \in Runners, Lock(r) PROVE NoChangeForgotten'
  BY <1>5 DEF Lock, data
<1>6. ASSUME NEW r \in Runners, Snapshot(r) PROVE NoChangeForgotten'
  BY <1>6 DEF Snapshot, LockHeld, data, flags, silent
<1>7. ASSUME NEW r \in Runners, Succeed(r) PROVE NoChangeForgotten'
  BY <1>7 DEF Succeed, LockHeld, SnapFresh, flags, silent, Leave
<1>8. ASSUME NEW r \in Runners, Fail(r) PROVE NoChangeForgotten'
  BY <1>8 DEF Fail, LockHeld
<1>9. CASE Quiet
  BY <1>9 DEF Quiet, LockHeld, Runners, data, flags, silent
<1>10. CASE Restart
  BY <1>10 DEF Restart
<1>12. CASE WriterLost
  BY <1>12 DEF WriterLost
<1>13. ASSUME NEW r \in Runners, Hangup(r) PROVE NoChangeForgotten'
  <2>1. r \in Requests /\ dropped' = (dropped \/ holder = r)
    BY <1>13 DEF Hangup
  <2>2. CASE holder = r
    BY <2>1, <2>2
  <2>3. CASE holder # r
    BY <1>13, <2>1, <2>3 DEF Hangup, LockHeld, Runners, data, flags
  <2>4. QED
    BY <2>2, <2>3
<1>11. QED
  BY <1>1, <1>2, <1>3, <1>4, <1>5, <1>6, <1>7, <1>8, <1>9, <1>10, <1>12, <1>13
     DEF Next, RunStep, Check, Woken, Tick,
         Disturbed, run, data, flags, silent, vars

\* A signalled change is dirty or in the run under way, unless a future was
\* dropped since the last run began.
THEOREM NothingForgotten ==
  Spec => []NoChangeForgotten
<1>1. Init => NoChangeForgotten
  BY DEF Init, NoChangeForgotten
<1>2. TypeOK /\ LockHeld /\ SnapFresh /\ NoChangeForgotten /\ [Next]_vars
        => NoChangeForgotten'
  BY ForgottenStep
<1>3. QED
  BY <1>1, <1>2, Fresh, TypeCorrect, PTL DEF Spec

-----------------------------------------------------------------------------
(***************************************************************************)
(* The status.  Whoever clears the lock clears the status with it, but for *)
(* a request whose future is dropped while it holds the lock.              *)
(***************************************************************************)
LEMMA StatusStep ==
  ASSUME TypeOK, LockHeld, StatusTruthful, [Next]_vars
  PROVE  StatusTruthful'
<1> USE ConstantsAssumption DEF ConstantsAssumption, StatusTruthful, TypeOK
<1>1. CASE UNCHANGED <<shown, holder, dropped>>
  BY <1>1
<1>2. ASSUME NEW r \in Runners, Lock(r) PROVE StatusTruthful'
  BY <1>2 DEF Lock
<1>3. ASSUME NEW r \in Runners, Succeed(r) \/ Fail(r) PROVE StatusTruthful'
  BY <1>3 DEF Succeed, Fail, Leave
<1>4. ASSUME NEW r \in Runners, Hangup(r) PROVE StatusTruthful'
  BY <1>4 DEF Hangup
<1>5. CASE WriterLost
  BY <1>5 DEF WriterLost
<1>6. CASE Restart
  BY <1>6 DEF Restart
<1>7. CASE \/ Write \/ Signal \/ (\E r \in Requests : Request(r))
           \/ (\E r \in Runners : Snapshot(r))
           \/ Check \/ Woken \/ Tick \/ Disturbed \/ Quiet \/ UNCHANGED vars
  BY <1>1, <1>7 DEF Write, Signal, Request, Snapshot, Check, Woken, Tick, Disturbed, Quiet,
                    run, silent, vars
<1>8. QED
  BY <1>2, <1>3, <1>4, <1>5, <1>6, <1>7 DEF Next, RunStep

\* The status endpoint says "running" exactly while a run is, unless a future
\* was dropped since the last run began.
THEOREM StatusIsTrue == Spec => []StatusTruthful
<1>1. Init => StatusTruthful
  BY DEF Init, StatusTruthful
<1>2. TypeOK /\ LockHeld /\ StatusTruthful /\ [Next]_vars => StatusTruthful'
  BY StatusStep
<1>3. QED
  BY <1>1, <1>2, Fresh, TypeCorrect, PTL DEF Spec

=============================================================================
