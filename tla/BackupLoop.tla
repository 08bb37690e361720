----------------------------- MODULE BackupLoop -----------------------------
(***************************************************************************)
(* When the mirror runs: Backup::signal, Backup::run_now and the loop of   *)
(* backup::spawn (src/src/backup/mod.rs), with POST /api/backup as the     *)
(* other way to start a run.                                               *)
(*                                                                         *)
(* What a run uploads is a version number here: the snapshot it takes of   *)
(* the data directory.  The upload itself is one step that succeeds or     *)
(* fails.                                                                  *)
(***************************************************************************)
EXTENDS Naturals

CONSTANTS
  Requests,      \* calls of POST /api/backup in flight together
  Loop,          \* the task backup::spawn starts
  Nobody,
  Interval,      \* whether WORKSPACE_BACKUP_INTERVAL_MIN is above zero
  Hangups,       \* whether a request's future may be dropped
  MaxVersion,    \* bound: changes of the data directory
  MaxFailures,   \* bound: runs that fail or find no session
  MaxRestarts    \* bound: restarts of the server

Runners == Requests \cup {Loop}

ASSUME ConstantsAssumption ==
  /\ Loop \notin Requests
  /\ Nobody \notin Runners
  /\ Interval \in BOOLEAN /\ Hangups \in BOOLEAN
  /\ MaxVersion \in Nat /\ MaxFailures \in Nat /\ MaxRestarts \in Nat

VARIABLES
  version,    \* how many times the data directory has changed
  writing,    \* handlers that wrote and have not called signal yet
  mirrored,   \* the version the mirror holds
  dirty,      \* Backup::dirty
  permit,     \* Backup::wake holds a permit
  holder,     \* who holds Backup::running
  stage,      \* where each runner is in run_now
  snap,       \* the version each runner uploads
  loop,       \* where the loop is
  shown,      \* Status::running
  dropped,    \* a future was dropped half way since the last run began
  failures,   \* runs that did not succeed
  restarts    \* times the server started anew

vars == <<version, writing, mirrored, dirty, permit, holder, stage, snap,
          loop, shown, dropped, failures, restarts>>
data == <<version, writing, mirrored>>
flags == <<dirty, permit>>
run == <<holder, stage, snap, shown>>
counts == <<failures, restarts>>
silent == <<dropped, counts>>

Init ==
  /\ version = 0 /\ writing = 0 /\ mirrored = 0
  /\ dirty = TRUE                  \* Backup::new: written to while it was down?
  /\ permit = FALSE
  /\ holder = Nobody
  /\ stage = [r \in Runners |-> "off"]
  /\ snap = [r \in Runners |-> 0]
  /\ loop = "check"
  /\ shown = FALSE /\ dropped = FALSE
  /\ failures = 0 /\ restarts = 0

-----------------------------------------------------------------------------
(* The handlers that change the data directory *)

Write ==
  /\ version < MaxVersion
  /\ version' = version + 1
  /\ writing' = writing + 1
  /\ UNCHANGED <<mirrored, flags, run, loop, silent>>

Signal ==
  /\ writing > 0
  /\ writing' = writing - 1
  /\ dirty' = TRUE
  /\ permit' = TRUE
  /\ UNCHANGED <<version, mirrored, run, loop, silent>>

\* A handler that fails or is dropped after its write never signals.
WriterLost ==
  /\ Hangups
  /\ writing > 0
  /\ writing' = writing - 1
  /\ dropped' = TRUE
  /\ UNCHANGED <<version, mirrored, flags, run, loop, counts>>

-----------------------------------------------------------------------------
(* run_now *)

\* POST /api/backup: queue for the lock.
Request(r) ==
  /\ stage[r] = "off"
  /\ stage' = [stage EXCEPT ![r] = "lock"]
  /\ UNCHANGED <<data, flags, holder, snap, shown, loop, silent>>

\* A slip: no lock.
BargeIn(r) ==
  /\ stage[r] = "lock"
  /\ holder' = r
  /\ dirty' = FALSE /\ dropped' = FALSE
  /\ shown' = TRUE
  /\ stage' = [stage EXCEPT ![r] = "mirror"]
  /\ UNCHANGED <<data, permit, snap, loop, counts>>

\* The lock; the changes up to here are this run's business.
Lock(r) ==
  /\ stage[r] = "lock" /\ holder = Nobody
  /\ holder' = r
  /\ dirty' = FALSE /\ dropped' = FALSE
  /\ shown' = TRUE
  /\ stage' = [stage EXCEPT ![r] = "mirror"]
  /\ UNCHANGED <<data, permit, snap, loop, counts>>

\* sync::run begins with the snapshot of the database.
Snapshot(r) ==
  /\ stage[r] = "mirror"
  /\ snap' = [snap EXCEPT ![r] = version]
  /\ stage' = [stage EXCEPT ![r] = "upload"]
  /\ UNCHANGED <<data, flags, holder, shown, loop, silent>>

\* Leaving run_now: the lock is released, the loop goes round.
Leave(r) ==
  /\ holder' = Nobody
  /\ shown' = FALSE
  /\ stage' = [stage EXCEPT ![r] = "off"]
  /\ snap' = [snap EXCEPT ![r] = 0]
  /\ loop' = IF r = Loop THEN "check" ELSE loop

Succeed(r) ==
  /\ stage[r] = "upload"
  /\ mirrored' = snap[r]
  /\ Leave(r)
  /\ UNCHANGED <<version, writing, flags, silent>>

\* A slip: leaving through `?`, past the end of the status update.
FailEarly(r) ==
  /\ stage[r] \in {"mirror", "upload"}
  /\ failures < MaxFailures
  /\ failures' = failures + 1
  /\ dirty' = TRUE
  /\ holder' = Nobody
  /\ stage' = [stage EXCEPT ![r] = "off"]
  /\ snap' = [snap EXCEPT ![r] = 0]
  /\ loop' = IF r = Loop THEN "check" ELSE loop
  /\ UNCHANGED <<data, permit, shown, dropped, restarts>>

\* A slip: a failed run counts as done.
FailAndForget(r) ==
  /\ stage[r] \in {"mirror", "upload"}
  /\ failures < MaxFailures
  /\ failures' = failures + 1
  /\ Leave(r)
  /\ UNCHANGED <<data, flags, dropped, restarts>>

\* An error, or no session stored: the changes are still outstanding.
Fail(r) ==
  /\ stage[r] \in {"mirror", "upload"}
  /\ failures < MaxFailures
  /\ failures' = failures + 1
  /\ dirty' = TRUE
  /\ Leave(r)
  /\ UNCHANGED <<data, permit, dropped, restarts>>

\* The client of POST /api/backup goes away and the handler's future is
\* dropped where it stands: the guard releases the lock, nothing else runs.
Hangup(r) ==
  /\ Hangups
  /\ r \in Requests
  /\ stage[r] # "off"
  /\ holder' = IF holder = r THEN Nobody ELSE holder
  /\ stage' = [stage EXCEPT ![r] = "off"]
  /\ snap' = [snap EXCEPT ![r] = 0]
  /\ dropped' = (dropped \/ holder = r)
  /\ UNCHANGED <<data, flags, shown, loop, counts>>

-----------------------------------------------------------------------------
(* The loop *)

Check ==
  /\ loop = "check"
  /\ loop' = IF dirty THEN "debounce" ELSE "wait"
  /\ UNCHANGED <<data, flags, run, silent>>

Woken ==
  /\ loop = "wait" /\ permit
  /\ permit' = FALSE
  /\ loop' = "check"
  /\ UNCHANGED <<data, dirty, run, silent>>

\* A slip: the timer leads back to the check of the flag.
TickAndCheck ==
  /\ Interval
  /\ loop = "wait"
  /\ loop' = "check"
  /\ UNCHANGED <<data, flags, run, silent>>

Tick ==
  /\ Interval
  /\ loop = "wait"
  /\ loop' = "debounce"
  /\ UNCHANGED <<data, flags, run, silent>>

\* A further change restarts the quiet period.
Disturbed ==
  /\ loop = "debounce" /\ permit
  /\ permit' = FALSE
  /\ UNCHANGED <<data, dirty, run, loop, silent>>

\* The quiet period is over.  select! polls its branches in no fixed order, so
\* this may happen although a permit has just arrived.
Quiet ==
  /\ loop = "debounce"
  /\ loop' = "run"
  /\ stage' = [stage EXCEPT ![Loop] = "lock"]
  /\ UNCHANGED <<data, flags, holder, snap, shown, silent>>

\* The server stops and starts: what Backup held in memory is new.
Restart ==
  /\ restarts < MaxRestarts
  /\ restarts' = restarts + 1
  /\ writing' = 0
  /\ dirty' = TRUE /\ permit' = FALSE
  /\ holder' = Nobody /\ shown' = FALSE
  /\ stage' = [r \in Runners |-> "off"]
  /\ snap' = [r \in Runners |-> 0]
  /\ loop' = "check"
  /\ dropped' = FALSE
  /\ UNCHANGED <<version, mirrored, failures>>

RunStep(r) == Lock(r) \/ Snapshot(r) \/ Succeed(r) \/ Fail(r)

Next ==
  \/ Write \/ Signal \/ WriterLost
  \/ \E r \in Requests : Request(r)
  \/ \E r \in Runners : RunStep(r) \/ Hangup(r)
  \/ Check \/ Woken \/ Tick \/ Disturbed \/ Quiet
  \/ Restart

Spec == Init /\ [][Next]_vars

(***************************************************************************)
(* The runtime polls every task that can go on, timers fire, and an upload *)
(* that can end does.  tokio's Mutex is first come first served, so the    *)
(* loop gets the lock however many requests there are.  Users owe nothing. *)
(***************************************************************************)
Fairness ==
  /\ WF_vars(Signal \/ WriterLost)
  /\ WF_vars(Check) /\ WF_vars(Woken) /\ WF_vars(Tick)
  /\ WF_vars(Disturbed) /\ WF_vars(Quiet)
  /\ SF_vars(Lock(Loop))
  /\ \A r \in Runners : WF_vars(Snapshot(r) \/ Succeed(r) \/ Fail(r))

FairSpec == Spec /\ Fairness

-----------------------------------------------------------------------------
(* Properties *)

TypeOK ==
  /\ version \in 0..MaxVersion
  /\ writing \in 0..version
  /\ mirrored \in 0..version
  /\ dirty \in BOOLEAN /\ permit \in BOOLEAN
  /\ shown \in BOOLEAN /\ dropped \in BOOLEAN
  /\ holder \in Runners \cup {Nobody}
  /\ stage \in [Runners -> {"off", "lock", "mirror", "upload"}]
  /\ snap \in [Runners -> 0..version]
  /\ loop \in {"check", "wait", "debounce", "run"}
  /\ failures \in 0..MaxFailures
  /\ restarts \in 0..MaxRestarts

(***************************************************************************)
(* No change is forgotten: once its handler has signalled, a change that   *)
(* the mirror lacks is marked dirty, or is in the run under way, which     *)
(* clears the flag before it looks at the data and sets it again if it     *)
(* fails (mod.rs:103, 122-135).  Only a future that is dropped half way    *)
(* forgets one, and only until the next run begins.                        *)
(***************************************************************************)
NoChangeForgotten ==
  (mirrored < version /\ writing = 0 /\ ~dropped) =>
     \/ dirty
     \/ holder # Nobody /\ (stage[holder] = "upload" => snap[holder] = version)

(***************************************************************************)
(* Two runs never upload at once (mod.rs:61).                              *)
(***************************************************************************)
OneRunAtATime ==
  \A r, q \in Runners :
     (stage[r] \in {"mirror", "upload"} /\ stage[q] \in {"mirror", "upload"})
        => r = q

(***************************************************************************)
(* The status endpoint says "running" exactly while a run is (mod.rs:36),  *)
(* across failures and restarts; a request whose future is dropped leaves  *)
(* it at running, until the next run.                                      *)
(***************************************************************************)
StatusTruthful == ~dropped => (shown <=> holder # Nobody)

(***************************************************************************)
(* The mirror never goes back and never runs ahead: each step of this      *)
(* module is a step of the contract, or none.                              *)
(***************************************************************************)
Contract == INSTANCE MirrorContract WITH version <- version, mirrored <- mirrored
MirrorAdvances == Contract!Spec

(***************************************************************************)
(* Every change reaches the mirror in the end, once runs stop failing,     *)
(* whatever was dropped on the way: the interval is the backstop           *)
(* (README.md:178).                                                        *)
(***************************************************************************)
EveryChangeMirrored ==
  \A v \in 1..MaxVersion : Contract!Behind(v) ~> Contract!Reached(v)

=============================================================================
