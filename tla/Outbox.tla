------------------------------- MODULE Outbox -------------------------------
(***************************************************************************)
(* The outbox: mail::enqueue, mail::retry_due and mail::send_pending       *)
(* (src/src/mail/mod.rs) over the table notifications, driven by the tick  *)
(* of notify::spawn once a minute.                                         *)
(*                                                                         *)
(* A mail is named by its dedupe_key.  The table keeps its rows after they *)
(* are sent, so the queue only ever grows.  Time is counted in minutes     *)
(* since the last attempt, no further than the longest wait.               *)
(***************************************************************************)
EXTENDS Naturals, Sequences, FiniteSets

CONSTANTS
  Keys,          \* the occurrences a mail may be about
  Refused,       \* the mails the relay will never take
  Batch,         \* LIMIT of the query, 50 in the code
  MaxAttempts,   \* 10 in the code
  FirstRetry,    \* minutes, 1 in the code
  MaxRetry,      \* minutes, 60 in the code
  MaxOutages,    \* bound: refusals of mails the relay would take
  MaxCrashes     \* bound: passes that die between two statements

ASSUME ConstantsAssumption ==
  /\ Refused \subseteq Keys
  /\ Batch \in Nat \ {0}
  /\ MaxAttempts \in Nat \ {0}
  /\ FirstRetry \in Nat \ {0}
  /\ MaxRetry \in Nat /\ MaxRetry >= FirstRetry
  /\ MaxOutages \in Nat /\ MaxCrashes \in Nat

VARIABLES
  queue,      \* the rows in the order they were created
  sent,       \* the rows with a sent_at
  attempts,   \* the column attempts
  age,        \* minutes since last_attempt_at
  accepted,   \* how often the relay took the mail
  pass,       \* "idle", or the statement the pass of send_pending runs next
  todo,       \* the rows the pass has selected and not come to yet
  current,    \* the row it is at, as a set of one, or none
  outages, crashes

vars == <<queue, sent, attempts, age, accepted, pass, todo, current,
          outages, crashes>>
columns == <<queue, sent, attempts, age>>
cursor == <<pass, todo, current>>

Queued(k) == \E i \in DOMAIN queue : queue[i] = k

\* ORDER BY created_at
Older(j, k) ==
  \E m, n \in DOMAIN queue : m < n /\ queue[m] = j /\ queue[n] = k

Init ==
  /\ queue = <<>>
  /\ sent = {}
  /\ attempts = [k \in Keys |-> 0]
  /\ age = [k \in Keys |-> 0]
  /\ accepted = [k \in Keys |-> 0]
  /\ pass = "idle"
  /\ todo = {} /\ current = {}
  /\ outages = 0 /\ crashes = 0

\* INSERT OR IGNORE: the sweep asks every minute, the first ask queues.
Enqueue(k) ==
  /\ ~Queued(k)
  /\ queue' = Append(queue, k)
  /\ UNCHANGED <<sent, attempts, age, accepted, cursor, outages, crashes>>

-----------------------------------------------------------------------------
(* retry_due *)

Shorter(a, b) == IF a <= b THEN a ELSE b

\* FIRST_RETRY << (n - 1), up to an hour: the shift overflows only beyond it.
Wait(n) == Shorter(FirstRetry * 2 ^ ((IF n = 0 THEN 1 ELSE n) - 1), MaxRetry)

\* A slip: the wait is not asked.
RetryAtOnce(k) == attempts[k] < MaxAttempts

\* attempts = 0 exactly when last_attempt_at is NULL.
RetryDue(k) ==
  \/ attempts[k] = 0
  \/ attempts[k] < MaxAttempts /\ age[k] >= Wait(attempts[k])

-----------------------------------------------------------------------------
(* send_pending *)

Unsent == {k \in Keys : Queued(k) /\ k \notin sent}

\* The oldest unsent rows, and of those the ones whose time has come.
Selection ==
  LET oldest == {k \in Unsent : Cardinality({j \in Unsent : Older(j, k)}) < Batch}
  IN  {k \in oldest : RetryDue(k)}

Select ==
  /\ pass = "idle"
  /\ Selection # {}
  /\ pass' = "send"
  /\ todo' = Selection
  /\ UNCHANGED <<columns, accepted, current, outages, crashes>>

\* The relay takes the mail; it may do so twice if it is offered twice.
Deliver(k) == accepted' = [accepted EXCEPT ![k] = @ + 1]

Send ==
  /\ pass = "send"
  /\ \E k \in todo :
       /\ \A j \in todo : ~Older(j, k)
       /\ todo' = todo \ {k}
       /\ current' = {k}
       /\ \/ /\ k \notin Refused
             /\ Deliver(k)
             /\ pass' = "recordSent"
             /\ UNCHANGED outages
          \/ /\ k \in Refused
             /\ pass' = "recordRefused"
             /\ UNCHANGED <<accepted, outages>>
          \/ /\ outages < MaxOutages       \* refused, or taken and not answered
             /\ outages' = outages + 1
             /\ pass' = "recordRefused"
             /\ UNCHANGED accepted \/ (k \notin Refused /\ Deliver(k))
  /\ UNCHANGED <<columns, crashes>>

\* On to the next row of the selection.
Onward ==
  /\ current' = {}
  /\ pass' = IF todo = {} THEN "idle" ELSE "send"
  /\ UNCHANGED todo

\* Both updates count the attempt and stamp it.
Stamp ==
  /\ attempts' = [k \in Keys |-> IF k \in current THEN attempts[k] + 1 ELSE attempts[k]]
  /\ age' = [k \in Keys |-> IF k \in current THEN 0 ELSE age[k]]

\* A slip: a mail that was refused is struck off the list.
RecordRefusedAsSent ==
  /\ pass = "recordRefused"
  /\ Stamp
  /\ sent' = sent \cup current
  /\ Onward
  /\ UNCHANGED <<queue, accepted, outages, crashes>>

\* A slip: the first refusal ends the pass, and is not counted.
RecordRefusedAndStop ==
  /\ pass = "recordRefused"
  /\ pass' = "idle" /\ todo' = {} /\ current' = {}
  /\ UNCHANGED <<columns, accepted, outages, crashes>>

\* A slip: the attempt is counted, the row is not marked.
RecordUnmarked ==
  /\ pass = "recordSent"
  /\ Stamp
  /\ Onward
  /\ UNCHANGED <<queue, sent, accepted, outages, crashes>>

RecordSent ==
  /\ pass = "recordSent"
  /\ Stamp
  /\ sent' = sent \cup current
  /\ Onward
  /\ UNCHANGED <<queue, accepted, outages, crashes>>

RecordRefused ==
  /\ pass = "recordRefused"
  /\ Stamp
  /\ Onward
  /\ UNCHANGED <<queue, sent, accepted, outages, crashes>>

\* The server stops, or the database refuses the UPDATE and `?` ends the pass.
Crash ==
  /\ crashes < MaxCrashes
  /\ pass # "idle"
  /\ crashes' = crashes + 1
  /\ pass' = "idle" /\ todo' = {} /\ current' = {}
  /\ UNCHANGED <<columns, accepted, outages>>

Minute ==
  /\ age' = [k \in Keys |-> IF attempts[k] = 0 THEN 0
                            ELSE Shorter(age[k] + 1, MaxRetry)]
  /\ UNCHANGED <<queue, sent, attempts, accepted, cursor, outages, crashes>>

Next ==
  \/ \E k \in Keys : Enqueue(k)
  \/ Select \/ Send \/ RecordSent \/ RecordRefused
  \/ Crash
  \/ Minute

Spec == Init /\ [][Next]_vars

\* The clock runs, the tick comes round, and a pass that has begun goes on.
FairSpec ==
  /\ Spec
  /\ WF_vars(Minute) /\ WF_vars(Select)
  /\ WF_vars(Send) /\ WF_vars(RecordSent) /\ WF_vars(RecordRefused)

-----------------------------------------------------------------------------
(* Properties *)

TypeOK ==
  /\ queue \in Seq(Keys)
  /\ sent \subseteq Keys
  /\ attempts \in [Keys -> 0..MaxAttempts]
  /\ age \in [Keys -> 0..MaxRetry]
  /\ accepted \in [Keys -> Nat]
  /\ pass \in {"idle", "send", "recordSent", "recordRefused"}
  /\ todo \subseteq Keys /\ current \subseteq Keys
  /\ outages \in 0..MaxOutages
  /\ crashes \in 0..MaxCrashes

(***************************************************************************)
(* One row per occurrence, however often it is noticed                     *)
(* (an_occurrence_is_only_queued_once, mail/mod.rs:215).                   *)
(***************************************************************************)
QueuedOnce ==
  \A i, j \in DOMAIN queue : queue[i] = queue[j] => i = j

(***************************************************************************)
(* A relay that refuses cannot lose a mail (mail/mod.rs:7): what is marked *)
(* sent was taken by the relay, across crashes and lost answers.           *)
(***************************************************************************)
NothingLost == \A k \in sent : accepted[k] > 0

(***************************************************************************)
(* A mail the relay keeps refusing is left alone in the end                *)
(* (mail/mod.rs:208): what a pass has picked up, however long ago, has     *)
(* been offered fewer than MaxAttempts times.                              *)
(***************************************************************************)
LeftAlone == \A k \in todo \cup current : attempts[k] < MaxAttempts

(***************************************************************************)
(* The relay takes a mail once more for each crash and each lost answer,   *)
(* and no more often than that: passes do not overlap, and the row of a    *)
(* mail that is sent is never selected again (mail/mod.rs:5).              *)
(***************************************************************************)
SentOnceButForLosses == \A k \in Keys : accepted[k] <= 1 + outages + crashes

(***************************************************************************)
(* A refused mail waits before it is offered again, longer every time.     *)
(***************************************************************************)
BackoffKept ==
  [][pass = "send" =>
       \A k \in current' : attempts[k] > 0 => age[k] >= Wait(attempts[k])]_vars

(***************************************************************************)
(* One bad message does not block the ones behind it (mail/mod.rs:131): a  *)
(* mail the relay would take leaves in the end.                            *)
(***************************************************************************)
GoodMailLeaves ==
  \A k \in Keys \ Refused : Queued(k) ~> k \in sent

=============================================================================
