--------------------------- MODULE BackoffProofs ---------------------------
(***************************************************************************)
(* Proofs about the two parts that make somebody wait longer after every   *)
(* failure: Outbox, for any set of mails, any batch, any limits and any    *)
(* number of outages and crashes; and LoginThrottle, for any logins in     *)
(* flight, any width of the seconds and any run of failures.               *)
(***************************************************************************)
EXTENDS Outbox, LoginThrottle, TLAPS, WellFoundedInduction, FiniteSetTheorems

(***************************************************************************)
(* The inductive invariant.  TypeOK bounds the attempts, which holds only  *)
(* because what a pass has picked up still has an offer to go; and what it *)
(* is about to mark as sent has been taken.                                *)
(***************************************************************************)
OneAtATime ==
  /\ current \cap todo = {}
  /\ pass = "idle" => current = {}

TakenBeforeMarked == pass = "recordSent" => \A k \in current : accepted[k] > 0

IInv == TypeOK /\ OneAtATime /\ LeftAlone /\ NothingLost /\ TakenBeforeMarked

LEMMA InitInv == Init => IInv
<1> SUFFICES ASSUME Init PROVE IInv
  OBVIOUS
<1> USE ConstantsAssumption DEF ConstantsAssumption, Init
<1>1. TypeOK
  BY DEF TypeOK
<1>2. OneAtATime /\ LeftAlone
  BY DEF OneAtATime, LeftAlone
<1>3. NothingLost /\ TakenBeforeMarked
  BY DEF NothingLost, TakenBeforeMarked
<1>4. QED
  BY <1>1, <1>2, <1>3 DEF IInv

LEMMA SelectedDue ==
  ASSUME NEW k \in Selection, TypeOK
  PROVE  k \in Keys /\ attempts[k] < MaxAttempts
  BY ConstantsAssumption DEF ConstantsAssumption, Selection, Unsent, RetryDue, TypeOK

LEMMA EnqueueInv == ASSUME IInv, NEW k \in Keys, Enqueue(k) PROVE IInv'
<1>1. queue' \in Seq(Keys)
  BY DEF Enqueue, IInv, TypeOK
<1>2. UNCHANGED <<sent, attempts, age, accepted, pass, todo, current, outages, crashes>>
  BY DEF Enqueue, cursor
<1>3. QED
  BY <1>1, <1>2 DEF IInv, TypeOK, OneAtATime, LeftAlone, NothingLost, TakenBeforeMarked

LEMMA SelectInv == ASSUME IInv, Select PROVE IInv'
<1>1. /\ pass = "idle" /\ pass' = "send" /\ todo' = Selection
      /\ UNCHANGED <<queue, sent, attempts, age, accepted, current, outages, crashes>>
  BY DEF Select, columns
<1>2. \A k \in todo' : k \in Keys /\ attempts[k] < MaxAttempts
  BY <1>1, SelectedDue DEF IInv
<1>3. current = {}
  BY <1>1 DEF IInv, OneAtATime
<1>4. TypeOK'
  <2>1. todo' \subseteq Keys
    BY <1>2
  <2>2. QED
    BY <1>1, <2>1 DEF IInv, TypeOK
<1>5. OneAtATime' /\ LeftAlone'
  BY <1>1, <1>2, <1>3 DEF OneAtATime, LeftAlone
<1>6. NothingLost' /\ TakenBeforeMarked'
  BY <1>1 DEF IInv, NothingLost, TakenBeforeMarked
<1>7. QED
  BY <1>4, <1>5, <1>6 DEF IInv

LEMMA DeliverType ==
  ASSUME TypeOK, NEW k \in Keys, Deliver(k)
  PROVE  /\ accepted' \in [Keys -> Nat]
         /\ accepted'[k] = accepted[k] + 1
         /\ \A j \in Keys \ {k} : accepted'[j] = accepted[j]
<1>1. accepted \in [Keys -> Nat] /\ accepted' = [accepted EXCEPT ![k] = accepted[k] + 1]
  BY DEF Deliver, TypeOK
<1>2. QED
  BY <1>1

LEMMA SendInv == ASSUME IInv, Send PROVE IInv'
<1>1. PICK k \in todo :
        /\ todo' = todo \ {k} /\ current' = {k}
        /\ \/ Deliver(k) /\ pass' \in {"recordSent", "recordRefused"}
           \/ UNCHANGED accepted /\ pass' = "recordRefused"
        /\ outages' \in {outages, outages + 1}
        /\ outages' # outages => outages < MaxOutages
  BY DEF Send
<1>2. UNCHANGED <<queue, sent, attempts, age, crashes>>
  BY DEF Send, columns
<1>3. k \in Keys
  BY DEF IInv, TypeOK
<1>4. /\ accepted' \in [Keys -> Nat]
      /\ \A j \in Keys : accepted[j] > 0 => accepted'[j] > 0
      /\ pass' = "recordSent" => accepted'[k] > 0
  <2>1. TypeOK
    BY DEF IInv
  <2>2. CASE Deliver(k)
    <3>1. accepted' \in [Keys -> Nat] /\ accepted'[k] = accepted[k] + 1
      BY <1>3, <2>1, <2>2, DeliverType
    <3>2. \A j \in Keys \ {k} : accepted'[j] = accepted[j]
      BY <1>3, <2>1, <2>2, DeliverType
    <3>3. accepted[k] \in Nat
      BY <1>3, <2>1 DEF TypeOK
    <3>4. accepted'[k] > 0
      BY <3>1, <3>3
    <3>5. QED
      BY <3>1, <3>2, <3>4
  <2>3. CASE UNCHANGED accepted /\ pass' = "recordRefused"
    BY <2>1, <2>3 DEF TypeOK
  <2>4. QED
    BY <1>1, <2>2, <2>3
<1>5. TypeOK'
  <2>1. outages' \in 0..MaxOutages
    BY <1>1, ConstantsAssumption DEF IInv, TypeOK, ConstantsAssumption
  <2>2. QED
    BY <1>1, <1>2, <1>3, <1>4, <2>1 DEF IInv, TypeOK
<1>6. OneAtATime' /\ LeftAlone'
  BY <1>1, <1>2 DEF IInv, OneAtATime, LeftAlone
<1>7. NothingLost' /\ TakenBeforeMarked'
  BY <1>1, <1>2, <1>4 DEF IInv, TypeOK, NothingLost, TakenBeforeMarked
<1>8. QED
  BY <1>5, <1>6, <1>7 DEF IInv

LEMMA RecordInv == ASSUME IInv, RecordSent \/ RecordRefused PROVE IInv'
<1>1. /\ Stamp /\ current' = {} /\ todo' = todo /\ pass' \in {"idle", "send"}
      /\ UNCHANGED <<queue, accepted, outages, crashes>>
      /\ sent' = sent \/ (pass = "recordSent" /\ sent' = sent \cup current)
  BY DEF RecordSent, RecordRefused, Onward
<1>2. \A k \in Keys : attempts'[k] = IF k \in current THEN attempts[k] + 1 ELSE attempts[k]
  BY <1>1 DEF Stamp
<1>3. TypeOK'
  <2>1. attempts' \in [Keys -> 0..MaxAttempts]
    BY <1>1, ConstantsAssumption
       DEF Stamp, IInv, TypeOK, LeftAlone, ConstantsAssumption
  <2>2. age' \in [Keys -> 0..MaxRetry]
    BY <1>1, ConstantsAssumption DEF Stamp, IInv, TypeOK, ConstantsAssumption
  <2>3. QED
    BY <1>1, <2>1, <2>2 DEF IInv, TypeOK
<1>4. OneAtATime'
  BY <1>1 DEF OneAtATime
<1>5. LeftAlone'
  BY <1>1, <1>2 DEF IInv, TypeOK, OneAtATime, LeftAlone
<1>6. NothingLost' /\ TakenBeforeMarked'
  BY <1>1 DEF IInv, NothingLost, TakenBeforeMarked
<1>7. QED
  BY <1>3, <1>4, <1>5, <1>6 DEF IInv

LEMMA CrashInv == ASSUME IInv, Crash PROVE IInv'
<1>1. TypeOK'
  BY ConstantsAssumption DEF Crash, columns, IInv, TypeOK, ConstantsAssumption
<1>2. QED
  BY <1>1 DEF Crash, columns, IInv, OneAtATime, LeftAlone, NothingLost, TakenBeforeMarked

LEMMA MinuteInv == ASSUME IInv, Minute PROVE IInv'
<1>1. UNCHANGED <<queue, sent, attempts, accepted, pass, todo, current, outages, crashes>>
  BY DEF Minute, cursor
<1>2. age' \in [Keys -> 0..MaxRetry]
  BY ConstantsAssumption DEF ConstantsAssumption, Minute, IInv, TypeOK, Shorter
<1>3. QED
  BY <1>1, <1>2 DEF IInv, TypeOK, OneAtATime, LeftAlone, NothingLost, TakenBeforeMarked

LEMMA Inductive == Spec => []IInv
<1>1. IInv /\ [Next]_vars => IInv'
  <2> SUFFICES ASSUME IInv, [Next]_vars PROVE IInv'
    OBVIOUS
  <2>1. CASE UNCHANGED vars
    BY <2>1 DEF vars, IInv, TypeOK, OneAtATime, LeftAlone, NothingLost, TakenBeforeMarked
  <2>2. QED
    BY <2>1, EnqueueInv, SelectInv, SendInv, RecordInv, CrashInv, MinuteInv DEF Next
<1>2. QED
  BY <1>1, InitInv, PTL DEF Spec

\* Every column keeps its type; the count of attempts stops at MaxAttempts.
THEOREM TypeCorrect == Spec => []TypeOK
<1>1. IInv => TypeOK
  BY DEF IInv
<1>2. QED
  BY <1>1, Inductive, PTL

\* What is marked sent was taken by the relay.
THEOREM NoMailLost == Spec => []NothingLost
<1>1. IInv => NothingLost
  BY DEF IInv
<1>2. QED
  BY <1>1, Inductive, PTL

\* A refused mail is offered MaxAttempts times at most.
THEOREM RefusedLeftAlone == Spec => []LeftAlone
<1>1. IInv => LeftAlone
  BY DEF IInv
<1>2. QED
  BY <1>1, Inductive, PTL

-----------------------------------------------------------------------------
(***************************************************************************)
(* How often the relay takes a mail.  The one time that needs no loss is   *)
(* accounted for by the row being marked, or about to be; a mail that is   *)
(* still to be offered has been taken only as often as something was lost. *)
(***************************************************************************)
Settling(k) == k \in sent \/ (pass = "recordSent" /\ k \in current)

LossInv ==
  /\ todo \cap sent = {}
  /\ \A k \in Keys : accepted[k] <= (IF Settling(k) THEN 1 ELSE 0) + outages + crashes

LEMMA LossSelect == ASSUME IInv, LossInv, Select PROVE LossInv'
<1>1. /\ pass = "idle" /\ pass' = "send" /\ todo' = Selection
      /\ UNCHANGED <<sent, accepted, current, outages, crashes>>
  BY DEF Select, columns
<1>2. Selection \cap sent = {}
  BY DEF Selection, Unsent
<1>3. QED
  BY <1>1, <1>2 DEF LossInv, Settling

LEMMA LossSend == ASSUME IInv, LossInv, Send PROVE LossInv'
<1>1. PICK k \in todo :
        /\ todo' = todo \ {k} /\ current' = {k}
        /\ \/ Deliver(k) /\ pass' = "recordSent" /\ outages' = outages
           \/ Deliver(k) /\ pass' = "recordRefused" /\ outages' = outages + 1
           \/ /\ UNCHANGED accepted /\ pass' = "recordRefused"
              /\ outages' \in {outages, outages + 1}
  BY DEF Send
<1>2. pass = "send" /\ UNCHANGED <<sent, crashes>>
  BY DEF Send, columns
<1>3. TypeOK /\ k \in Keys /\ k \notin sent /\ outages \in Nat /\ crashes \in Nat
  BY ConstantsAssumption DEF IInv, TypeOK, LossInv, ConstantsAssumption
<1>4. todo' \cap sent' = {}
  BY <1>1, <1>2 DEF LossInv
<1>5. accepted[k] <= outages + crashes
  BY <1>2, <1>3 DEF LossInv, Settling, TypeOK
<1>6. ASSUME NEW j \in Keys
      PROVE  accepted'[j] <= (IF Settling(j)' THEN 1 ELSE 0) + outages' + crashes'
  <2>1. accepted[j] \in Nat /\ accepted[j] <= (IF Settling(j) THEN 1 ELSE 0) + outages + crashes
    BY <1>3 DEF LossInv, TypeOK
  <2>2. Settling(j) <=> j \in sent
    BY <1>2 DEF Settling
  <2>3. Settling(j)' <=> j \in sent \/ (pass' = "recordSent" /\ j = k)
    BY <1>1, <1>2 DEF Settling
  <2>4. accepted' = accepted
          \/ (accepted'[k] = accepted[k] + 1 /\ \A i \in Keys \ {k} : accepted'[i] = accepted[i])
    BY <1>1, <1>3, DeliverType
  <2>5. outages' \in Nat /\ outages <= outages' /\ crashes' = crashes
    BY <1>1, <1>2, <1>3
  <2>6. CASE j # k
    BY <1>3, <2>1, <2>2, <2>3, <2>4, <2>5, <2>6
  <2>7. CASE j = k /\ Deliver(k)
    <3>1. accepted'[k] = accepted[k] + 1
      BY <1>3, <2>7, DeliverType
    <3>2. pass' = "recordSent" \/ outages' = outages + 1 \/ UNCHANGED accepted
      BY <1>1
    <3>3. QED
      BY <1>3, <1>5, <2>1, <2>3, <2>5, <2>7, <3>1, <3>2
  <2>8. CASE j = k /\ UNCHANGED accepted
    BY <1>3, <1>5, <2>1, <2>5, <2>8
  <2>9. QED
    BY <1>1, <2>6, <2>7, <2>8
<1>7. QED
  BY <1>4, <1>6 DEF LossInv

LEMMA LossRecord == ASSUME IInv, LossInv, RecordSent \/ RecordRefused PROVE LossInv'
<1>1. /\ current' = {} /\ todo' = todo /\ pass' \in {"idle", "send"}
      /\ UNCHANGED <<accepted, outages, crashes>>
      /\ \/ sent' = sent /\ pass = "recordRefused"
         \/ pass = "recordSent" /\ sent' = sent \cup current
  BY DEF RecordSent, RecordRefused, Onward
<1>2. \A k \in Keys : Settling(k)' <=> Settling(k)
  BY <1>1 DEF Settling
<1>3. todo' \cap sent' = {}
  BY <1>1 DEF LossInv, IInv, OneAtATime
<1>4. QED
  BY <1>1, <1>2, <1>3 DEF LossInv

LEMMA LossCrash == ASSUME IInv, LossInv, Crash PROVE LossInv'
<1>1. /\ crashes' = crashes + 1 /\ todo' = {} /\ current' = {}
      /\ UNCHANGED <<sent, accepted, outages>>
  BY DEF Crash, columns
<1>2. TypeOK /\ outages \in Nat /\ crashes \in Nat
  BY ConstantsAssumption DEF IInv, TypeOK, ConstantsAssumption
<1>3. ASSUME NEW j \in Keys
      PROVE  accepted'[j] <= (IF Settling(j)' THEN 1 ELSE 0) + outages' + crashes'
  <2>1. accepted[j] \in Nat /\ accepted[j] <= (IF Settling(j) THEN 1 ELSE 0) + outages + crashes
    BY <1>2 DEF LossInv, TypeOK
  <2>2. j \in sent => Settling(j)'
    BY <1>1 DEF Settling
  <2>3. QED
    BY <1>1, <1>2, <2>1, <2>2
<1>4. QED
  BY <1>1, <1>3 DEF LossInv

\* Every time but one that the relay takes a mail was a crash or a lost answer.
THEOREM SentOnceEach == Spec => []SentOnceButForLosses
<1>1. Init => LossInv
  BY DEF Init, LossInv, Settling
<1>2. IInv /\ LossInv /\ [Next]_vars => LossInv'
  <2> SUFFICES ASSUME IInv, LossInv, [Next]_vars PROVE LossInv'
    OBVIOUS
  <2>1. CASE UNCHANGED <<sent, accepted, pass, todo, current, outages, crashes>>
    BY <2>1 DEF LossInv, Settling
  <2>2. QED
    BY <2>1, LossSelect, LossSend, LossRecord, LossCrash
       DEF Next, Enqueue, Minute, cursor, vars
<1>3. IInv /\ LossInv => SentOnceButForLosses
  BY ConstantsAssumption
     DEF IInv, TypeOK, LossInv, SentOnceButForLosses, ConstantsAssumption
<1>4. QED
  BY <1>1, <1>2, <1>3, Inductive, PTL DEF Spec

-----------------------------------------------------------------------------
\* One row per occurrence.
THEOREM OneRowEach == Spec => []QueuedOnce
<1>1. Init => QueuedOnce
  BY DEF Init, QueuedOnce
<1>2. IInv /\ QueuedOnce /\ [Next]_vars => QueuedOnce'
  <2> SUFFICES ASSUME IInv, QueuedOnce, [Next]_vars PROVE QueuedOnce'
    OBVIOUS
  <2>1. ASSUME NEW k \in Keys, Enqueue(k) PROVE QueuedOnce'
    <3>1. queue \in Seq(Keys) /\ queue' = Append(queue, k)
      BY <2>1 DEF Enqueue, IInv, TypeOK
    <3>2. \A i \in DOMAIN queue : queue'[i] = queue[i] /\ queue[i] # k
      BY <2>1, <3>1 DEF Enqueue, Queued
    <3>3. queue'[Len(queue) + 1] = k /\ DOMAIN queue' = DOMAIN queue \cup {Len(queue) + 1}
      BY <3>1
    <3>4. QED
      BY <3>2, <3>3 DEF QueuedOnce
  <2>2. CASE UNCHANGED queue
    BY <2>2 DEF QueuedOnce
  <2>3. QED
    BY <2>1, <2>2 DEF Next, Select, Send, RecordSent, RecordRefused, Crash, Minute,
                      columns, vars
<1>3. QED
  BY <1>1, <1>2, Inductive, PTL DEF Spec

-----------------------------------------------------------------------------
(***************************************************************************)
(* The waits.  A wait is no longer than the clock of a row counts, so what *)
(* was due when it was selected stays due until it is offered.             *)
(***************************************************************************)
LEMMA WaitBounded == ASSUME NEW n \in Nat PROVE Wait(n) \in Int /\ Wait(n) <= MaxRetry
<1> DEFINE doublings == (IF n = 0 THEN 1 ELSE n) - 1
<1>1. doublings \in Nat
  OBVIOUS
<1>2. 2 ^ doublings \in Int
  BY <1>1, SMT
<1>3. FirstRetry \in Nat /\ MaxRetry \in Nat
  BY ConstantsAssumption DEF ConstantsAssumption
<1>4. Wait(n) = Shorter(FirstRetry * 2 ^ doublings, MaxRetry)
  BY DEF Wait
<1>5. QED
  BY <1>2, <1>3, <1>4 DEF Shorter

Due(k) == attempts[k] > 0 => age[k] >= Wait(attempts[k])

DueInv ==
  /\ \A k \in todo : Due(k)
  /\ pass = "send" => current = {}

LEMMA DueStep == ASSUME IInv, DueInv, [Next]_vars PROVE DueInv'
<1>1. CASE UNCHANGED vars \/ (\E k \in Keys : Enqueue(k)) \/ Crash
  BY <1>1 DEF vars, Enqueue, Crash, columns, cursor, DueInv, Due, Wait
<1>2. CASE Select
  <2>1. UNCHANGED <<attempts, age, current>> /\ todo' = Selection /\ pass = "idle"
    BY <1>2 DEF Select, columns
  <2>2. \A k \in todo' : Due(k)
    <3>1. \A k \in Selection : RetryDue(k) /\ k \in Keys
      BY DEF Selection, Unsent
    <3>2. QED
      BY <2>1, <3>1 DEF RetryDue, Due
  <2>3. \A k \in todo' : Due(k)'
    BY <2>1, <2>2 DEF Due, Wait
  <2>4. QED
    BY <2>1, <2>3 DEF DueInv, IInv, OneAtATime
<1>3. CASE Send
  <2>1. UNCHANGED <<attempts, age>> /\ todo' \subseteq todo /\ pass' # "send"
    BY <1>3 DEF Send, columns
  <2>2. QED
    BY <2>1 DEF DueInv, Due, Wait
<1>4. CASE RecordSent \/ RecordRefused
  <2>1. Stamp /\ Onward
    BY <1>4 DEF RecordSent, RecordRefused
  <2>2. \A k \in todo' : k \in todo /\ attempts'[k] = attempts[k] /\ age'[k] = age[k]
    BY <2>1 DEF Stamp, Onward, IInv, TypeOK, OneAtATime
  <2>3. QED
    BY <2>1, <2>2 DEF DueInv, Due, Onward, Wait
<1>5. CASE Minute
  <2>1. UNCHANGED <<attempts, todo, current, pass>>
    BY <1>5 DEF Minute, cursor
  <2>2. ASSUME NEW k \in todo, attempts[k] > 0 PROVE age'[k] >= Wait(attempts[k])
    <3>1. /\ k \in Keys /\ attempts[k] \in Nat /\ attempts[k] # 0
          /\ age[k] \in Nat /\ age[k] >= Wait(attempts[k])
      BY <2>2 DEF IInv, TypeOK, DueInv, Due
    <3>2. age'[k] = Shorter(age[k] + 1, MaxRetry)
      BY <1>5, <3>1 DEF Minute
    <3>3. Wait(attempts[k]) \in Int /\ Wait(attempts[k]) <= MaxRetry /\ MaxRetry \in Nat
      BY <3>1, WaitBounded, ConstantsAssumption DEF ConstantsAssumption
    <3>4. QED
      BY <3>1, <3>2, <3>3 DEF Shorter
  <2>3. QED
    BY <2>1, <2>2 DEF DueInv, Due, Wait
<1>6. QED
  BY <1>1, <1>2, <1>3, <1>4, <1>5 DEF Next

\* A refused mail waits before it is offered again, for every first and
\* longest wait.
THEOREM RefusedWait == Spec => BackoffKept
<1>1. Init => DueInv
  BY DEF Init, DueInv
<1>2. IInv /\ DueInv /\ [Next]_vars => DueInv'
  BY DueStep
<1>3. IInv /\ DueInv /\ [Next]_vars =>
        [pass = "send" => \A k \in current' : attempts[k] > 0 => age[k] >= Wait(attempts[k])]_vars
  <2> SUFFICES ASSUME IInv, DueInv, Next, pass = "send", NEW k \in current', attempts[k] > 0
               PROVE  age[k] >= Wait(attempts[k])
    BY DEF vars
  <2>1. CASE Send
    BY <2>1 DEF Send, DueInv, Due
  <2>2. CASE ~Send
    BY <2>2 DEF Next, Enqueue, Select, RecordSent, RecordRefused, Crash, Minute, cursor, DueInv
  <2>3. QED
    BY <2>1, <2>2
<1>4. QED
  BY <1>1, <1>2, <1>3, Inductive, PTL DEF Spec, BackoffKept


-----------------------------------------------------------------------------
(***************************************************************************)
(* The waits of the login throttle double.  What Bit computes is shown by  *)
(* the least place at which it would not.                                  *)
(***************************************************************************)
LEMMA LeastPlace ==
  ASSUME NEW S \in SUBSET Nat, S # {}
  PROVE  \E t \in S : \A u \in S : t <= u
<1> DEFINE R == {x \in Nat \X Nat : x[1] < x[2]}
<1>1. IsWellFoundedOn(R, Nat)
  BY NatLessThanWellFounded DEF OpToRel
<1>2. PICK t \in S : \A u \in S : ~(<<u, t>> \in R)
  BY <1>1, WFMin
<1>3. ASSUME NEW u \in S PROVE t <= u
  <2>1. <<u, t>> \in Nat \X Nat /\ <<u, t>>[1] = u /\ <<u, t>>[2] = t
    OBVIOUS
  <2>2. ~(u < t)
    BY <1>2, <2>1
  <2>3. QED
    BY <2>2
<1>4. QED
  BY <1>3

\* The first n + 1 places of a function that doubles.
Doubles(f, n) ==
  /\ f \in [0..n -> Nat]
  /\ \A k \in 0..n : f[k] = IF k = 0 THEN 1 ELSE 2 * f[k - 1]

LEMMA SomeDouble == \A n \in Nat : \E f : Doubles(f, n)
<1> DEFINE S == {n \in Nat : ~ \E f : Doubles(f, n)}
<1> SUFFICES ASSUME S # {} PROVE FALSE
  OBVIOUS
<1>1. PICK t \in S : \A u \in S : t <= u
  BY LeastPlace
<1>2. CASE t = 0
  <2> DEFINE f == [k \in 0..0 |-> 1]
  <2>1. Doubles(f, 0)
    BY DEF Doubles
  <2>2. QED
    BY <1>2, <2>1
<1>3. CASE t # 0
  <2>1. t - 1 \in Nat /\ t - 1 \notin S
    BY <1>1, <1>3
  <2>2. PICK f : Doubles(f, t - 1)
    BY <2>1
  <2> DEFINE g == [k \in 0..t |-> IF k = t THEN 2 * f[t - 1] ELSE f[k]]
  <2>3. g \in [0..t -> Nat]
    BY <1>3, <2>1, <2>2 DEF Doubles
  <2>4. ASSUME NEW k \in 0..t PROVE g[k] = IF k = 0 THEN 1 ELSE 2 * g[k - 1]
    BY <1>3, <2>1, <2>2 DEF Doubles
  <2>5. Doubles(g, t)
    BY <2>3, <2>4 DEF Doubles
  <2>6. QED
    BY <2>5
<1>4. QED
  BY <1>2, <1>3

LEMMA DoublesAgree ==
  ASSUME NEW f, NEW g, NEW m \in Nat, NEW n \in Nat, Doubles(f, m), Doubles(g, n)
  PROVE  \A k \in Nat : k <= m /\ k <= n => f[k] = g[k]
<1> DEFINE S == {k \in Nat : k <= m /\ k <= n /\ f[k] # g[k]}
<1> SUFFICES ASSUME S # {} PROVE FALSE
  OBVIOUS
<1>1. PICK t \in S : \A u \in S : t <= u
  BY LeastPlace
<1>2. t # 0
  BY DEF Doubles
<1>3. t - 1 \in Nat /\ t - 1 \notin S
  BY <1>1, <1>2
<1>4. f[t - 1] = g[t - 1]
  BY <1>3
<1>5. QED
  BY <1>2, <1>4 DEF Doubles

LEMMA BitRecursion == Bit = [k \in Nat |-> IF k = 0 THEN 1 ELSE 2 * Bit[k - 1]]
<1> DEFINE F(n) == CHOOSE f : Doubles(f, n)
           G == [k \in Nat |-> F(k)[k]]
<1>1. ASSUME NEW n \in Nat PROVE Doubles(F(n), n)
  BY SomeDouble
<1> HIDE DEF F
<1>2. ASSUME NEW k \in Nat PROVE G[k] = IF k = 0 THEN 1 ELSE 2 * G[k - 1]
  <2>1. CASE k = 0
    BY <1>1, <2>1 DEF Doubles
  <2>2. CASE k # 0
    <3>1. k - 1 \in Nat
      BY <2>2
    <3>2. F(k)[k - 1] = F(k - 1)[k - 1]
      BY <1>1, <3>1, DoublesAgree
    <3>3. F(k)[k] = 2 * F(k)[k - 1]
      BY <1>1, <2>2 DEF Doubles
    <3>4. QED
      BY <2>2, <3>1, <3>2, <3>3
  <2>3. QED
    BY <2>1, <2>2
<1>3. G = [k \in Nat |-> IF k = 0 THEN 1 ELSE 2 * G[k - 1]]
  BY <1>2
<1> HIDE DEF G
<1>4. QED
  BY <1>3 DEF Bit

LEMMA BitDoubles ==
  /\ Bit[0] = 1
  /\ \A k \in Nat : Bit[k] \in Nat \ {0} /\ Bit[k + 1] = 2 * Bit[k]
<1>1. \A k \in Nat : Bit[k] = IF k = 0 THEN 1 ELSE 2 * Bit[k - 1]
  BY BitRecursion
<1>2. Bit[0] = 1
  BY <1>1
<1>3. \A k \in Nat : Bit[k + 1] = 2 * Bit[k]
  BY <1>1
<1> DEFINE S == {k \in Nat : Bit[k] \notin Nat \ {0}}
<1>4. ASSUME S # {} PROVE FALSE
  <2>1. PICK t \in S : \A u \in S : t <= u
    BY <1>4, LeastPlace
  <2>2. t # 0
    BY <1>2
  <2>3. t - 1 \in Nat /\ t - 1 \notin S
    BY <2>1, <2>2
  <2>4. Bit[t] = 2 * Bit[t - 1]
    BY <1>1, <2>2
  <2>5. QED
    BY <2>3, <2>4
<1>5. QED
  BY <1>2, <1>3, <1>4

\* A lower bit is worth at most half of a higher one.
LEMMA BitBelow == \A j, k \in Nat : j < k => 2 * Bit[j] <= Bit[k]
<1> TAKE j \in Nat
<1> DEFINE S == {k \in Nat : j < k /\ ~(2 * Bit[j] <= Bit[k])}
<1> SUFFICES ASSUME S # {} PROVE FALSE
  OBVIOUS
<1>1. PICK t \in S : \A u \in S : t <= u
  BY LeastPlace
<1>2. t - 1 \in Nat /\ t - 1 \notin S
  BY <1>1
<1>3. Bit[t] = 2 * Bit[t - 1] /\ Bit[t - 1] \in Nat /\ Bit[j] \in Nat
  BY <1>2, BitDoubles
<1>4. CASE t - 1 = j
  BY <1>3, <1>4
<1>5. CASE t - 1 > j
  BY <1>2, <1>3, <1>5
<1>6. QED
  BY <1>2, <1>4, <1>5

\* Below the sign bit nothing wraps, at it the sign does.
LEMMA SignBitPositive == SignBit \in Nat \ {0}
  BY BitDoubles, ThrottleAssumption DEF ThrottleAssumption, SignBit

LEMMA SmallUnwrapped ==
  ASSUME NEW x \in Int, -SignBit <= x, x < SignBit
  PROVE  Wrapped(x) = x
<1>1. x + SignBit \in Nat /\ 2 * SignBit \in Nat /\ x + SignBit < 2 * SignBit
  BY SignBitPositive
<1>2. (x + SignBit) % (2 * SignBit) = x + SignBit
  BY <1>1
<1>3. QED
  BY <1>2, SignBitPositive DEF Wrapped

LEMMA WrappedInt == \A x \in Int : Wrapped(x) \in Int
  BY SignBitPositive DEF Wrapped

LEMMA DelayInt == \A n \in Nat : delay_after(n) \in Int
<1> USE ThrottleAssumption DEF ThrottleAssumption
<1> TAKE n \in Nat
<1> DEFINE shift == n - FREE_ATTEMPTS - 1
<1>1. CASE n <= FREE_ATTEMPTS
  BY <1>1 DEF delay_after
<1>2. CASE n > FREE_ATTEMPTS
  <2>1. shift \in Nat /\ Bit[shift] \in Nat
    BY <1>2, BitDoubles
  <2>2. Wrapped(Bit[shift]) \in Int
    BY <2>1, WrappedInt
  <2>3. QED
    BY <1>2, <2>1, <2>2 DEF delay_after, Capped
<1>3. QED
  BY <1>1, <1>2

\* While it doubles, a wait is a second at least, and grows to MAX_DELAY.
LEMMA WaitsGrow ==
  /\ \A n \in Nat : n < FREE_ATTEMPTS + Width =>
       /\ delay_after(n) \in 0..MAX_DELAY
       /\ n > FREE_ATTEMPTS => delay_after(n) >= 1
  /\ \A m, n \in Nat : m <= n /\ n < FREE_ATTEMPTS + Width => delay_after(m) <= delay_after(n)
<1> USE ThrottleAssumption, SignBitPositive DEF ThrottleAssumption
<1>1. ASSUME NEW n \in Nat, n > FREE_ATTEMPTS, n < FREE_ATTEMPTS + Width
      PROVE  /\ Bit[n - FREE_ATTEMPTS - 1] \in Nat \ {0}
             /\ delay_after(n) = Capped(Bit[n - FREE_ATTEMPTS - 1], MAX_DELAY)
  <2> DEFINE shift == n - FREE_ATTEMPTS - 1
  <2>1. shift \in Nat /\ shift < Width - 1
    BY <1>1
  <2>2. Bit[shift] \in Nat \ {0} /\ 2 * Bit[shift] <= SignBit
    BY <2>1, BitDoubles, BitBelow DEF SignBit
  <2>3. Wrapped(Bit[shift]) = Bit[shift]
    BY <2>2, SmallUnwrapped
  <2>4. QED
    BY <1>1, <2>1, <2>2, <2>3 DEF delay_after
<1>2. ASSUME NEW n \in Nat, n <= FREE_ATTEMPTS PROVE delay_after(n) = 0
  BY <1>2 DEF delay_after
<1>3. ASSUME NEW n \in Nat, n < FREE_ATTEMPTS + Width
      PROVE  /\ delay_after(n) \in 0..MAX_DELAY
             /\ n > FREE_ATTEMPTS => delay_after(n) >= 1
  BY <1>1, <1>2, <1>3 DEF Capped
<1>4. ASSUME NEW m \in Nat, NEW n \in Nat, m <= n, n < FREE_ATTEMPTS + Width
      PROVE  delay_after(m) <= delay_after(n)
  <2>1. CASE m <= FREE_ATTEMPTS
    BY <1>2, <1>3, <1>4, <2>1
  <2>2. CASE m > FREE_ATTEMPTS
    <3> DEFINE i == m - FREE_ATTEMPTS - 1
               j == n - FREE_ATTEMPTS - 1
    <3>1. i \in Nat /\ j \in Nat /\ i <= j
      BY <1>4, <2>2
    <3>2. Bit[i] <= Bit[j] /\ Bit[i] \in Nat /\ Bit[j] \in Nat
      <4>1. Bit[i] \in Nat /\ Bit[j] \in Nat
        BY <3>1, BitDoubles
      <4>2. i < j => 2 * Bit[i] <= Bit[j]
        BY <3>1, BitBelow
      <4>3. QED
        BY <3>1, <4>1, <4>2
    <3>3. delay_after(m) = Capped(Bit[i], MAX_DELAY) /\ delay_after(n) = Capped(Bit[j], MAX_DELAY)
      BY <1>1, <1>4, <2>2
    <3>4. QED
      BY <3>2, <3>3 DEF Capped
  <2>3. QED
    BY <2>1, <2>2
<1>5. QED
  BY <1>3, <1>4

(***************************************************************************)
(* THEOREM: "Never overflows, however long the attack runs" (throttle.rs,  *)
(* then_the_wait_doubles_up_to_the_cap) is false of one number of failures *)
(* that the test does not try, for every number of free attempts, longest  *)
(* wait and width: the shift into the sign bit is no overflow to           *)
(* checked_shl, and the negative wait is the shorter of the two.           *)
(***************************************************************************)
THEOREM SignBitReached == delay_after(FREE_ATTEMPTS + Width) = -SignBit
<1> USE ThrottleAssumption, SignBitPositive DEF ThrottleAssumption
<1>1. (SignBit + SignBit) % (2 * SignBit) = 0
  <2>1. SignBit + SignBit = 2 * SignBit
    OBVIOUS
  <2> DEFINE b == 2 * SignBit
  <2>2. b \in Nat \ {0}
    OBVIOUS
  <2> HIDE DEF b
  <2>3. b % b = 0
    BY <2>2
  <2>4. QED
    BY <2>1, <2>3 DEF b
<1>2. Wrapped(SignBit) = -SignBit
  BY <1>1 DEF Wrapped
<1>3. delay_after(FREE_ATTEMPTS + Width) = Capped(Wrapped(SignBit), MAX_DELAY)
  <2>1. FREE_ATTEMPTS + Width - FREE_ATTEMPTS - 1 = Width - 1
    OBVIOUS
  <2>2. QED
    BY <2>1 DEF delay_after, SignBit
<1>4. QED
  BY <1>2, <1>3 DEF Capped

-----------------------------------------------------------------------------
(***************************************************************************)
(* Rounds.  While a wait runs nobody is let through, so that the logins in *)
(* flight and the failures together are at most one round ahead of the     *)
(* seconds, and none ahead when the next round begins.                     *)
(***************************************************************************)
Round == Cardinality(Logins)

\* The failures the seconds have paid for.
Credit == Round * (now - since)

ThrottleTypeOK ==
  /\ failures \in Nat /\ failures <= MaxCount
  /\ now \in 0..MaxClock /\ since \in 0..now
  /\ next_allowed \in Int
  /\ checking \subseteq Logins

WaitImposed ==
  Doubling => /\ 0 <= next_allowed
              /\ next_allowed <= now + delay_after(failures)

RoundsPaid ==
  Doubling /\ failures > FREE_ATTEMPTS =>
    /\ failures - FREE_ATTEMPTS + Cardinality(checking) <= Credit + Round
    /\ next_allowed <= now => failures - FREE_ATTEMPTS <= Credit

ThrottleInv == ThrottleTypeOK /\ WaitImposed /\ RoundsPaid

LEMMA InFlight ==
  ASSUME NEW S, S \subseteq Logins
  PROVE  /\ Round \in Nat \ {0} /\ Cardinality(S) \in 0..Round
         /\ \A c \in Logins \ S : Cardinality(S \cup {c}) = Cardinality(S) + 1
                                  /\ Cardinality(S) + 1 <= Round
         /\ \A c \in S : Cardinality(S \ {c}) = Cardinality(S) - 1
<1> USE ThrottleAssumption DEF ThrottleAssumption, Round
<1>1. IsFiniteSet(S) /\ Cardinality(S) \in Nat /\ Cardinality(S) <= Round
  BY FS_Subset, FS_CardinalityType
<1>2. Round \in Nat \ {0}
  BY FS_CardinalityType, FS_EmptySet
<1>3. ASSUME NEW c \in Logins \ S
      PROVE  Cardinality(S \cup {c}) = Cardinality(S) + 1 /\ Cardinality(S) + 1 <= Round
  <2>1. Cardinality(S \cup {c}) = Cardinality(S) + 1
    BY <1>1, FS_AddElement
  <2>2. S \cup {c} \subseteq Logins
    OBVIOUS
  <2>3. Cardinality(S \cup {c}) <= Round
    BY <2>2, FS_Subset
  <2>4. QED
    BY <2>1, <2>3
<1>4. ASSUME NEW c \in S PROVE Cardinality(S \ {c}) = Cardinality(S) - 1
  BY <1>1, FS_RemoveElement
<1>5. QED
  BY <1>1, <1>2, <1>3, <1>4

LEMMA CreditPaid ==
  ASSUME ThrottleTypeOK
  PROVE  /\ Credit \in Nat
         /\ \A t \in Nat : Round * t \in Nat /\ Round * (t + 1) = Round * t + Round
<1>1. Round \in Nat
  BY InFlight
<1>2. ASSUME NEW r \in Nat, NEW t \in Nat PROVE r * t \in Nat /\ r * (t + 1) = r * t + r
  OBVIOUS
<1>3. now - since \in Nat
  BY ThrottleAssumption DEF ThrottleTypeOK, ThrottleAssumption
<1>4. QED
  BY <1>1, <1>2, <1>3 DEF Credit

LEMMA ThrottleInvInit == ThrottleInit => ThrottleInv
<1> USE ThrottleAssumption DEF ThrottleAssumption
<1> SUFFICES ASSUME ThrottleInit PROVE ThrottleInv
  OBVIOUS
<1>1. ThrottleTypeOK
  BY DEF ThrottleInit, ThrottleTypeOK
<1>2. WaitImposed
  BY WaitsGrow DEF ThrottleInit, WaitImposed, Doubling
<1>3. RoundsPaid
  BY DEF ThrottleInit, RoundsPaid
<1>4. QED
  BY <1>1, <1>2, <1>3 DEF ThrottleInv

\* What check reads as no wait is none.
LEMMA RemainingTrue ==
  ASSUME ThrottleTypeOK, WaitImposed, Doubling
  PROVE  Remaining = next_allowed - now
<1> USE ThrottleAssumption, SignBitPositive DEF ThrottleAssumption
<1>1. delay_after(failures) \in 0..MAX_DELAY
  BY WaitsGrow DEF ThrottleTypeOK, Doubling
<1>2. /\ next_allowed - now \in Int
      /\ -SignBit <= next_allowed - now /\ next_allowed - now < SignBit
  BY <1>1 DEF ThrottleTypeOK, WaitImposed
<1>3. QED
  BY <1>2, SmallUnwrapped DEF Remaining

\* The wait a failure below the sign bit sets.
LEMMA WaitSet ==
  ASSUME ThrottleTypeOK, NEW c \in Logins, RecordFailure(c), Doubling'
  PROVE  /\ next_allowed' = now + delay_after(failures')
         /\ delay_after(failures') \in 0..MAX_DELAY
         /\ failures' > FREE_ATTEMPTS => delay_after(failures') >= 1
         /\ delay_after(failures) <= delay_after(failures')
         /\ failures' \in Nat /\ failures <= failures' /\ failures' <= failures + 1
         /\ Doubling
<1> USE ThrottleAssumption, SignBitPositive DEF ThrottleAssumption
<1>1. failures' \in Nat /\ failures <= failures' /\ failures' <= failures + 1
  BY DEF RecordFailure, Capped, ThrottleTypeOK
<1>2. failures' < FREE_ATTEMPTS + Width
  BY DEF Doubling
<1>3. /\ delay_after(failures') \in 0..MAX_DELAY
      /\ failures' > FREE_ATTEMPTS => delay_after(failures') >= 1
      /\ delay_after(failures) <= delay_after(failures')
  BY <1>1, <1>2, WaitsGrow DEF ThrottleTypeOK
<1>4. next_allowed' = now + delay_after(failures')
  <2>1. /\ now + delay_after(failures') \in Int
        /\ -SignBit <= now + delay_after(failures')
        /\ now + delay_after(failures') < SignBit
    BY <1>3 DEF ThrottleTypeOK
  <2>2. QED
    BY <2>1, SmallUnwrapped DEF RecordFailure
<1>5. QED
  BY <1>1, <1>2, <1>3, <1>4 DEF Doubling, ThrottleTypeOK

LEMMA ThrottleInvStep == ASSUME ThrottleInv, [ThrottleNext]_throttleVars PROVE ThrottleInv'
<1> USE ThrottleAssumption DEF ThrottleAssumption, ThrottleInv
<1>1. CASE UNCHANGED throttleVars
  BY <1>1 DEF throttleVars, ThrottleTypeOK, WaitImposed, RoundsPaid, Doubling, Credit
<1>2. ASSUME NEW c \in Logins, Check(c) PROVE ThrottleInv'
  <2>1. ThrottleTypeOK'
    BY <1>2 DEF Check, ThrottleTypeOK
  <2>2. WaitImposed'
    BY <1>2 DEF Check, WaitImposed, Doubling
  <2>3. ASSUME Doubling, failures > FREE_ATTEMPTS
        PROVE  failures - FREE_ATTEMPTS + Cardinality(checking') <= Credit + Round
    <3>1. next_allowed <= now
      BY <1>2, <2>3, RemainingTrue DEF Check, ThrottleTypeOK
    <3>2. failures - FREE_ATTEMPTS <= Credit
      BY <2>3, <3>1 DEF RoundsPaid
    <3>3. Cardinality(checking') <= Round /\ Cardinality(checking') \in Nat
      BY <1>2, <2>1, InFlight DEF ThrottleTypeOK
    <3>4. Credit \in Nat /\ Round \in Nat
      <4>1. Round \in Nat
        BY InFlight
      <4>2. QED
        BY <4>1, CreditPaid
    <3>5. QED
      BY <3>2, <3>3, <3>4 DEF ThrottleTypeOK
  <2>4. QED
    BY <1>2, <2>1, <2>2, <2>3 DEF Check, RoundsPaid, Doubling, Credit
<1>3. ASSUME NEW c \in Logins, RecordFailure(c) PROVE ThrottleInv'
  <2>1. ThrottleTypeOK'
    <3>1. delay_after(failures') \in Int
      BY <1>3, DelayInt DEF RecordFailure, Capped, ThrottleTypeOK
    <3>2. next_allowed' \in Int
      BY <1>3, <3>1, WrappedInt DEF RecordFailure, ThrottleTypeOK
    <3>3. QED
      BY <1>3, <3>2 DEF RecordFailure, Capped, ThrottleTypeOK
  <2>2. WaitImposed'
    BY <1>3, WaitSet DEF WaitImposed, RecordFailure, ThrottleTypeOK
  <2>3. ASSUME Doubling', failures' > FREE_ATTEMPTS
        PROVE  /\ ~(next_allowed' <= now')
               /\ failures' - FREE_ATTEMPTS + Cardinality(checking')
                    <= Credit' + Round
    <3>1. /\ Doubling /\ failures' \in Nat /\ failures <= failures' /\ failures' <= failures + 1
          /\ next_allowed' > now
      BY <1>3, <2>3, WaitSet DEF ThrottleTypeOK
    <3>2. /\ Round \in Nat \ {0} /\ Cardinality(checking) \in 0..Round
          /\ Cardinality(checking') = Cardinality(checking) - 1
      <4>1. checking \subseteq Logins /\ c \in checking /\ checking' = checking \ {c}
        BY <1>3 DEF RecordFailure, ThrottleTypeOK
      <4>2. QED
        BY <4>1, InFlight
    <3>3. Credit \in Nat /\ Credit' = Credit /\ now' = now
      BY <1>3, CreditPaid DEF RecordFailure, Credit
    <3>4. failures' - FREE_ATTEMPTS + Cardinality(checking') <= Credit' + Round
      <4>1. CASE failures > FREE_ATTEMPTS
        <5>1. failures - FREE_ATTEMPTS + Cardinality(checking) <= Credit + Round
          BY <3>1, <4>1 DEF RoundsPaid
        <5>2. QED
          BY <3>1, <3>2, <3>3, <5>1 DEF ThrottleTypeOK
      <4>2. CASE failures <= FREE_ATTEMPTS
        BY <3>1, <3>2, <3>3, <4>2 DEF ThrottleTypeOK
      <4>3. QED
        BY <4>1, <4>2 DEF ThrottleTypeOK
    <3>5. next_allowed' \in Int
      BY <2>1 DEF ThrottleTypeOK
    <3>6. QED
      BY <3>1, <3>3, <3>4, <3>5 DEF ThrottleTypeOK
  <2>4. QED
    BY <2>1, <2>2, <2>3 DEF RoundsPaid
<1>4. ASSUME NEW c \in Logins, RecordSuccess(c) PROVE ThrottleInv'
  <2>1. ThrottleTypeOK'
    BY <1>4 DEF RecordSuccess, ThrottleTypeOK
  <2>2. delay_after(0) \in 0..MAX_DELAY
    BY WaitsGrow
  <2>3. QED
    BY <1>4, <2>1, <2>2 DEF RecordSuccess, WaitImposed, RoundsPaid, ThrottleTypeOK
<1>5. CASE Second
  <2>1. ThrottleTypeOK'
    BY <1>5 DEF Second, Capped, ThrottleTypeOK
  <2>2. WaitImposed'
    <3>1. Doubling => delay_after(failures) \in 0..MAX_DELAY
      BY WaitsGrow DEF Doubling, ThrottleTypeOK
    <3>2. QED
      BY <1>5, <3>1 DEF Second, Capped, WaitImposed, ThrottleTypeOK, Doubling
  <2>3. RoundsPaid'
    <3>1. Credit' \in Nat /\ (Credit' = Credit \/ Credit' = Credit + Round) /\ Credit \in Nat
      <4> DEFINE t == now - since
      <4>1. t \in Nat /\ (now' - since' = t \/ now' - since' = t + 1)
        BY <1>5 DEF Second, Capped, ThrottleTypeOK
      <4> HIDE DEF t
      <4>2. Credit' = Round * t \/ Credit' = Round * (t + 1)
        BY <4>1 DEF Credit
      <4>3. Credit = Round * t
        BY DEF Credit, t
      <4>4. Round * t \in Nat /\ Round * (t + 1) = Round * t + Round /\ Round \in Nat
        BY <4>1, CreditPaid, InFlight
      <4>5. QED
        BY <4>2, <4>3, <4>4
    <3>2. now' = now => Credit' = Credit
      BY <1>5 DEF Second, Credit
    <3>3. now' # now => Credit' = Credit + Round
      <4> DEFINE t == now - since
      <4>1. ASSUME now' # now PROVE t \in Nat /\ now' - since' = t + 1
        BY <1>5, <4>1 DEF Second, Capped, ThrottleTypeOK
      <4> HIDE DEF t
      <4>2. ASSUME now' # now PROVE Credit' = Round * (t + 1) /\ Credit = Round * t
        BY <4>1, <4>2 DEF Credit, t
      <4>3. QED
        BY <4>1, <4>2, CreditPaid
    <3>4. Round \in Nat \ {0} /\ Cardinality(checking) \in 0..Round
      BY InFlight DEF ThrottleTypeOK
    <3>5. QED
      BY <1>5, <3>1, <3>2, <3>3, <3>4 DEF Second, RoundsPaid, Doubling, ThrottleTypeOK
  <2>4. QED
    BY <2>1, <2>2, <2>3
<1>6. QED
  BY <1>1, <1>2, <1>3, <1>4, <1>5 DEF ThrottleNext

LEMMA ThrottleInvariant == ThrottleSpec => []ThrottleInv
  BY ThrottleInvInit, ThrottleInvStep, PTL DEF ThrottleSpec

\* Up to the failure that reaches the sign bit, guessing in parallel buys one
\* round: for any number of logins in flight, free attempts and longest wait.
THEOREM GuessingTakesTime == ThrottleSpec => []GuessesTakeTime
<1>1. ThrottleInv => GuessesTakeTime
  <2> SUFFICES ASSUME ThrottleInv, failures > FREE_ATTEMPTS, Doubling
               PROVE  now - since >= (failures - FREE_ATTEMPTS - 1) \div Round
    BY DEF GuessesTakeTime, Round
  <2> USE ThrottleAssumption DEF ThrottleAssumption, ThrottleInv, ThrottleTypeOK
  <2> DEFINE t == now - since
             n == failures - FREE_ATTEMPTS - 1
  <2>1. /\ Round \in Nat \ {0} /\ Cardinality(checking) \in Nat
        /\ t \in Nat /\ n \in Nat
    BY InFlight
  <2>2. n < Round * t + Round
    <3>1. Round * t \in Nat
      BY <2>1, CreditPaid
    <3>2. failures - FREE_ATTEMPTS + Cardinality(checking) <= Round * t + Round
      BY DEF RoundsPaid, Credit
    <3>3. QED
      BY <2>1, <3>1, <3>2
  <2>3. n < Round * (t + 1)
    BY <2>1, <2>2
  <2> HIDE DEF t, n
  <2>4. n \div Round <= t
    BY <2>1, <2>3
  <2>5. QED
    BY <2>4 DEF t, n
<1>2. QED
  BY <1>1, ThrottleInvariant, PTL

\* Until then no attempt is told to wait longer than MAX_DELAY.
THEOREM OwnerOnlySlowed == ThrottleSpec => []NeverLockedOut
<1>1. ThrottleInv => NeverLockedOut
  <2> SUFFICES ASSUME ThrottleInv, Doubling PROVE Remaining <= MAX_DELAY
    BY DEF NeverLockedOut
  <2>1. delay_after(failures) \in 0..MAX_DELAY
    BY WaitsGrow DEF Doubling, ThrottleInv, ThrottleTypeOK
  <2>2. QED
    BY <2>1, RemainingTrue, ThrottleAssumption
    DEF ThrottleInv, ThrottleTypeOK, WaitImposed, ThrottleAssumption
<1>2. QED
  BY <1>1, ThrottleInvariant, PTL

\* And no failure shortens a wait, however late it is recorded.
THEOREM NoWaitForgiven == ThrottleSpec => OnlySuccessForgives
<1>1. ThrottleInv /\ [ThrottleNext]_throttleVars =>
        [next_allowed' < next_allowed => failures' = 0 \/ ~Doubling']_throttleVars
  <2> SUFFICES ASSUME ThrottleInv, ThrottleNext, next_allowed' < next_allowed, failures' # 0, Doubling'
               PROVE  FALSE
    BY DEF throttleVars
  <2> USE ThrottleAssumption DEF ThrottleAssumption, ThrottleInv, ThrottleTypeOK
  <2>1. ASSUME NEW c \in Logins, RecordFailure(c) PROVE FALSE
    <3>1. /\ next_allowed' = now + delay_after(failures')
          /\ delay_after(failures) <= delay_after(failures')
          /\ delay_after(failures') \in Int /\ Doubling
      BY <2>1, WaitSet
    <3>2. next_allowed <= now + delay_after(failures) /\ delay_after(failures) \in Int
      BY <3>1, DelayInt DEF WaitImposed
    <3>3. QED
      BY <3>1, <3>2
  <2>2. ASSUME NEW c \in Logins, Check(c) \/ RecordSuccess(c) PROVE FALSE
    BY <2>2 DEF Check, RecordSuccess
  <2>3. CASE Second
    BY <2>3 DEF Second
  <2>4. QED
    BY <2>1, <2>2, <2>3 DEF ThrottleNext
<1>2. QED
  BY <1>1, ThrottleInvariant, PTL DEF ThrottleSpec, OnlySuccessForgives

(***************************************************************************)
(* The failure that reached the sign bit does lock the account, where      *)
(* throttle.rs:9 speaks of slowing the owner down.  Once that second is    *)
(* over with no login in flight, check lets nobody through, the right      *)
(* password or not, and no step changes that: the wait it reports is some  *)
(* SignBit seconds, and only a restart forgets it.                         *)
(***************************************************************************)
LockedSince(t) ==
  /\ next_allowed = t + delay_after(FREE_ATTEMPTS + Width)
  /\ t < now
  /\ checking = {}

THEOREM LockedForGood ==
  ThrottleSpec =>
    [][\A t \in 0..MaxClock : LockedSince(t) => Remaining > MAX_DELAY /\ LockedSince(t)']_throttleVars
<1>1. ASSUME ThrottleInv, ThrottleNext, NEW t \in 0..MaxClock, LockedSince(t)
      PROVE  Remaining > MAX_DELAY /\ LockedSince(t)'
  <2> USE ThrottleAssumption, SignBitPositive DEF ThrottleAssumption, ThrottleInv, ThrottleTypeOK
  <2>1. next_allowed = t - SignBit
    BY <1>1, SignBitReached DEF LockedSince
  <2> DEFINE x == next_allowed - now
  <2>2. x \in Int /\ -2 * SignBit < x /\ x < -SignBit /\ x + 2 * SignBit > MAX_DELAY
    BY <1>1, <2>1 DEF LockedSince
  <2>3. Wrapped(x) = x + 2 * SignBit
    <3> DEFINE b == 2 * SignBit
    <3>1. b \in Nat \ {0} /\ x + SignBit \in Int /\ 0 <= x + SignBit + b /\ x + SignBit + b < b
      BY <2>2
    <3> HIDE DEF b, x
    <3>2. (x + SignBit) % b = x + SignBit + b
      BY <3>1
    <3>3. QED
      BY <2>2, <3>2 DEF Wrapped, b
  <2>4. Remaining \in Int /\ Remaining > MAX_DELAY
    BY <2>2, <2>3 DEF Remaining
  <2>5. Second
    <3>1. \A c \in Logins : ~Check(c)
      BY <2>4 DEF Check
    <3>2. \A c \in Logins : ~RecordFailure(c) /\ ~RecordSuccess(c)
      BY <1>1 DEF RecordFailure, RecordSuccess, LockedSince
    <3>3. QED
      BY <1>1, <3>1, <3>2 DEF ThrottleNext
  <2>6. QED
    BY <1>1, <2>4, <2>5 DEF Second, Capped, LockedSince
<1>2. ThrottleInv /\ [ThrottleNext]_throttleVars =>
        [\A t \in 0..MaxClock : LockedSince(t) => Remaining > MAX_DELAY /\ LockedSince(t)']_throttleVars
  BY <1>1
<1>3. QED
  BY <1>2, ThrottleInvariant, PTL DEF ThrottleSpec

=============================================================================
