--------------------------- MODULE NotifierProofs ---------------------------
(***************************************************************************)
(* Proofs about Notifier, for every clock that goes back within a day and  *)
(* every number of cards, users and sweeps: no day without its reminder or *)
(* digest, no reminder on a day with an entry, no card that is not chased. *)
(***************************************************************************)
EXTENDS Notifier, TLAPS, WellFoundedInduction

-----------------------------------------------------------------------------
(* Local time *)

LEMMA DivRest ==
  ASSUME NEW n \in Nat, NEW k \in Nat \ {0}
  PROVE  n \div k \in Nat /\ n % k \in 0..(k - 1) /\ n = k * (n \div k) + (n % k)
  OBVIOUS

LEMMA DivLow ==
  ASSUME NEW n \in Nat, NEW k \in Nat \ {0}, NEW d \in Nat, d * k <= n
  PROVE  d <= n \div k
<1> DEFINE q == n \div k
           m == n % k
<1>1. q \in Nat /\ m \in Nat /\ m < k /\ n = k * q + m
  BY DivRest
<1> HIDE DEF q, m
<1>2. ASSUME q + 1 <= d PROVE FALSE
  <2>1. (q + 1) * k <= d * k
    BY <1>1, <1>2
  <2> QED BY <1>1, <2>1
<1> QED BY <1>1, <1>2 DEF q

LEMMA DivHigh ==
  ASSUME NEW n \in Nat, NEW k \in Nat \ {0}, NEW d \in Nat, n < (d + 1) * k
  PROVE  n \div k <= d
<1> DEFINE q == n \div k
           m == n % k
<1>1. q \in Nat /\ m \in Nat /\ m < k /\ n = k * q + m
  BY DivRest
<1> HIDE DEF q, m
<1>2. ASSUME d + 1 <= q PROVE FALSE
  <2>1. (d + 1) * k <= q * k
    BY <1>1, <1>2
  <2> QED BY <1>1, <2>1
<1> QED BY <1>1, <1>2 DEF q

LEMMA LeastOf ==
  ASSUME NEW S, S \subseteq Nat, S # {}
  PROVE  Earliest(S) \in S /\ \A u \in S : Earliest(S) <= u
<1> DEFINE R == {x \in Nat \X Nat : x[1] < x[2]}
<1>1. IsWellFoundedOn(R, Nat)
  BY NatLessThanWellFounded DEF OpToRel
<1>2. PICK t \in S : \A u \in S : ~(<<u, t>> \in R)
  BY <1>1, WFMin
<1>3. \A u \in S : t <= u
  <2> SUFFICES ASSUME NEW u \in S PROVE t <= u
    OBVIOUS
  <2>1. <<u, t>> \in Nat \X Nat /\ <<u, t>>[1] = u /\ <<u, t>>[2] = t
    OBVIOUS
  <2>2. ~(u < t)
    BY <1>2, <2>1
  <2> QED BY <2>2
<1> QED BY <1>3 DEF Earliest

LEMMA DayOf ==
  ASSUME NEW t \in DOMAIN Wall
  PROVE  /\ LocalDay(t) \in Nat
         /\ \A d \in Nat : d * DayLength <= Wall[t] => d <= LocalDay(t)
         /\ \A d \in Nat : Wall[t] < (d + 1) * DayLength => LocalDay(t) <= d
  BY ClockAssumption, DivRest, DivLow, DivHigh DEF LocalDay

LEMMA InstantsShown == Instants \subseteq DOMAIN Wall /\ Instants \subseteq Nat
                       /\ DOMAIN Wall \subseteq Nat /\ Never \in Nat
                       /\ \A t \in DOMAIN Wall : t < Never
  BY ClockAssumption DEF Instants, Never

\* The instant that is looked up shows the time, or the hour after it.
LEMMA Finds ==
  ASSUME NEW w \in Nat
  PROVE  /\ LocalInstant(w) \in Nat
         /\ \/ LocalInstant(w) = Never
            \/ /\ LocalInstant(w) \in DOMAIN Wall
               /\ Wall[LocalInstant(w)] \in {w, w + Shift}
         /\ \A u \in DOMAIN Wall : Wall[u] = w => LocalInstant(w) <= u
<1>1. Shift \in Nat
  BY ClockAssumption
<1>2. \A x : Showing(x) \subseteq Nat /\ Showing(x) \subseteq DOMAIN Wall
  BY InstantsShown DEF Showing
<1>3. CASE Showing(w) # {}
  <2>1. LocalInstant(w) = Earliest(Showing(w))
    BY <1>3 DEF LocalInstant
  <2>2. LocalInstant(w) \in Showing(w) /\ \A u \in Showing(w) : LocalInstant(w) <= u
    BY <1>2, <1>3, <2>1, LeastOf
  <2> QED BY <1>2, <2>2 DEF Showing
<1>4. CASE Showing(w) = {} /\ Showing(w + Shift) # {}
  <2>1. LocalInstant(w) = Earliest(Showing(w + Shift))
    BY <1>4 DEF LocalInstant
  <2>2. LocalInstant(w) \in Showing(w + Shift)
    BY <1>2, <1>4, <2>1, LeastOf
  <2> QED BY <1>2, <1>4, <2>2 DEF Showing
<1>5. CASE Showing(w) = {} /\ Showing(w + Shift) = {}
  <2>1. LocalInstant(w) = Never
    BY <1>5 DEF LocalInstant
  <2> QED BY <1>5, <2>1, InstantsShown DEF Showing
<1> QED BY <1>3, <1>4, <1>5

\* A time that has been shown, or whose next hour has, has been reached.
LEMMA Reached ==
  ASSUME TimesRepeat, NEW w \in Nat, NEW u \in DOMAIN Wall, Wall[u] \in {w, w + Shift}
  PROVE  LocalInstant(w) <= u
<1>1. CASE Wall[u] = w
  BY <1>1, Finds
<1>2. CASE Wall[u] = w + Shift /\ Showing(w) = {}
  <2>1. u \in Showing(w + Shift) /\ Showing(w + Shift) \subseteq Nat
    BY <1>2, InstantsShown DEF Showing
  <2>2. LocalInstant(w) = Earliest(Showing(w + Shift))
    BY <1>2, <2>1 DEF LocalInstant
  <2> QED BY <2>1, <2>2, LeastOf
<1>3. CASE Wall[u] = w + Shift /\ Showing(w) # {}
  <2>1. PICK t \in DOMAIN Wall : Wall[t] = w
    BY <1>3 DEF Showing
  <2>2. LocalInstant(w) <= t
    BY <2>1, Finds
  <2>3. t \in Nat /\ u \in Nat /\ LocalInstant(w) \in Nat
    BY InstantsShown, Finds
  <2>4. CASE t <= u
    BY <2>2, <2>3, <2>4
  <2>5. CASE u < t
    <3>1. Wall[t] < Wall[u]
      BY <1>3, <2>1, ClockAssumption
    <3>2. PICK v \in 0..u : Wall[v] = w
      BY <2>1, <2>5, <3>1 DEF TimesRepeat
    <3>3. v \in DOMAIN Wall /\ v <= u /\ v \in Nat
      BY <2>3, ClockAssumption
    <3>4. LocalInstant(w) <= v
      BY <3>2, <3>3, Finds
    <3> QED BY <2>3, <3>3, <3>4
  <2> QED BY <2>3, <2>4, <2>5
<1> QED BY <1>1, <1>2, <1>3

\* What was reached by t on the day of t was shown on that day.
LEMMA ShownThatDay ==
  ASSUME DaysInOrder, NEW t \in Instants, NEW time \in 0..(DayLength - 1),
         TimeReached(t, LocalDay(t), time)
  PROVE  \E u \in 0..t : LocalDay(u) = LocalDay(t) /\ Wall[u] >= LocalDay(t) * DayLength + time
<1> DEFINE d == LocalDay(t)
           w == d * DayLength + time
           u == LocalInstant(w)
<1>1. d \in Nat /\ t \in DOMAIN Wall /\ t \in Nat /\ t < Never /\ DayLength \in Nat
  BY DayOf, InstantsShown, ClockAssumption
<1>2. time \in Nat /\ d * DayLength \in Nat /\ w \in Nat
  BY <1>1
<1>3. u \in Nat /\ u <= t
  BY <1>2, Finds DEF TimeReached
<1>4. u \in DOMAIN Wall /\ Wall[u] \in {w, w + Shift}
  BY <1>1, <1>2, <1>3, Finds
<1>5. Wall[u] \in Nat /\ Wall[u] >= w /\ w >= d * DayLength
  <2> HIDE DEF u
  <2>1. Shift \in Nat
    BY ClockAssumption
  <2>2. w >= d * DayLength
    BY <1>2
  <2> HIDE DEF w
  <2> QED BY <1>2, <1>4, <2>1, <2>2
<1> HIDE DEF d, w, u
<1>6. d <= LocalDay(u)
  <2>1. d * DayLength <= Wall[u]
    BY <1>1, <1>2, <1>5
  <2> QED BY <1>1, <1>4, <2>1, DayOf
<1>7. LocalDay(u) <= d
  BY <1>1, <1>3, <1>4 DEF DaysInOrder, d
<1>8. LocalDay(u) = d
  <2>1. LocalDay(u) \in Nat
    BY <1>4, DayOf
  <2> QED BY <1>1, <1>6, <1>7, <2>1
<1> QED BY <1>1, <1>3, <1>5, <1>8 DEF d, w

\* Midnight divides the instants of the days.
LEMMA MidnightAfter ==
  ASSUME DaysInOrder, NEW t \in DOMAIN Wall, NEW d \in Nat, LocalDay(t) < d
  PROVE  t < LocalInstant(d * DayLength)
<1> DEFINE w == d * DayLength
           u == LocalInstant(w)
<1>1. DayLength \in Nat /\ w \in Nat /\ Shift \in Nat /\ t \in Nat
  BY ClockAssumption, InstantsShown
<1>2. u \in Nat /\ (u = Never \/ (u \in DOMAIN Wall /\ Wall[u] \in {w, w + Shift}))
  BY <1>1, Finds
<1>3. CASE u = Never
  BY <1>3, InstantsShown
<1>4. CASE u \in DOMAIN Wall /\ Wall[u] \in {w, w + Shift}
  <2> HIDE DEF u
  <2>1. d * DayLength <= Wall[u]
    BY <1>1, <1>4
  <2>2. d <= LocalDay(u)
    BY <1>4, <2>1, DayOf
  <2>3. ~(u <= t)
    BY <1>1, <1>4, <2>2, DayOf DEF DaysInOrder
  <2> QED BY <1>1, <1>2, <2>3 DEF u
<1> QED BY <1>2, <1>3, <1>4

-----------------------------------------------------------------------------
(* Type correctness *)

LEMMA TypeStep ==
  ASSUME TypeOK, at <= now, [Next]_vars
  PROVE  TypeOK' /\ at' <= now'
<1>1. /\ Horizon \in Nat /\ MaxEvents \in Nat /\ now \in 0..Horizon /\ at \in 0..Horizon
      /\ Dues \subseteq Instants /\ events \in 0..MaxEvents
  BY ClockAssumption DEF TypeOK, Instants
<1>2. 0 \in Instants /\ now \in Instants
  BY <1>1 DEF Instants
<1> USE DEF TypeOK
<1>3. CASE SweepStart
  BY <1>1, <1>2, <1>3 DEF SweepStart, world
<1>4. CASE SweepReminder \/ Remind \/ SweepCard
  BY <1>1, <1>4 DEF SweepReminder, Remind, SweepCard, Goto, world
<1>5. CASE SweepCards
  BY <1>1, <1>5 DEF SweepCards, Goto, world
<1>6. CASE SweepDigest \/ SweepFail
  <2>1. swept' \in BOOLEAN
    BY <1>6 DEF SweepDigest, SweepFail
  <2>2. todo' \subseteq Cards \X Dues
    BY <1>6 DEF SweepDigest, SweepFail
  <2>3. /\ UNCHANGED <<world, edited>> /\ pc' = "idle" /\ at' = 0
    BY <1>6 DEF SweepDigest, SweepFail
  <2> QED BY <1>1, <1>2, <2>1, <2>2, <2>3 DEF world
<1>7. ASSUME NEW b \in Browsers, Login(b) \/ LoginMail(b) \/ LoginLost(b)
      PROVE  TypeOK' /\ at' <= now'
  <2>1. events' \in 0..MaxEvents
    BY <1>1, <1>7 DEF Login, LoginMail, LoginLost
  <2> QED BY <1>1, <1>7, <2>1 DEF Login, LoginMail, LoginLost, sweeper
<1>8. CASE FailedLogins \/ WriteEntry
  <2>1. events' \in 0..MaxEvents
    BY <1>1, <1>8 DEF FailedLogins, WriteEntry
  <2> QED BY <1>1, <1>2, <1>8, <2>1 DEF FailedLogins, WriteEntry, sweeper
<1>11. ASSUME NEW c \in Cards, EditCard(c)
       PROVE  TypeOK' /\ at' <= now'
  <2>1. events' \in 0..MaxEvents
    BY <1>1, <1>11 DEF EditCard
  <2>2. PICK due \in Dues, done \in BOOLEAN :
          cards' = [cards EXCEPT ![c] = [due |-> due, done |-> done]]
    BY <1>11 DEF EditCard
  <2>3. cards' \in [Cards -> [due : Dues, done : BOOLEAN]]
    BY <2>2
  <2> QED BY <1>1, <1>11, <2>1, <2>3 DEF EditCard
<1>9. CASE Clock
  <2>1. now' \in Instants /\ at' <= now'
    BY <1>1, <1>9 DEF Clock, Instants
  <2>2. LocalDay(now) \in Nat
    BY <1>2, InstantsShown, DayOf
  <2> QED BY <1>9, <2>1, <2>2 DEF Clock
<1>10. CASE UNCHANGED vars
  BY <1>10 DEF vars
<1> QED BY <1>3, <1>4, <1>5, <1>6, <1>7, <1>8, <1>9, <1>10, <1>11 DEF Next

(***************************************************************************)
(* THEOREM: the sweep's locals, the clock and the columns keep their types,*)
(* and no sweep is ahead of the clock.                                     *)
(***************************************************************************)
THEOREM TypeCorrect == Spec => [](TypeOK /\ at <= now)
<1>1. Init => TypeOK /\ at <= now
  <2> SUFFICES ASSUME Init PROVE TypeOK /\ at <= now
    OBVIOUS
  <2>1. Horizon \in Nat /\ MaxEvents \in Nat
    BY ClockAssumption
  <2>2. \A c \in Cards : cards[c] \in [due : Dues, done : BOOLEAN]
    BY DEF Init
  <2>3. cards \in [Cards -> [due : Dues, done : BOOLEAN]]
    BY <2>2 DEF Init
  <2>4. now \in Instants /\ at \in Instants /\ at <= now /\ events \in 0..MaxEvents
    BY <2>1 DEF Init, Instants
  <2>5. seen \in [Browsers -> {"never", "now", "before"}]
    BY DEF Init
  <2>6. /\ entries \subseteq Instants /\ edited \subseteq Cards /\ swept \in BOOLEAN
        /\ todo \subseteq Cards \X Dues /\ missed \subseteq Nat /\ mailing \subseteq Browsers
        /\ pc = "idle"
    BY DEF Init
  <2> QED BY <2>3, <2>4, <2>5, <2>6 DEF TypeOK
<1>2. (TypeOK /\ at <= now) /\ [Next]_vars => (TypeOK /\ at <= now)'
  BY TypeStep
<1> QED BY <1>1, <1>2, PTL DEF Spec

Sound == TypeOK /\ at <= now

-----------------------------------------------------------------------------
(***************************************************************************)
(* What a sweep that ran to its end within one instant leaves behind: it   *)
(* has asked about its day.  A clock that ticks without one marks the day. *)
(***************************************************************************)
ReminderAsked(t) ==
  TimeReached(t, LocalDay(t), Reminder) /\ (\A e \in entries : LocalDay(e) # LocalDay(t))
    => <<"reminder", LocalDay(t)>> \in queue

DigestAsked(t) ==
  Weekday(LocalDay(t)) = DigestDay /\ TimeReached(t, LocalDay(t), DigestTime)
    => <<"digest", IsoWeek(LocalDay(t))>> \in queue

Asked(t) == ReminderAsked(t) /\ DigestAsked(t)

DaysAsked == \A t \in 0..(now - 1) : LocalDay(t) \notin missed => Asked(t)
NowAsked == swept => Asked(now)
SweepAsked == pc \in {"cards", "card", "digest"} /\ at = now => ReminderAsked(now)
EntriesPast == \A e \in entries : e <= now

AskInv == DaysAsked /\ NowAsked /\ SweepAsked /\ EntriesPast

LEMMA AskedStays ==
  ASSUME entries \subseteq entries', queue \subseteq queue', NEW t
  PROVE  /\ ReminderAsked(t) => ReminderAsked(t)'
         /\ Asked(t) => Asked(t)'
  BY DEF Asked, ReminderAsked, DigestAsked, TimeReached, LocalInstant, Showing

\* Nothing takes an entry or a mail away.
LEMMA Grows ==
  ASSUME [Next]_vars
  PROVE  entries \subseteq entries' /\ queue \subseteq queue'
  BY DEF Next, SweepStart, SweepReminder, Remind, SweepCards, SweepCard, SweepDigest,
         SweepFail, Login, LoginMail, LoginLost, FailedLogins, WriteEntry, EditCard, Clock,
         Enqueue, world, vars

\* What was found within the bounds of today was written today.
LEMMA WrittenToday ==
  ASSUME DaysInOrder, NEW t \in Instants, NEW e \in Instants, e <= t,
         e \in DayBounds(LocalDay(t))
  PROVE  LocalDay(e) = LocalDay(t)
<1>1. t \in DOMAIN Wall /\ e \in DOMAIN Wall /\ LocalDay(t) \in Nat /\ LocalDay(e) \in Nat
  BY InstantsShown, DayOf
<1>2. LocalDay(e) <= LocalDay(t)
  BY <1>1 DEF DaysInOrder
<1>3. LocalInstant(LocalDay(t) * DayLength) <= e
  BY DEF DayBounds
<1>4. ~(LocalDay(e) < LocalDay(t))
  <2>1. LocalDay(t) * DayLength \in Nat /\ e \in Nat
    BY <1>1, ClockAssumption, InstantsShown
  <2>2. LocalInstant(LocalDay(t) * DayLength) \in Nat
    BY <2>1, Finds
  <2> QED BY <1>1, <1>3, <2>1, <2>2, MidnightAfter
<1> QED BY <1>1, <1>2, <1>4

LEMMA AskStep ==
  ASSUME DaysInOrder, Sound, AskInv, [Next]_vars
  PROVE  AskInv'
<1>1. /\ now \in Nat /\ at \in Nat /\ now \in Instants /\ at \in Instants /\ at <= now
      /\ entries \subseteq Instants /\ swept \in BOOLEAN
  BY InstantsShown DEF Sound, TypeOK
<1>2. \A t : (ReminderAsked(t) => ReminderAsked(t)') /\ (Asked(t) => Asked(t)')
  BY Grows, AskedStays
<1>3. ASSUME UNCHANGED <<now, missed>> PROVE DaysAsked'
  BY <1>2, <1>3 DEF AskInv, DaysAsked
<1>4. ASSUME UNCHANGED <<now, swept>> PROVE NowAsked'
  BY <1>2, <1>4 DEF AskInv, NowAsked
<1>5. ASSUME UNCHANGED <<now, entries>> PROVE EntriesPast'
  BY <1>5 DEF AskInv, EntriesPast
<1>6. ASSUME UNCHANGED <<now, at>>, pc' = pc \/ pc' \notin {"cards", "card", "digest"}
             \/ pc \in {"cards", "card", "digest"}
      PROVE  SweepAsked'
  BY <1>2, <1>6 DEF AskInv, SweepAsked
<1>7. CASE SweepStart
  <2>1. UNCHANGED <<now, missed, swept, entries>> /\ pc' = "reminder"
    BY <1>7 DEF SweepStart, world
  <2>2. SweepAsked'
    BY <2>1 DEF SweepAsked
  <2> QED BY <1>3, <1>4, <1>5, <2>1, <2>2 DEF AskInv
<1>8. CASE SweepReminder
  <2>1. UNCHANGED <<now, missed, swept, entries, at, queue>>
    BY <1>8 DEF SweepReminder, Goto, world
  <2>2. SweepAsked'
    <3> SUFFICES ASSUME pc' = "cards", at = now PROVE ReminderAsked(now)
      BY <1>2, <1>8, <2>1 DEF SweepAsked, SweepReminder, Goto
    <3>1. ~(TimeReached(now, LocalDay(now), Reminder) /\ entries \cap DayBounds(LocalDay(now)) = {})
      BY <1>8 DEF SweepReminder, Goto
    <3>2. CASE ~TimeReached(now, LocalDay(now), Reminder)
      BY <3>2 DEF ReminderAsked
    <3>3. CASE entries \cap DayBounds(LocalDay(now)) # {}
      <4>1. PICK e \in entries : e \in DayBounds(LocalDay(now))
        BY <3>3
      <4>2. LocalDay(e) = LocalDay(now)
        BY <1>1, <4>1, WrittenToday DEF AskInv, EntriesPast
      <4> QED BY <4>2 DEF ReminderAsked
    <3> QED BY <3>1, <3>2, <3>3
  <2> QED BY <1>3, <1>4, <1>5, <2>1, <2>2 DEF AskInv
<1>9. CASE Remind
  <2>1. UNCHANGED <<now, missed, swept, entries, at>> /\ <<"reminder", LocalDay(at)>> \in queue'
    BY <1>9 DEF Remind, Goto, Enqueue, world
  <2>2. SweepAsked'
    <3> SUFFICES ASSUME at = now PROVE ReminderAsked(now)'
      BY <2>1 DEF SweepAsked
    <3> QED BY <2>1 DEF ReminderAsked
  <2> QED BY <1>3, <1>4, <1>5, <2>1, <2>2 DEF AskInv
<1>10. CASE SweepCards \/ SweepCard
  <2>1. UNCHANGED <<now, missed, swept, entries, at>> /\ pc \in {"cards", "card"}
    BY <1>10 DEF SweepCards, SweepCard, Goto, world
  <2> QED BY <1>3, <1>4, <1>5, <1>6, <2>1 DEF AskInv
<1>11. CASE SweepDigest
  <2>1. /\ UNCHANGED <<now, missed, entries>> /\ pc = "digest" /\ pc' = "idle"
        /\ swept' = (swept \/ at = now)
        /\ IF Weekday(LocalDay(at)) = DigestDay /\ TimeReached(at, LocalDay(at), DigestTime)
           THEN queue' = queue \cup {<<"digest", IsoWeek(LocalDay(at))>>} ELSE UNCHANGED queue
    BY <1>11 DEF SweepDigest, Enqueue, world
  <2>2. SweepAsked'
    BY <2>1 DEF SweepAsked
  <2>3. ASSUME at = now PROVE Asked(now)'
    <3>1. ReminderAsked(now)'
      BY <1>2, <2>1, <2>3 DEF AskInv, SweepAsked
    <3>2. Weekday(LocalDay(now)) = DigestDay /\ TimeReached(now, LocalDay(now), DigestTime)
            => <<"digest", IsoWeek(LocalDay(now))>> \in queue'
      BY <2>1, <2>3
    <3> QED BY <2>1, <3>1, <3>2 DEF Asked, DigestAsked
  <2>4. NowAsked'
    BY <1>2, <2>1, <2>3 DEF AskInv, NowAsked
  <2> QED BY <1>3, <1>5, <2>1, <2>2, <2>4 DEF AskInv
<1>12. CASE SweepFail
  <2>1. UNCHANGED <<now, missed, swept, entries>> /\ pc' = "idle"
    BY <1>12 DEF SweepFail, world
  <2>2. SweepAsked'
    BY <2>1 DEF SweepAsked
  <2> QED BY <1>3, <1>4, <1>5, <2>1, <2>2 DEF AskInv
<1>13. CASE WriteEntry
  <2>1. UNCHANGED <<now, missed, swept, at, pc>> /\ entries' = entries \cup {now}
    BY <1>13 DEF WriteEntry, sweeper
  <2>2. EntriesPast'
    BY <1>1, <2>1 DEF AskInv, EntriesPast
  <2> QED BY <1>3, <1>4, <1>6, <2>1, <2>2 DEF AskInv
<1>14. CASE Clock
  <2>1. /\ now' = now + 1 /\ swept' = FALSE /\ UNCHANGED <<entries, at>>
        /\ missed' = IF swept THEN missed ELSE missed \cup {LocalDay(now)}
    BY <1>14 DEF Clock
  <2>2. NowAsked' /\ SweepAsked' /\ EntriesPast'
    <3>1. SweepAsked'
      BY <1>1, <2>1 DEF SweepAsked
    <3>2. EntriesPast'
      <4> SUFFICES ASSUME NEW e \in entries PROVE e <= now + 1
        BY <2>1 DEF EntriesPast
      <4>1. e \in Nat /\ e <= now
        BY <1>1, InstantsShown DEF AskInv, EntriesPast
      <4> QED BY <1>1, <4>1
    <3> QED BY <2>1, <3>1, <3>2 DEF NowAsked
  <2>3. DaysAsked'
    <3> SUFFICES ASSUME NEW t \in 0..now, LocalDay(t) \notin missed' PROVE Asked(t)'
      BY <1>1, <2>1 DEF DaysAsked
    <3>1. CASE t = now
      BY <1>2, <2>1, <3>1 DEF AskInv, NowAsked
    <3>2. CASE t # now
      <4>1. t \in 0..(now - 1) /\ LocalDay(t) \notin missed
        BY <1>1, <2>1, <3>2
      <4> QED BY <1>2, <4>1 DEF AskInv, DaysAsked
    <3> QED BY <3>1, <3>2
  <2> QED BY <2>2, <2>3 DEF AskInv
<1>15. CASE \/ \E b \in Browsers : Login(b) \/ LoginMail(b) \/ LoginLost(b)
            \/ FailedLogins \/ \E c \in Cards : EditCard(c)
            \/ UNCHANGED vars
  <2>1. UNCHANGED <<now, missed, swept, entries, at, pc>>
    BY <1>15 DEF Login, LoginMail, LoginLost, FailedLogins, EditCard, sweeper, vars
  <2> QED BY <1>3, <1>4, <1>5, <1>6, <2>1 DEF AskInv
<1> QED BY <1>7, <1>8, <1>9, <1>10, <1>11, <1>12, <1>13, <1>14, <1>15 DEF Next

LEMMA SoundAlways == Spec => []Sound
<1>1. Spec => [](TypeOK /\ at <= now)
  BY TypeCorrect
<1> QED BY <1>1, PTL DEF Sound

LEMMA Forgets ==
  ASSUME TimesRepeat, Sound, AskInv
  PROVE  NothingForgotten
<1>1. now \in Nat /\ now \in Instants
  BY InstantsShown DEF Sound, TypeOK
<1>2. ASSUME NEW d, d # LocalDay(now), d \notin missed, NEW time \in 0..(DayLength - 1),
             HasCome(now, d, time)
      PROVE  \E u \in 0..(now - 1) :
                LocalDay(u) = d /\ LocalDay(u) \notin missed /\ TimeReached(u, d, time)
  <2>1. PICK u \in 0..now : LocalDay(u) = d /\ Wall[u] \in {d * DayLength + time,
                                                            d * DayLength + time + Shift}
    BY <1>2 DEF HasCome
  <2>2. u \in 0..(now - 1)
    BY <1>1, <1>2, <2>1
  <2>3. u \in DOMAIN Wall /\ d \in Nat
    <3>1. u \in Instants
      BY <1>1, ClockAssumption DEF Instants
    <3> QED BY <2>1, <3>1, InstantsShown, DayOf
  <2>4. d * DayLength + time \in Nat
    BY <2>3, ClockAssumption
  <2>5. TimeReached(u, d, time)
    BY <2>1, <2>3, <2>4, Reached DEF TimeReached
  <2> QED BY <1>2, <2>1, <2>2, <2>5
<1> SUFFICES ASSUME NEW d \in {LocalDay(t) : t \in 0..now} \ (missed \cup {LocalDay(now)})
             PROVE  /\ HasCome(now, d, Reminder) /\ (\A e \in entries : LocalDay(e) # d)
                         => <<"reminder", d>> \in queue
                    /\ Weekday(d) = DigestDay /\ HasCome(now, d, DigestTime)
                         => <<"digest", IsoWeek(d)>> \in queue
  BY DEF NothingForgotten
<1>3. d # LocalDay(now) /\ d \notin missed
  OBVIOUS
<1>4. Reminder \in 0..(DayLength - 1) /\ DigestTime \in 0..(DayLength - 1)
  BY ClockAssumption
<1>5. ASSUME HasCome(now, d, Reminder), \A e \in entries : LocalDay(e) # d
      PROVE  <<"reminder", d>> \in queue
  <2>1. PICK u \in 0..(now - 1) :
          LocalDay(u) = d /\ LocalDay(u) \notin missed /\ TimeReached(u, d, Reminder)
    BY <1>2, <1>3, <1>4, <1>5
  <2> QED BY <1>5, <2>1 DEF AskInv, DaysAsked, Asked, ReminderAsked
<1>6. ASSUME Weekday(d) = DigestDay, HasCome(now, d, DigestTime)
      PROVE  <<"digest", IsoWeek(d)>> \in queue
  <2>1. PICK u \in 0..(now - 1) :
          LocalDay(u) = d /\ LocalDay(u) \notin missed /\ TimeReached(u, d, DigestTime)
    BY <1>2, <1>3, <1>4, <1>6
  <2> QED BY <1>6, <2>1 DEF AskInv, DaysAsked, Asked, DigestAsked
<1> QED BY <1>5, <1>6

(***************************************************************************)
(* THEOREM: a day that is over and on which sweeps ran has had its         *)
(* reminder, if nothing was written, and its digest, on every clock that   *)
(* is not set back across midnight: the questions of run (notify/mod.rs)   *)
(* against the local times of its day.                                     *)
(***************************************************************************)
THEOREM NoDayForgotten ==
  ASSUME DaysInOrder, TimesRepeat PROVE Spec => []NothingForgotten
<1>1. Init => AskInv
  BY DEF Init, AskInv, DaysAsked, NowAsked, SweepAsked, EntriesPast
<1>2. Sound /\ AskInv /\ [Next]_vars => AskInv'
  BY AskStep
<1>3. Sound /\ AskInv => NothingForgotten
  BY Forgets
<1> QED BY <1>1, <1>2, <1>3, SoundAlways, PTL DEF Spec

-----------------------------------------------------------------------------
(***************************************************************************)
(* Between the question and its mail users go on writing, but not before   *)
(* the instant the sweep was started for.                                  *)
(***************************************************************************)
RemindJust ==
  pc = "remind" =>
    /\ TimeReached(at, LocalDay(at), Reminder)
    /\ \A e \in entries : LocalDay(e) = LocalDay(at) => e >= at

\* What was written on t's day by t is within the bounds of the day.
LEMMA WithinBounds ==
  ASSUME DaysInOrder, DaysBegin, NEW t \in Instants, NEW e \in Instants,
         LocalDay(e) = LocalDay(t)
  PROVE  e \in DayBounds(LocalDay(t))
<1> DEFINE d == LocalDay(e)
<1>1. e \in DOMAIN Wall /\ e \in Nat /\ d \in Nat /\ d + 1 \in Nat /\ d < d + 1
  BY InstantsShown, DayOf
<1>2. d * DayLength \in Nat /\ (d + 1) * DayLength \in Nat
  BY <1>1, ClockAssumption
<1>3. /\ LocalInstant(d * DayLength) \in Nat /\ LocalInstant((d + 1) * DayLength) \in Nat
  BY <1>2, Finds
<1>4. LocalInstant(d * DayLength) <= e
  BY DEF DaysBegin
<1>5. e < LocalInstant((d + 1) * DayLength)
  BY <1>1, MidnightAfter
<1> HIDE DEF d
<1>6. e \in LocalInstant(d * DayLength)..(LocalInstant((d + 1) * DayLength) - 1)
  BY <1>1, <1>3, <1>4, <1>5
<1> QED BY <1>6 DEF d, DayBounds

LEMMA RemindStep ==
  ASSUME DaysInOrder, DaysBegin, Sound, RemindJust, [Next]_vars
  PROVE  RemindJust'
<1>1. /\ now \in Nat /\ at \in Nat /\ at \in Instants /\ at <= now /\ entries \subseteq Instants
  BY InstantsShown DEF Sound, TypeOK
<1>2. ASSUME pc' # "remind" PROVE RemindJust'
  BY <1>2 DEF RemindJust
<1>3. ASSUME UNCHANGED <<pc, at, entries>> PROVE RemindJust'
  BY <1>3 DEF RemindJust, TimeReached, LocalInstant, Showing
<1>4. CASE SweepReminder
  <2> SUFFICES ASSUME pc' = "remind" PROVE RemindJust'
    BY <1>2
  <2>1. /\ UNCHANGED <<at, entries>>
        /\ TimeReached(at, LocalDay(at), Reminder) /\ entries \cap DayBounds(LocalDay(at)) = {}
    BY <1>4 DEF SweepReminder, Goto, world
  <2>2. ASSUME NEW e \in entries, LocalDay(e) = LocalDay(at) PROVE e >= at
    <3>1. e \in DayBounds(LocalDay(at))
      BY <1>1, <2>2, WithinBounds
    <3> QED BY <2>1, <3>1
  <2> QED BY <2>1, <2>2 DEF RemindJust
<1>5. CASE SweepStart \/ Remind \/ SweepCards \/ SweepCard \/ SweepDigest \/ SweepFail
  BY <1>2, <1>5 DEF SweepStart, Remind, SweepCards, SweepCard, SweepDigest, SweepFail, Goto
<1>6. CASE WriteEntry
  <2>1. UNCHANGED <<pc, at>> /\ entries' = entries \cup {now}
    BY <1>6 DEF WriteEntry, sweeper
  <2> QED BY <1>1, <2>1 DEF RemindJust, TimeReached, LocalInstant, Showing
<1>7. CASE \/ \E b \in Browsers : Login(b) \/ LoginMail(b) \/ LoginLost(b)
           \/ FailedLogins \/ \E c \in Cards : EditCard(c)
           \/ Clock \/ UNCHANGED vars
  BY <1>3, <1>7 DEF Login, LoginMail, LoginLost, FailedLogins, EditCard, Clock, sweeper, vars
<1> QED BY <1>4, <1>5, <1>6, <1>7 DEF Next

\* Only Remind queues a reminder.
LEMMA OnlyReminds ==
  ASSUME [Next]_vars, NEW k \in queue' \ queue, k[1] = "reminder"
  PROVE  pc = "remind" /\ k = <<"reminder", LocalDay(at)>>
<1>1. CASE Remind
  BY <1>1 DEF Remind, Enqueue
<1>2. ASSUME NEW key, queue' = queue \cup {key}, key[1] # "reminder" PROVE FALSE
  BY <1>2
<1>3. CASE SweepCard
  <2>1. PICK x \in todo : Enqueue(CardKey(x[1], LocalDay(x[2]), LocalDay(at)))
    BY <1>3 DEF SweepCard
  <2> DEFINE key == CardKey(x[1], LocalDay(x[2]), LocalDay(at))
  <2>2. key[1] # "reminder"
    BY DEF CardKey
  <2> HIDE DEF key
  <2>3. queue' = queue \cup {key}
    BY <2>1 DEF Enqueue, key
  <2> QED BY <1>2, <2>2, <2>3
<1>4. CASE SweepDigest
  <2> DEFINE key == <<"digest", IsoWeek(LocalDay(at))>>
  <2>1. key[1] # "reminder"
    OBVIOUS
  <2>2. queue' = queue \/ queue' = queue \cup {key}
    BY <1>4 DEF SweepDigest, Enqueue
  <2> HIDE DEF key
  <2> QED BY <1>2, <2>1, <2>2
<1>5. ASSUME NEW b \in Browsers, LoginMail(b) PROVE FALSE
  BY <1>2, <1>5 DEF LoginMail, Enqueue
<1>6. CASE FailedLogins
  <2> DEFINE key == <<"login_failed", Wall[now] \div Shift>>
  <2>1. key[1] # "reminder"
    OBVIOUS
  <2>2. queue' = queue \cup {key}
    BY <1>6 DEF FailedLogins, Enqueue
  <2> HIDE DEF key
  <2> QED BY <1>2, <2>1, <2>2
<1> QED BY <1>1, <1>3, <1>4, <1>5, <1>6
     DEF Next, SweepStart, SweepReminder, SweepCards, SweepFail, Login, LoginLost, WriteEntry,
         EditCard, Clock, vars

(***************************************************************************)
(* THEOREM: a reminder is queued only for the day the sweep began on, when *)
(* the wall had shown a time that late by then and nothing had been        *)
(* written on that day before, whatever users write while it runs          *)
(* (notify/mod.rs:99), on a clock whose days begin where the code looks    *)
(* them up.                                                                *)
(***************************************************************************)
THEOREM RemindersDeserved ==
  ASSUME DaysInOrder, DaysBegin PROVE Spec => ReminderDeserved
<1>1. Init => RemindJust
  BY DEF Init, RemindJust
<1>2. Sound /\ RemindJust /\ [Next]_vars => RemindJust'
  BY RemindStep
<1>3. Sound /\ RemindJust /\ [Next]_vars =>
        [\A k \in queue' \ queue : k[1] = "reminder" =>
           LET d == k[2]
           IN /\ LocalDay(at) = d
              /\ \E u \in 0..at : LocalDay(u) = d /\ Wall[u] >= d * DayLength + Reminder
              /\ \A e \in entries : LocalDay(e) = d => e >= at]_vars
  <2> SUFFICES ASSUME Sound, RemindJust, [Next]_vars, NEW k \in queue' \ queue, k[1] = "reminder"
               PROVE  /\ LocalDay(at) = k[2]
                      /\ \E u \in 0..at :
                           LocalDay(u) = k[2] /\ Wall[u] >= k[2] * DayLength + Reminder
                      /\ \A e \in entries : LocalDay(e) = k[2] => e >= at
    OBVIOUS
  <2>1. pc = "remind" /\ k = <<"reminder", LocalDay(at)>>
    BY OnlyReminds
  <2>2. k[2] = LocalDay(at)
    BY <2>1
  <2>3. at \in Instants /\ Reminder \in 0..(DayLength - 1)
    BY ClockAssumption DEF Sound, TypeOK
  <2> QED BY <2>1, <2>2, <2>3, ShownThatDay DEF RemindJust
<1> QED BY <1>1, <1>2, <1>3, SoundAlways, PTL DEF Spec, ReminderDeserved

-----------------------------------------------------------------------------
(***************************************************************************)
(* A card that nobody edits while a sweep runs is selected by it, and then *)
(* selected still or queued.                                               *)
(***************************************************************************)
ToChase(c) ==
  /\ TimeReached(at, LocalDay(at), CardDue)
  /\ ~cards[c].done /\ cards[c].due < LocalInstant((LocalDay(at) + 1) * DayLength)

KeyOf(c) == CardKey(c, LocalDay(cards[c].due), LocalDay(at))

ChaseInv ==
  /\ pc \in {"card", "digest"} =>
       \A c \in Cards \ edited :
          ToChase(c) => <<c, cards[c].due>> \in todo \/ KeyOf(c) \in queue
  /\ pc = "digest" => todo = {}

LEMMA ChaseStep ==
  ASSUME Sound, ChaseInv, [Next]_vars
  PROVE  ChaseInv'
<1>1. cards \in [Cards -> [due : Dues, done : BOOLEAN]]
  BY DEF Sound, TypeOK
<1>2. queue \subseteq queue'
  BY Grows
<1>3. ASSUME pc' \notin {"card", "digest"} PROVE ChaseInv'
  BY <1>3 DEF ChaseInv
<1>4. ASSUME UNCHANGED <<at, cards>>, NEW c
      PROVE  ToChase(c)' = ToChase(c) /\ KeyOf(c)' = KeyOf(c)
  BY <1>4 DEF ToChase, KeyOf, TimeReached, LocalInstant, Showing
<1>5. ASSUME UNCHANGED <<at, cards, edited, todo, pc>> PROVE ChaseInv'
  BY <1>2, <1>4, <1>5 DEF ChaseInv
<1>6. CASE SweepCards
  <2>1. UNCHANGED <<at, cards, edited>> /\ (pc' = "digest" => todo' = {})
    BY <1>6 DEF SweepCards, Goto, world
  <2>2. ASSUME NEW c \in Cards, ToChase(c) PROVE <<c, cards[c].due>> \in todo'
    <3>1. cards[c].due \in Dues
      BY <1>1
    <3>2. todo' = {x \in Cards \X Dues :
                     /\ ~cards[x[1]].done /\ cards[x[1]].due = x[2]
                     /\ x[2] < LocalInstant((LocalDay(at) + 1) * DayLength)}
      BY <1>6, <2>2 DEF SweepCards, ToChase
    <3> QED BY <2>2, <3>1, <3>2 DEF ToChase
  <2> QED BY <1>4, <2>1, <2>2 DEF ChaseInv
<1>7. CASE SweepCard
  <2>1. UNCHANGED <<at, cards, edited>> /\ (pc' = "digest" => todo' = {}) /\ pc = "card"
    BY <1>7 DEF SweepCard, Goto, world
  <2>2. PICK x \in todo : /\ CardKey(x[1], LocalDay(x[2]), LocalDay(at)) \in queue'
                          /\ todo' = todo \ {x}
    BY <1>7 DEF SweepCard, Enqueue
  <2>3. ASSUME NEW c \in Cards \ edited, ToChase(c)
        PROVE  <<c, cards[c].due>> \in todo' \/ KeyOf(c) \in queue'
    <3>1. CASE x = <<c, cards[c].due>>
      BY <2>2, <3>1 DEF KeyOf
    <3> QED BY <1>2, <2>1, <2>2, <2>3, <3>1 DEF ChaseInv
  <2> QED BY <1>4, <2>1, <2>3 DEF ChaseInv
<1>8. CASE SweepStart \/ SweepReminder \/ Remind \/ SweepDigest \/ SweepFail
  BY <1>3, <1>8 DEF SweepStart, SweepReminder, Remind, SweepDigest, SweepFail, Goto
<1>9. ASSUME NEW c \in Cards, EditCard(c) PROVE ChaseInv'
  <2>1. /\ UNCHANGED <<at, pc, todo>> /\ edited' = edited \cup {c}
        /\ \A g \in Cards \ edited' : cards'[g] = cards[g]
    BY <1>1, <1>9 DEF EditCard
  <2>2. ASSUME NEW g \in Cards \ edited'
        PROVE  ToChase(g)' = ToChase(g) /\ KeyOf(g)' = KeyOf(g) /\ cards'[g] = cards[g]
    BY <2>1, <2>2 DEF ToChase, KeyOf, TimeReached, LocalInstant, Showing
  <2> QED BY <1>2, <2>1, <2>2 DEF ChaseInv
<1>10. CASE \/ \E b \in Browsers : Login(b) \/ LoginMail(b) \/ LoginLost(b)
            \/ FailedLogins \/ WriteEntry \/ Clock \/ UNCHANGED vars
  BY <1>5, <1>10 DEF Login, LoginMail, LoginLost, FailedLogins, WriteEntry, Clock, sweeper, vars
<1> QED BY <1>6, <1>7, <1>8, <1>9, <1>10 DEF Next

(***************************************************************************)
(* THEOREM: a sweep that runs to its end has asked about every open card   *)
(* due on its day or before, under the date the card has, unless the card  *)
(* was edited meanwhile (notify/mod.rs:133).                               *)
(***************************************************************************)
THEOREM EveryCardChased ==
  ASSUME DaysInOrder, TimesRepeat PROVE Spec => CardsChased
<1>1. Init => ChaseInv
  BY DEF Init, ChaseInv
<1>2. Sound /\ ChaseInv /\ [Next]_vars => ChaseInv'
  BY ChaseStep
<1>3. Sound /\ ChaseInv /\ [Next]_vars =>
        [SweepDigest => \A c \in Cards \ edited :
           LET due == LocalDay(cards[c].due)
               today == LocalDay(at)
           IN ~cards[c].done /\ due <= today /\ HasCome(at, today, CardDue)
              => <<"card_due", c, due, IF due = today THEN "due" ELSE "overdue">> \in queue]_vars
  <2> SUFFICES ASSUME Sound, ChaseInv, SweepDigest, NEW c \in Cards \ edited, ~cards[c].done,
                      LocalDay(cards[c].due) <= LocalDay(at), HasCome(at, LocalDay(at), CardDue)
               PROVE  <<"card_due", c, LocalDay(cards[c].due),
                        IF LocalDay(cards[c].due) = LocalDay(at) THEN "due" ELSE "overdue">>
                        \in queue
    OBVIOUS
  <2> DEFINE due == cards[c].due
             today == LocalDay(at)
             w == today * DayLength + CardDue
  <2>1. /\ at \in DOMAIN Wall /\ at \in Nat /\ today \in Nat
        /\ due \in DOMAIN Wall /\ due \in Nat /\ LocalDay(due) \in Nat
    <3>1. cards[c].due \in Instants /\ at \in Instants
      BY ClockAssumption DEF Sound, TypeOK
    <3> QED BY <3>1, InstantsShown, DayOf
  <2>2. w \in Nat
    <3>1. DayLength \in Nat /\ CardDue \in Nat
      BY ClockAssumption
    <3> HIDE DEF today
    <3>2. today * DayLength \in Nat
      BY <2>1, <3>1
    <3> QED BY <3>1, <3>2
  <2>3. TimeReached(at, today, CardDue)
    <3>1. PICK u \in 0..at : Wall[u] \in {w, w + Shift}
      BY DEF HasCome
    <3>2. u \in DOMAIN Wall /\ u \in Nat /\ u <= at
      BY <2>1, <3>1, ClockAssumption
    <3>3. LocalInstant(w) <= u /\ LocalInstant(w) \in Nat
      BY <2>2, <3>1, <3>2, Reached, Finds
    <3>4. LocalInstant(w) <= at
      <4> HIDE DEF w
      <4> QED BY <2>1, <3>2, <3>3
    <3> QED BY <3>4 DEF TimeReached
  <2>4. due < LocalInstant((today + 1) * DayLength)
    <3>1. today + 1 \in Nat /\ LocalDay(due) < today + 1
      BY <2>1
    <3> QED BY <2>1, <3>1, MidnightAfter
  <2>5. KeyOf(c) \in queue
    BY <2>3, <2>4 DEF ChaseInv, ToChase, SweepDigest
  <2>6. KeyOf(c) = <<"card_due", c, LocalDay(due),
                     IF LocalDay(due) = today THEN "due" ELSE "overdue">>
    <3>1. LocalDay(due) < today <=> LocalDay(due) # today
      BY <2>1
    <3> QED BY <3>1 DEF KeyOf, CardKey
  <2> QED BY <2>5, <2>6
<1> QED BY <1>1, <1>2, <1>3, SoundAlways, PTL DEF Spec, CardsChased

=============================================================================
