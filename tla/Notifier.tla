------------------------------ MODULE Notifier ------------------------------
(***************************************************************************)
(* What is worth a mail, and when: src/src/notify/mod.rs.  Once a minute a *)
(* sweep asks whether the day's reminder, a card or the week's digest is   *)
(* due, and puts what it finds into the outbox under a key that names the  *)
(* occasion; a login of a new browser is put there by the login route.     *)
(*                                                                         *)
(* Every question is asked in local time.  Wall is the clock on the wall:  *)
(* it may skip an hour or show one twice, so a day is not always DayLength *)
(* units long, and the code works with instants it has to look up.  What a *)
(* mail says is left out.                                                  *)
(***************************************************************************)
EXTENDS Integers, FiniteSets

CONSTANTS
  Horizon,      \* bound: the last instant
  Wall,         \* what the clock on the wall shows at each instant
  DayLength,    \* units in a day, as the wall counts them
  Week,         \* days in a week
  Shift,        \* one hour, in units
  Reminder, CardDue, DigestTime,  \* the configured times of day
  DigestDay,    \* the configured weekday
  Cards, Dues,  \* the cards, and the instants they may be due at
  Browsers,
  MaxEvents     \* bound: what users do

Instants == 0..Horizon

ASSUME ClockAssumption ==
  /\ Horizon \in Nat /\ MaxEvents \in Nat
  /\ DayLength \in Nat \ {0} /\ Week \in Nat \ {0} /\ Shift \in Nat \ {0}
  /\ {Reminder, CardDue, DigestTime} \subseteq 0..(DayLength - 1)
  /\ DOMAIN Wall = 0..(Horizon + 2 * DayLength)
  /\ Wall \in [DOMAIN Wall -> Nat]
  /\ Dues \subseteq Instants

Never == Horizon + 3 * DayLength      \* i64::MAX

VARIABLES
  now,
  entries,    \* when the documents of the diary were created
  cards,      \* [due, done] of each card
  edited,     \* the cards edited since the sweep began
  queue,      \* the keys in the outbox
  pc,         \* the question the sweep asks next
  at,         \* the instant a sweep was started for
  todo,       \* the cards it has selected and not queued yet
  swept,      \* whether a sweep for this instant has run to its end
  missed,     \* days with an instant no sweep was run to the end for
  seen,       \* login_events: whether and when each browser was first seen
  mailing,    \* logins found to be new and not queued yet
  events

vars == <<now, entries, cards, edited, queue, pc, at, todo, swept, missed,
          seen, mailing, events>>
world == <<now, entries, cards, seen, mailing, missed, events>>
sweeper == <<pc, at, todo, swept, edited>>

-----------------------------------------------------------------------------
(* Local time *)

Earliest(S) == CHOOSE t \in S : \A u \in S : t <= u

Showing(w) == {t \in DOMAIN Wall : Wall[t] = w}

LocalDay(t) == Wall[t] \div DayLength

\* A slip: a time the wall never shows does not come.
LocalInstantOrNever(w) == IF Showing(w) # {} THEN Earliest(Showing(w)) ELSE Never

\* The first of the instants that show it.  If none does, an hour is added.
LocalInstant(w) ==
  IF Showing(w) # {} THEN Earliest(Showing(w))
  ELSE IF Showing(w + Shift) # {} THEN Earliest(Showing(w + Shift))
  ELSE Never

\* A slip: every day has the same length.
DayBoundsRounded(d) ==
  LET start == LocalInstant(d * DayLength) IN start..(start + DayLength - 1)

\* day_bounds, as the set of the day's instants.
DayBounds(d) ==
  LocalInstant(d * DayLength)..(LocalInstant((d + 1) * DayLength) - 1)

TimeReached(t, d, time) == t >= LocalInstant(d * DayLength + time)

Weekday(d) == d % Week
IsoWeek(d) == d \div Week

-----------------------------------------------------------------------------
Init ==
  /\ now = 0 /\ entries = {} /\ events = 0
  /\ cards \in [Cards -> [due : Dues, done : {FALSE}]]
  /\ queue = {}
  /\ pc = "idle" /\ at = 0 /\ todo = {} /\ edited = {} /\ swept = FALSE
  /\ missed = {}
  /\ seen = [b \in Browsers |-> "never"] /\ mailing = {}

\* INSERT OR IGNORE: the key is unique.
Enqueue(key) == queue' = queue \cup {key}

Goto(label) == pc' = label /\ UNCHANGED <<at, swept, edited>>

(***************************************************************************)
(* A sweep takes the time once, when it starts, and asks its questions one *)
(* statement after another, while users go on and the clock does too.      *)
(***************************************************************************)
SweepStart ==
  /\ pc = "idle"
  /\ pc' = "reminder" /\ at' = now /\ edited' = {}
  /\ UNCHANGED <<world, queue, todo, swept>>

SweepReminder ==
  /\ pc = "reminder"
  /\ LET today == LocalDay(at)
     IN  Goto(IF /\ TimeReached(at, today, Reminder)
                 /\ entries \cap DayBounds(today) = {}
              THEN "remind" ELSE "cards")
  /\ UNCHANGED <<world, queue, todo>>

Remind ==
  /\ pc = "remind"
  /\ Enqueue(<<"reminder", LocalDay(at)>>)
  /\ Goto("cards")
  /\ UNCHANGED <<world, todo>>

\* A slip: only what is due by now.
SweepCardsSoFar ==
  /\ pc = "cards"
  /\ todo' = IF TimeReached(at, LocalDay(at), CardDue)
             THEN {x \in Cards \X Dues : /\ ~cards[x[1]].done
                                         /\ cards[x[1]].due = x[2] /\ x[2] <= at}
             ELSE {}
  /\ Goto(IF todo' = {} THEN "digest" ELSE "card")
  /\ UNCHANGED <<world, queue>>

SweepCards ==
  /\ pc = "cards"
  /\ LET today == LocalDay(at)
         end == LocalInstant((today + 1) * DayLength)
     IN  todo' = IF TimeReached(at, today, CardDue)
                 THEN {x \in Cards \X Dues : /\ ~cards[x[1]].done
                                             /\ cards[x[1]].due = x[2] /\ x[2] < end}
                 ELSE {}
  /\ Goto(IF todo' = {} THEN "digest" ELSE "card")
  /\ UNCHANGED <<world, queue>>

\* The date is part of the key, so moving a card's date asks again.
CardKey(c, due, today) ==
  <<"card_due", c, due, IF due < today THEN "overdue" ELSE "due">>

SweepCard ==
  /\ pc = "card"
  /\ \E x \in todo :
       /\ Enqueue(CardKey(x[1], LocalDay(x[2]), LocalDay(at)))
       /\ todo' = todo \ {x}
  /\ Goto(IF todo' = {} THEN "digest" ELSE "card")
  /\ UNCHANGED world

SweepDigest ==
  /\ pc = "digest"
  /\ LET today == LocalDay(at)
     IN  IF Weekday(today) = DigestDay /\ TimeReached(at, today, DigestTime)
         THEN Enqueue(<<"digest", IsoWeek(today)>>)
         ELSE UNCHANGED queue
  /\ pc' = "idle" /\ at' = 0 /\ swept' = (swept \/ at = now)
  /\ UNCHANGED <<world, todo, edited>>

\* A statement fails, or the server stops: the questions left are not asked.
SweepFail ==
  /\ pc # "idle"
  /\ pc' = "idle" /\ at' = 0 /\ todo' = {}
  /\ UNCHANGED <<world, queue, edited, swept>>

(***************************************************************************)
(* record_login: the upsert, the row as it is now, the mail.               *)
(***************************************************************************)
\* Within one unit a second login may fall into the second of the first.
Login(b) ==
  /\ events < MaxEvents /\ events' = events + 1
  /\ seen' = [seen EXCEPT ![b] = IF @ = "never" THEN "now" ELSE @]
  /\ \/ seen[b] \in {"never", "now"} /\ mailing' = mailing \cup {b}
     \/ seen[b] # "never" /\ UNCHANGED mailing
  /\ UNCHANGED <<now, entries, cards, missed, queue, sweeper>>

LoginMail(b) ==
  /\ b \in mailing
  /\ mailing' = mailing \ {b}
  /\ Enqueue(<<"login", b>>)
  /\ UNCHANGED <<now, entries, cards, seen, missed, events, sweeper>>

\* The row is there, the mail is not, and nobody will ask again.
LoginLost(b) ==
  /\ b \in mailing
  /\ mailing' = mailing \ {b}
  /\ UNCHANGED <<now, entries, cards, seen, missed, events, queue, sweeper>>

\* note_failed_logins: one mail an hour, as the wall names it.
FailedLogins ==
  /\ events < MaxEvents /\ events' = events + 1
  /\ Enqueue(<<"login_failed", Wall[now] \div Shift>>)
  /\ UNCHANGED <<now, entries, cards, seen, mailing, missed, sweeper>>

\* What users do meanwhile.
WriteEntry ==
  /\ events < MaxEvents /\ events' = events + 1
  /\ entries' = entries \cup {now}
  /\ UNCHANGED <<now, cards, seen, mailing, missed, queue, sweeper>>

EditCard(c) ==
  /\ events < MaxEvents /\ events' = events + 1
  /\ \E due \in Dues, done \in BOOLEAN :
       cards' = [cards EXCEPT ![c] = [due |-> due, done |-> done]]
  /\ edited' = edited \cup {c}
  /\ UNCHANGED <<now, entries, seen, mailing, missed, queue, pc, at, todo, swept>>

Clock ==
  /\ now < Horizon
  /\ now' = now + 1
  /\ missed' = IF swept THEN missed ELSE missed \cup {LocalDay(now)}
  /\ swept' = FALSE
  /\ seen' = [b \in Browsers |-> IF seen[b] = "now" THEN "before" ELSE seen[b]]
  /\ UNCHANGED <<entries, cards, edited, mailing, events, queue, pc, at, todo>>

Next ==
  \/ SweepStart \/ SweepReminder \/ Remind \/ SweepCards \/ SweepCard
  \/ SweepDigest \/ SweepFail
  \/ \E b \in Browsers : Login(b) \/ LoginMail(b) \/ LoginLost(b)
  \/ FailedLogins \/ WriteEntry \/ \E c \in Cards : EditCard(c)
  \/ Clock

Spec == Init /\ [][Next]_vars

-----------------------------------------------------------------------------
(* Properties *)

\* What the columns, the clock and the sweep's locals may hold.
TypeOK ==
  /\ now \in Instants /\ entries \subseteq Instants /\ events \in 0..MaxEvents
  /\ cards \in [Cards -> [due : Dues, done : BOOLEAN]]
  /\ edited \subseteq Cards
  /\ pc \in {"idle", "reminder", "remind", "cards", "card", "digest"}
  /\ at \in Instants /\ swept \in BOOLEAN
  /\ todo \subseteq Cards \X Dues
  /\ missed \subseteq Nat
  /\ seen \in [Browsers -> {"never", "now", "before"}]
  /\ mailing \subseteq Browsers

\* By t the wall has shown the time on day d, or the hour after it if skipped.
HasCome(t, d, time) ==
  \E u \in 0..t : LocalDay(u) = d /\ Wall[u] \in {d * DayLength + time,
                                                  d * DayLength + time + Shift}

(***************************************************************************)
(* A day that is over, on which sweeps ran and nothing was written, has    *)
(* had its reminder, and a digest day its digest, also on a day on which   *)
(* the clocks changed: a time that is skipped still comes, and one that    *)
(* comes twice is not waited for twice (notify/mod.rs:410).  The exception *)
(* is a time skipped in the last hour of a day.                            *)
(***************************************************************************)
NothingForgotten ==
  \A d \in {LocalDay(t) : t \in 0..now} \ (missed \cup {LocalDay(now)}) :
     /\ /\ HasCome(now, d, Reminder)
        /\ \A e \in entries : LocalDay(e) # d
        => <<"reminder", d>> \in queue
     /\ Weekday(d) = DigestDay /\ HasCome(now, d, DigestTime)
        => <<"digest", IsoWeek(d)>> \in queue

(***************************************************************************)
(* "Asked once the reminder time has passed, and only if the diary space   *)
(* gained no document that local day" (notify/mod.rs:99): a reminder is    *)
(* queued for the day its sweep began on, when the wall had shown a time   *)
(* that late by then and nothing had been written on that day before.      *)
(***************************************************************************)
ReminderDeserved ==
  [][\A k \in queue' \ queue : k[1] = "reminder" =>
       LET d == k[2]
       IN /\ LocalDay(at) = d
          /\ \E u \in 0..at : LocalDay(u) = d /\ Wall[u] >= d * DayLength + Reminder
          /\ \A e \in entries : LocalDay(e) = d => e >= at]_vars

(***************************************************************************)
(* A sweep that runs to its end has asked about every open card due on its *)
(* day or before: as due on the day itself, however late, and as overdue   *)
(* from the next one, under the date the card has now (notify/mod.rs:133). *)
(* A card edited while the sweep ran may have to wait for the next one.    *)
(***************************************************************************)
CardsChased ==
  [][SweepDigest => \A c \in Cards \ edited :
       LET due == LocalDay(cards[c].due)
           today == LocalDay(at)
       IN ~cards[c].done /\ due <= today /\ HasCome(at, today, CardDue)
          => <<"card_due", c, due, IF due = today THEN "due" ELSE "overdue">> \in queue]_vars

-----------------------------------------------------------------------------
(* The clocks the properties hold of *)

\* No day comes back: no clock is set back across midnight.
DaysInOrder == \A t, u \in DOMAIN Wall : t <= u => LocalDay(t) <= LocalDay(u)

\* A clock that was set back shows again what it has shown.
TimesRepeat ==
  \A t, u \in DOMAIN Wall :
     u < t /\ Wall[t] < Wall[u] => \E v \in 0..u : Wall[v] = Wall[t]

\* A day begins at its midnight, or an hour after one that is skipped.
DaysBegin == \A t \in Instants : LocalInstant(LocalDay(t) * DayLength) <= t
=============================================================================
