--------------------------- MODULE LoginThrottle ---------------------------
(***************************************************************************)
(* The brake on failed logins: src/src/throttle.rs as the handler          *)
(* routes::session::login uses it.                                         *)
(*                                                                         *)
(* login asks the throttle, compares the password and then reports the     *)
(* outcome; the mutex is held for each of the two calls and not between    *)
(* them.  Seconds and delays are two's complement integers of Width bits,  *)
(* 64 in the code, and wrap as in a release build.                         *)
(***************************************************************************)
EXTENDS Integers, FiniteSets

CONSTANTS
  Logins,         \* logins that may be in flight together
  FREE_ATTEMPTS,  \* 3 in the code
  MAX_DELAY,      \* 30 in the code
  Width,          \* bits of an i64
  MaxCount,       \* where the saturating count of failures stops
  MaxClock        \* bound: seconds that pass

\* What a one becomes after k shifts to the left, if nothing is shifted out.
Bit[k \in Nat] == IF k = 0 THEN 1 ELSE 2 * Bit[k - 1]

SignBit == Bit[Width - 1]

ASSUME ThrottleAssumption ==
  /\ IsFiniteSet(Logins) /\ Logins # {}
  /\ FREE_ATTEMPTS \in Nat
  /\ Width \in Nat \ {0}
  /\ MaxCount \in Nat \ {0}
  /\ MAX_DELAY \in Nat \ {0} /\ MaxClock \in Nat
  /\ MaxClock + MAX_DELAY < SignBit     \* time itself does not run out

VARIABLES
  failures,      \* State::failures
  next_allowed,  \* State::next_allowed
  now,           \* the clock
  checking,      \* the logins the throttle let through and that await an outcome
  since          \* when the count was last reset

throttleVars == <<failures, next_allowed, now, checking, since>>

ThrottleInit ==
  /\ failures = 0 /\ next_allowed = 0
  /\ now = 0 /\ since = 0
  /\ checking = {}

Capped(x, most) == IF x <= most THEN x ELSE most

\* What Width bits keep of x.
Wrapped(x) == ((x + SignBit) % (2 * SignBit)) - SignBit

\* A slip: nothing caps the wait.
delay_uncapped(n) ==
  LET shift == n - FREE_ATTEMPTS - 1
  IN  IF n <= FREE_ATTEMPTS THEN 0
      ELSE IF shift >= Width THEN MAX_DELAY
      ELSE Wrapped(Bit[shift])

\* checked_shl minds only a shift of Width bits or more, not what it shifts out.
delay_after(n) ==
  LET shift == n - FREE_ATTEMPTS - 1
  IN  IF n <= FREE_ATTEMPTS THEN 0
      ELSE IF shift >= Width THEN MAX_DELAY
      ELSE Capped(Wrapped(Bit[shift]), MAX_DELAY)

\* The seconds check() tells the client to wait.
Remaining == Wrapped(next_allowed - now)

Check(c) ==
  /\ c \notin checking
  /\ Remaining <= 0
  /\ checking' = checking \cup {c}
  /\ UNCHANGED <<failures, next_allowed, now, since>>

\* A slip: the wait this failure is due comes with the next one.
RecordFailureLate(c) ==
  /\ c \in checking
  /\ checking' = checking \ {c}
  /\ failures' = Capped(failures + 1, MaxCount)
  /\ next_allowed' = Wrapped(now + delay_after(failures))
  /\ UNCHANGED <<now, since>>

RecordFailure(c) ==
  /\ c \in checking
  /\ checking' = checking \ {c}
  /\ failures' = Capped(failures + 1, MaxCount)
  /\ next_allowed' = Wrapped(now + delay_after(failures'))
  /\ UNCHANGED <<now, since>>

\* A slip: the wait is over, the count goes on.
ForgiveWaitOnly(c) ==
  /\ c \in checking
  /\ checking' = checking \ {c}
  /\ next_allowed' = 0
  /\ since' = now
  /\ UNCHANGED <<failures, now>>

RecordSuccess(c) ==
  /\ c \in checking
  /\ checking' = checking \ {c}
  /\ failures' = 0 /\ next_allowed' = 0
  /\ since' = now
  /\ UNCHANGED now

\* The clock stands still at its bound.
Second ==
  /\ now' = Capped(now + 1, MaxClock)
  /\ UNCHANGED <<failures, next_allowed, checking, since>>

ThrottleNext ==
  \/ \E c \in Logins : Check(c) \/ RecordFailure(c) \/ RecordSuccess(c)
  \/ Second

ThrottleSpec == ThrottleInit /\ [][ThrottleNext]_throttleVars

-----------------------------------------------------------------------------
(* Properties *)

\* One place per failure is shifted; this many keep out of the sign bit.
Doubling == failures < FREE_ATTEMPTS + Width

(***************************************************************************)
(* The owner is slowed down, never locked out: no attempt is told to wait  *)
(* longer than MAX_DELAY (throttle.rs:9), in whatever order failures and a *)
(* success are recorded.  From the failure that reaches the sign bit on it *)
(* is false: the wait it sets is negative, and a second later check's      *)
(* subtraction wraps around to the longest wait there is.                  *)
(***************************************************************************)
NeverLockedOut == Doubling => Remaining <= MAX_DELAY

(***************************************************************************)
(* A failure recorded late, by a login let through before the last wait    *)
(* was imposed, never shortens that wait; only the right password does, or *)
(* a failure that reaches the sign bit.                                    *)
(***************************************************************************)
OnlySuccessForgives ==
  [][next_allowed' < next_allowed => failures' = 0 \/ ~Doubling']_throttleVars

(***************************************************************************)
(* Guessing in parallel buys one round: past the free attempts, every      *)
(* further round of as many failures as there are logins in flight takes   *)
(* another second at least, although check and record_failure lock apart.  *)
(***************************************************************************)
GuessesTakeTime ==
  failures > FREE_ATTEMPTS /\ Doubling =>
     now - since >= (failures - FREE_ATTEMPTS - 1) \div Cardinality(Logins)

=============================================================================
