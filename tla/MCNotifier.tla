----------------------------- MODULE MCNotifier -----------------------------
(* An instance of Notifier for TLC, in half hours: a day of six on which the *)
(* clocks go forward over the reminder's time and the digest's, one on which *)
(* they go back, and the start of a third.                                   *)
EXTENDS Notifier

CONSTANTS c1, b1

\* Day 0 skips 2 and 3; day 1 shows 6 and 7 twice.
Zone == [t \in 0..(Horizon + 12) |->
           IF t < 2 THEN t ELSE IF t < 6 THEN t + 2 ELSE t]

\* Such clocks are within what NotifierProofs assumes.
ASSUME ClocksOfTheProofs == DaysInOrder /\ TimesRepeat /\ DaysBegin
=============================================================================
