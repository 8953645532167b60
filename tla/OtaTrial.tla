------------------------------- MODULE OtaTrial -------------------------------
(***************************************************************************)
(* What the update machinery promises, with neither sectors nor programs:  *)
(* one state record that changes in one step, and a set of slots whose     *)
(* image has proved itself, from which the slot the record comes back to   *)
(* is never taken.  All of it holds until the record is lost or the spare  *)
(* slot is interfered with by hand, and of what follows nothing is         *)
(* promised.                                                               *)
(***************************************************************************)
EXTENDS Integers

CONSTANT TrialBoots

VARIABLES reg,     \* the record in force, or NoRecord
          proven,  \* the slots that hold a proven image
          void     \* the record was lost, or the trial interfered with by hand

promise == <<reg, proven, void>>

Slots == {"A", "B"}

Other(slot) == IF slot = "A" THEN "B" ELSE "A"

Record(active, fallback, trial, confirmed) ==
  [active |-> active, fallback |-> fallback, trial |-> trial, confirmed |-> confirmed]

NoRecord == Record("none", "none", 0, FALSE)

Settled(slot) == Record(slot, slot, 0, TRUE)

\* Where the device ends up if nothing unproven works out.
Home == IF reg = NoRecord THEN "A" ELSE IF reg.confirmed THEN reg.active ELSE reg.fallback

Init == reg = NoRecord /\ proven = {"A"} /\ void = FALSE

\* A running image reaches the relay.
Prove(slot) == proven' = proven \cup {slot} /\ UNCHANGED reg

\* A slot is overwritten, never the one to come back to.
Overwrite(slot) == slot # Home /\ proven' = proven \ {slot} /\ UNCHANGED reg

\* A slot goes on trial with a proven one to come back to.
Try(slot) ==
  /\ Other(slot) \in proven
  /\ reg' = Record(slot, Other(slot), TrialBoots, FALSE)
  /\ UNCHANGED proven

Boot ==
  /\ reg # NoRecord
  /\ ~reg.confirmed
  /\ reg.trial > 0
  /\ reg' = [reg EXCEPT !.trial = @ - 1]
  /\ UNCHANGED proven

GiveUp ==
  /\ reg # NoRecord
  /\ ~reg.confirmed
  /\ reg.trial = 0
  /\ reg' = Settled(reg.fallback)
  /\ UNCHANGED proven

\* Only a proven image is confirmed.
Settle(slot) ==
  /\ slot \in proven
  /\ reg' = Settled(slot)
  /\ UNCHANGED proven

Kept == UNCHANGED void /\
  \/ \E slot \in Slots : Prove(slot) \/ Overwrite(slot) \/ Try(slot) \/ Settle(slot)
  \/ Boot \/ GiveUp

\* No image gains by it.
Lose == void' = TRUE /\ proven' \subseteq proven

Next == IF void THEN void' = TRUE ELSE Kept \/ Lose

Spec == Init /\ [][Next]_promise
===============================================================================
