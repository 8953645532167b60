------------------------------- MODULE OtaState -------------------------------
(***************************************************************************)
(* The OTA state record and what may be done to it (firmware/src/ota/      *)
(* state.c): which slot boots, which one to go back to, and how many boots *)
(* an unproven image has left.  The loader and the application both use    *)
(* these operators.  The version string is left out: nothing decides on it *)
(* once it is in the record.                                               *)
(***************************************************************************)
EXTENDS Integers

CONSTANTS TrialBoots,   \* boots an unproven image gets, 3 in state.h
          SeqMod        \* the sequence counter wraps here, 2^32 in state.h

ASSUME TrialBootsAssumption == TrialBoots \in Nat \ {0}
ASSUME SeqModAssumption == SeqMod \in Nat /\ SeqMod > 3

Slots == {"A", "B"}

Records == [seq : 0 .. SeqMod - 1, active : Slots, fallback : Slots,
            trial : 0 .. TrialBoots, confirmed : BOOLEAN]

\* A sector that does not decode: blank from the factory, erased, or half
\* written.  A record in its place, so that a copy is always a record.
Torn == [seq |-> 0, active |-> "none", fallback |-> "none", trial |-> 0,
         confirmed |-> FALSE]

Copies == Records \cup {Torn}

OtherSlot(slot) == IF slot = "A" THEN "B" ELSE "A"

NextSeq(seq) == (seq + 1) % SeqMod

\* Mutated form: the counters compared as plain numbers, as if they never wrapped.
NotOlder_Unwrapped(a, b) == a.seq >= b.seq

\* "As unsigned differences so the counter can wrap": a was written no
\* earlier than b, as long as fewer than half the counter lies between them.
NotOlder(a, b) == (a.seq - b.seq) % SeqMod < SeqMod \div 2

\* The newer readable copy; Torn when neither reads.
Pick(a, b) ==
  IF a # Torn /\ b # Torn THEN (IF NotOlder(a, b) THEN a ELSE b)
  ELSE IF a # Torn THEN a ELSE b

\* What is true of a device that was never updated.
Default(slot) ==
  [seq |-> 1, active |-> slot, fallback |-> slot, trial |-> 0, confirmed |-> TRUE]

\* Mutated form: the counter is not spent on the boot it pays for.
SpendBoot_Free(r) == [r EXCEPT !.seq = NextSeq(@)]

SpendBoot(r) == [r EXCEPT !.trial = @ - 1, !.seq = NextSeq(@)]

\* Mutated form: the spent trial is closed on the image that failed it.
Revert_Stays(r) == [r EXCEPT !.confirmed = TRUE, !.trial = 0, !.seq = NextSeq(@)]

Revert(r) == [r EXCEPT !.active = r.fallback, !.confirmed = TRUE,
                       !.trial = 0, !.seq = NextSeq(@)]

\* Mutated form: the last boot is not granted.
OnBoot_OffByOne(r) == IF r.trial > 1 THEN SpendBoot(r) ELSE Revert(r)

\* What the loader makes of an unconfirmed record: it is always written back.
OnBoot(r) == IF r.trial > 0 THEN SpendBoot(r) ELSE Revert(r)

Stage(r, slot) ==
  IF slot = r.active /\ r.confirmed THEN r
  ELSE [r EXCEPT !.fallback = IF slot # r.active THEN r.active ELSE @,
                 !.active = slot, !.trial = TrialBoots,
                 !.confirmed = FALSE, !.seq = NextSeq(@)]

Confirm(r) ==
  IF r.confirmed THEN r
  ELSE [r EXCEPT !.confirmed = TRUE, !.trial = 0, !.fallback = r.active,
                 !.seq = NextSeq(@)]
===============================================================================
