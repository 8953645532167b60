-------------------------------- MODULE Stuck ---------------------------------
(***************************************************************************)
(* The stuck-link detector (firmware/src/diag/stuck.c): a device that has  *)
(* held a relay link during this boot and then has a network and no link   *)
(* for TriggerMs restarts itself, leaving a record of why in RAM that the  *)
(* start-up code does not clear, for the next hello to report.             *)
(*                                                                         *)
(* Time is a millisecond counter that wraps.  The device samples it, the   *)
(* network and the relay session once per turn of its main loop; beside    *)
(* the detector the module keeps what has really happened, in milliseconds *)
(* that do not wrap.                                                       *)
(***************************************************************************)
EXTENDS Integers

CONSTANTS Wrap,       \* the counter wraps here, 2^32 on the device
          ArmMs,      \* a link held this long arms the detector, 60000
          TriggerMs,  \* an outage this long restarts the device, 900000
          Turns,      \* the milliseconds a turn of the main loop may take
          Ages        \* bound: longer stretches all count as this long

ASSUME WrapAssumption == Wrap \in Nat \ {0} /\ Ages \in Nat
ASSUME ThresholdAssumption ==
  /\ ArmMs \in Nat /\ TriggerMs \in Nat \ {0}
  /\ ArmMs <= Ages /\ TriggerMs <= Ages
ASSUME TurnsAssumption ==
  \A turn \in Turns : turn \in Nat \ {0} /\ ArmMs + turn < Wrap /\ TriggerMs + turn < Wrap

VARIABLES
  pc,        \* "off", "booted", or "restarting" until the watchdog fires
  now,       \* to_ms_since_boot()
  detector,  \* rw_stuck_t
  ram,       \* the uninitialised RAM: a sealed record, or "nothing"
  report,    \* have_last_stuck: the next hello is to carry the record
  linkFor,   \* how long the link has really held, or NotNow
  outFor,    \* how long there has really been a network and no link, or NotNow
  proved,    \* a link has really held for ArmMs during this boot
  lastEnd    \* how the previous boot ended

vars == <<pc, now, detector, ram, report, linkFor, outFor, proved, lastEnd>>

NotNow == -1

\* rw_stuck_init
Fresh == [armed |-> FALSE, linked |-> FALSE, linkedSince |-> 0, unlinkedSince |-> 0]

Detectors == [armed : BOOLEAN, linked : BOOLEAN, linkedSince : 0 .. Wrap - 1,
              unlinkedSince : 0 .. Wrap - 1]

TypeOK ==
  /\ pc \in {"off", "booted", "restarting"}
  /\ now \in 0 .. Wrap - 1
  /\ detector \in Detectors
  /\ ram \in {"nothing", "record"}
  /\ report \in BOOLEAN
  /\ linkFor \in NotNow .. Ages
  /\ outFor \in NotNow .. Ages
  /\ proved \in BOOLEAN
  /\ lastEnd \in {"power", "stuck", "other"}

-------------------------------------------------------------------------------
\* Mutated form: a comparison of time stamps, which the wrap upsets.
Elapsed_Signed(t, since) == t - since

\* An unsigned difference, correct across the wrap.
Elapsed(t, since) == (t - since) % Wrap

\* rw_stuck_step without a network.
StepOffline(d) == [d EXCEPT !.linked = FALSE, !.linkedSince = 0, !.unlinkedSince = 0]

\* Mutated form: any link arms, however short.
StepLinked_AtOnce(d, t) ==
  [d EXCEPT !.linked = TRUE, !.linkedSince = t, !.unlinkedSince = 0, !.armed = TRUE]

\* rw_stuck_step with a link: arm only after it has held.
StepLinked(d, t) ==
  LET since == IF d.linked THEN d.linkedSince ELSE t
  IN [d EXCEPT !.linked = TRUE, !.linkedSince = since, !.unlinkedSince = 0,
               !.armed = @ \/ Elapsed(t, since) >= ArmMs]

\* rw_stuck_step with a network and no link.  Zero says "not unlinked", so an
\* outage that begins on it is put down to the next millisecond, from which it
\* has then lasted Wrap - 1.
StepUnlinked(d, t) ==
  [d EXCEPT !.linked = FALSE, !.linkedSince = 0,
            !.unlinkedSince = IF @ # 0 THEN @ ELSE IF t # 0 THEN t ELSE 1]

Step(d, net, relay, t) ==
  IF ~net THEN StepOffline(d) ELSE IF relay THEN StepLinked(d, t) ELSE StepUnlinked(d, t)

\* What the step returns: record the reason and restart.
GivesUp(d, net, relay, t) ==
  /\ net /\ ~relay
  /\ d.armed
  /\ Elapsed(t, StepUnlinked(d, t).unlinkedSince) >= TriggerMs

-------------------------------------------------------------------------------
Init ==
  /\ pc = "off"
  /\ now = 0
  /\ detector = Fresh
  /\ ram = "nothing"
  /\ report = FALSE
  /\ linkFor = NotNow
  /\ outFor = NotNow
  /\ proved = FALSE
  /\ lastEnd = "power"

\* Mutated form: the record is not cleared once it has been taken.
Taken_Kept == ram

\* rw_sys_stuck_take: consumed, or cleared as noise.
Taken == "nothing"

\* main() up to its loop: the record of the previous boot is taken.
Boot ==
  /\ pc = "off"
  /\ pc' = "booted"
  /\ now' = 0
  /\ detector' = Fresh
  /\ report' = (ram = "record")
  /\ ram' = Taken
  /\ linkFor' = NotNow
  /\ outFor' = NotNow
  /\ proved' = FALSE
  /\ UNCHANGED lastEnd

\* A stretch that goes on, or begins, or is over.
Stretch(length, turn, goesOn) ==
  IF ~goesOn THEN NotNow
  ELSE IF length = NotNow THEN 0
  ELSE IF length + turn < Ages THEN length + turn ELSE Ages

\* stuck_task once per turn of the main loop.
Turn(net, relay, turn) ==
  LET t == (now + turn) % Wrap
  IN /\ pc = "booted"
     /\ now' = t
     /\ detector' = Step(detector, net, relay, t)
     /\ linkFor' = Stretch(linkFor, turn, net /\ relay)
     /\ outFor' = Stretch(outFor, turn, net /\ ~relay)
     /\ proved' = (proved \/ linkFor' >= ArmMs)
     /\ IF GivesUp(detector, net, relay, t)
        THEN ram' = "record" /\ pc' = "restarting"
        ELSE UNCHANGED <<ram, pc>>
     /\ UNCHANGED <<report, lastEnd>>

\* The report is spent only if the frame was handed to the connection.
ReportAfterHello(sent) == report /\ ~sent

SendHello(sent) ==
  /\ pc = "booted"
  /\ report' = ReportAfterHello(sent)
  /\ UNCHANGED <<pc, now, detector, ram, linkFor, outFor, proved, lastEnd>>

EndBoot(how) ==
  /\ pc' = "off"
  /\ lastEnd' = how
  /\ UNCHANGED <<now, detector, report, linkFor, outFor, proved>>

\* The watchdog fires a quarter of a second later.
StuckRestart == pc = "restarting" /\ EndBoot("stuck") /\ UNCHANGED ram

\* Every other restart leaves the RAM as it is too.
OtherRestart == pc = "booted" /\ EndBoot("other") /\ UNCHANGED ram

\* Without power the RAM holds noise, which no seal validates.
PowerCut == pc # "off" /\ EndBoot("power") /\ ram' = "nothing"

Next ==
  \/ Boot
  \/ \E net, relay \in BOOLEAN, turn \in Turns : Turn(net, relay, turn)
  \/ \E sent \in BOOLEAN : SendHello(sent)
  \/ StuckRestart \/ OtherRestart \/ PowerCut

Spec == Init /\ [][Next]_vars

-------------------------------------------------------------------------------
\* The turn on which the counter reads zero has found the link gone.
LostAtTheWrap == now = 0 /\ outFor = 0

\* A device restarts itself only if it has held a link for ArmMs during this
\* boot and has since had a network and no link for TriggerMs without a break,
\* over any number of wraps, or has this moment lost the link on the very
\* millisecond on which the counter wraps (rw_stuck_step).
OnlyTheStuckRestart ==
  pc = "restarting" => proved /\ (outFor >= TriggerMs \/ LostAtTheWrap)

\* The same without the exception, as stuck.h has it of the wrap: no device is
\* restarted whose outage has not lasted TriggerMs (rw_stuck_step).  The code does
\* not have it.
NoRestartAtTheWrap ==
  pc = "restarting" => outFor >= TriggerMs

\* A device that has held a link is not left with a network and no link for
\* longer than TriggerMs (rw_stuck_step).
TheStuckDoRestart ==
  pc = "booted" /\ proved => outFor < TriggerMs

\* What a hello reports happened at the end of the boot before this one, and
\* of no earlier one (rw_sys_stuck_take, rw_sys_stuck_store).
ReportIsOfTheLastBoot == report /\ pc = "booted" => lastEnd = "stuck"
===============================================================================
