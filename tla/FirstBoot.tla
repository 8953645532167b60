------------------------------- MODULE FirstBoot ------------------------------
(***************************************************************************)
(* A device from its box to its network: it comes up without a network, is *)
(* set up through the portal (Portal), restarts, and joins the network it  *)
(* was given (NetJoin, which this module extends).  main() chooses between *)
(* the two once, at boot; they share the radio, and the configuration in   *)
(* flash is all that passes from the one to the other.                     *)
(***************************************************************************)
EXTENDS NetJoin

CONSTANTS
  MaxSlots, MaxConns, Visits, Networks,    \* Portal's
  SetupFaults                              \* bound: its MaxFaults

VARIABLES
  phase,       \* what main() chose: "setup" or "station"
  up, join, joinKey, dialled, stage, saved, reboot, slot, conn, inside, active, proven

Setup == INSTANCE Portal WITH MaxFaults <- SetupFaults

ASSUME SetupAssumption == Setup!ConstantsOK
ASSUME StationAssumption == ConstantsOK

inSetup == <<up, join, joinKey, dialled, stage, saved, reboot, slot, conn, inside, active, proven>>
inStation == <<settings, clock, state, attempt, backoff, timer, addrLost, lastError, sntp,
               warned, late, history>>
device == <<phase, radio, faults, inSetup, inStation>>

FromTheBox ==
  /\ phase = "setup"
  /\ Setup!Init
  /\ psk = "wrong" /\ auth = "auto" /\ clock = FALSE
  /\ Rest

InSetup(step) == phase = "setup" /\ step /\ UNCHANGED <<phase, inStation>>
InStation(step) == phase = "station" /\ step /\ UNCHANGED <<phase, inSetup>>

\* main() after a restart that finds a network in flash. The bound on the
\* surroundings counts afresh.
Boot ==
  /\ phase = "setup" /\ ~up /\ saved # "none"
  /\ phase' = "station"
  /\ psk' = saved
  /\ faults' = 0
  /\ conn' = [c \in DOMAIN conn |-> Setup!Over]
  /\ UNCHANGED <<radio, up, join, joinKey, dialled, stage, saved, reboot, slot, inside, active,
                 proven, auth, clock, state, attempt, backoff, timer, addrLost, lastError, sntp,
                 warned, late, history>>

Goes == InSetup(Setup!Next) \/ Boot \/ InStation(Next)

\* The loop goes on, of whichever part; deadlines are reached and time passes.
Proceeds ==
  \/ Boot
  \/ InSetup(Setup!Begins) \/ InSetup(Setup!ScanReturns) \/ InSetup(Setup!Tasks)
  \/ InStation(Turns)

\* The fairness of the two parts (Portal, NetJoin), each while it runs; of what
\* is never enabled together there is one condition.
GoesOn ==
  /\ WF_device(Proceeds)
  /\ WF_device(InSetup(Setup!ScanDeadline)) /\ SF_device(InSetup(Setup!IdleDeadline))
  /\ WF_device(InStation(Settles)) /\ WF_device(InStation(Tick))
  /\ SF_device(InStation(TakenIn)) /\ SF_device(InStation(TurnedAway))
  /\ SF_device(InStation(Addressed))

DeviceSpec == FromTheBox /\ [][Goes]_device /\ GoesOn

-------------------------------------------------------------------------------
(* Properties: those of NetJoin (NothingStalls, GraceIsWhole, ErrorsPass) hold *)
(* of a device that was set up by phones, and                                  *)

\* What phones are told fits what they asked (Portal, httpd.c).
AnswersFit == Setup!AnswersFit

\* One scan runs at a time (Portal, scan.c).  The code does not have it.
OneScanAtATime == Setup!OneScanAtATime

\* What is staged and saved has given the device an address (Portal).
NetworkWasProven == Setup!NetworkWasProven

\* Every attempt of the portal comes to a result (Portal).
AttemptsSettle == Setup!AttemptsSettle

\* A phone that is gone does not keep its slot (Portal).
SlotsComeFree == Setup!SlotsComeFree

\* A device that the portal set up comes to the network it was set up for, if
\* that is there: its password has been proven with WPA2 alone, and the join
\* finds that among the handshakes it tries.
SetUpIsJoined == <>[]air => ((phase = "station" /\ state = "failed") ~> state = "joined")

===============================================================================
