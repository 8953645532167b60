----------------------------- MODULE Plug_proofs ------------------------------
(***************************************************************************)
(* The plug driver, for any segment, any number of retries, faults and     *)
(* moves: what it drives, what it answers and what it does about a cut.    *)
(***************************************************************************)
EXTENDS Plug, TLAPS

\* Which operation is in which phase, and which answers may be in hand there.
ShapeInv ==
  /\ sweeping => phase \in {"IDLE", "PROBE"} /\ http = "idle"
  /\ phase = "ACT" => op \in Sets \cup {"status"}
  /\ phase \in {"WAIT", "ACT2"} => op = "cycle"
  /\ phase = "WAIT" => afterWait \in {"ACT2", "VERIFY"}
  /\ phase = "VERIFY" => op \in Sets
  /\ phase = "WIFI" => op = "status"
  /\ phase \in {"FW_INFO", "FW_LATEST", "FW_UPDATE"} => op \in {"fw_check", "fw_update"}
  /\ phase = "IDLE" => http = "idle"
  /\ http = "done" => reply # "none"
  /\ reply = "target" => phase = "PROBE"
  /\ phase \in {"ACT", "ACT2", "VERIFY"} => reply \in {"none", "refused", "on", "off"}

\* Where the plug is known to be.
AimInv ==
  /\ phase \notin {"IDLE", "PROBE"} => ip \in met /\ (moved \/ ip = where)
  /\ reply = "target" => moved \/ ip = where
  /\ http = "done" /\ reply = "target" => ip \in met

\* Who still waits for an outcome.
CallInv ==
  /\ OneOutcome
  /\ cancelled => ~cb
  /\ sweeping /\ phase = "IDLE" => cancelled

\* How far a cycle is.
CutInv ==
  /\ phase = "PROBE" \/ sweeping => cut = "no"
  /\ cut = "acknowledged" /\ phase # "IDLE" =>
       op = "cycle" /\ phase \in {"WAIT", "ACT2", "VERIFY"}
  /\ phase = "ACT2" /\ reply \in {"on", "off"} => restored \/ moved
  /\ op = "cycle" /\ (phase = "VERIFY" \/ (phase = "WAIT" /\ afterWait = "VERIFY"))
       => restored \/ moved

\* What the channel has been, and which answers tell of it.
ObservedInv ==
  /\ power \in since
  /\ /\ phase = "VERIFY" \/ (phase \in {"ACT", "ACT2"} /\ (op = "status" \/ gen = 1))
     /\ reply \in {"on", "off"} /\ ~moved
     => (reply = "on") \in since
  /\ phase = "WIFI" /\ ~moved => st \in since

\* What the verdict on the plug's presence rests on.
VerdictInv ==
  /\ where # Gone => around
  /\ macSeen => around \/ swept = "stale"
  /\ reply = "target" => around
  /\ sweepRan => swept # "no"
  /\ swept = "stale" => macSeen
  /\ sweeping => resolvedOnce /\ swept = "no"
  /\ ~resolvedOnce => swept = "no"
  /\ met # {} /\ phase # "IDLE" => macSeen \/ (reply = "target" /\ http = "done")

\* The type invariant, in the parts that are proved on their own.
TypeNames ==
  /\ op \in Ops /\ phase \in Phases /\ afterWait \in {"PROBE", "ACT2", "VERIFY"}
  /\ http \in {"idle", "active", "failed", "done"} /\ reply \in Replies \cup {"none"}
  /\ cut \in {"no", "made", "acknowledged"} /\ gen \in {1, 2}

TypePlaces ==
  /\ ip \in Addresses /\ where \in Addresses \cup {Gone} /\ learned \in Addresses \cup {Gone}
  /\ arp \subseteq Addresses /\ met \subseteq Addresses

TypeCounters ==
  /\ retries \in 0 .. RetryMax /\ faults \in 0 .. MaxFaults /\ moves \in 0 .. MaxMoves
  /\ heard \in 0 .. 1

TypeFlags ==
  /\ addrConfirmed \in BOOLEAN /\ macSeen \in BOOLEAN
  /\ sweepRan \in BOOLEAN /\ resolvedOnce \in BOOLEAN
  /\ cb \in BOOLEAN /\ st \in BOOLEAN /\ sweeping \in BOOLEAN
  /\ power \in BOOLEAN /\ cancelled \in BOOLEAN /\ restored \in BOOLEAN
  /\ around \in BOOLEAN /\ swept \in {"no", "live", "stale"} /\ moved \in BOOLEAN

TypeRest == outcome \in Outcomes /\ since \subseteq BOOLEAN

LEMMA TypeParts == TypeOK <=> TypeNames /\ TypePlaces /\ TypeCounters /\ TypeFlags /\ TypeRest
BY Zenon DEF TypeOK, TypeNames, TypePlaces, TypeCounters, TypeFlags, TypeRest

IInv ==
  /\ TypeOK
  /\ ShapeInv
  /\ AimInv
  /\ CallInv
  /\ CutInv
  /\ ObservedInv

LEMMA InitInv == Init => IInv
<1> SUFFICES ASSUME Init PROVE IInv
  OBVIOUS
<1>1. TypeNames
  BY DEF Init, TypeNames, Ops, Phases, Replies
<1>2. TypePlaces
  BY DEF Init, TypePlaces
<1>3. TypeCounters
  BY RetryAssumption, BoundsAssumption DEF Init, TypeCounters
<1>4. TypeFlags
  BY DEF Init, TypeFlags
<1>5. TypeRest
  BY DEF Init, TypeRest, Outcomes, NoOutcome
<1>6. ShapeInv /\ AimInv /\ CallInv
  BY DEF Init, ShapeInv, AimInv, CallInv, OneOutcome
<1>7. CutInv /\ ObservedInv
  BY DEF Init, CutInv, ObservedInv
<1>8. QED
  BY <1>1, <1>2, <1>3, <1>4, <1>5, <1>6, <1>7, TypeParts DEF IInv

\* From here on every step is expanded into what it does.
USE DEF Fault, Finish, SendRequest, ExchangeBegins, ScheduleRetry, PastTheCut, RetryOrFinish,
        RunLeg, CallBack, Start, Over, Unreadable, Identifies, ReadsOn, HasState, InTwoAnswers,
        Asking, Drained, Failed, Task, Aside, Standing, NoHistory, Leg,
        Identified, ResolvedFromCache, SweepBegins, SweepFinds, SweepMisses, NotFound,
        ActFails, Confirmed, StatusRead, CutDone, SetDone, WaitDone, WifiDone, FirmwareDone,
        Cancel, Reading, Switches, Ordered, PlugAnswers, PlugRefuses, OtherAnswers,
        Delivered, Lost, Trips, PlugMoves, Learns, ArpExpires,
        driver, request, plug, segment, budget, history

\* Operation, phase and answer in hand stay matched.
LEMMA ShapeStep ==
  ASSUME TypeNames, ShapeInv, [Next]_vars
  PROVE  ShapeInv'
<1> USE DEF TypeNames, Ops, Sets, ShapeInv
<1>1. ASSUME NEW o \in Ops, NEW a \in Addresses, Start(o, a)
     PROVE  ShapeInv'
  BY <1>1, SMTT(60)
<1>2. CASE TaskStep
  <2>1. CASE Identified
    BY <2>1, SMTT(60)
  <2>2. CASE ResolvedFromCache
    BY <2>2, SMTT(60)
  <2>3. CASE SweepBegins
    BY <2>3, SMTT(60)
  <2>4. CASE NotFound
    BY <2>4, SMTT(60)
  <2>5. ASSUME NEW leg \in {"ACT", "ACT2", "VERIFY"}, ActFails(leg)
       PROVE  ShapeInv'
    BY <2>5, SMTT(60)
  <2>6. CASE Confirmed
    BY <2>6, SMTT(60)
  <2>7. CASE StatusRead
    BY <2>7, SMTT(60)
  <2>8. CASE CutDone
    BY <2>8, SMTT(60)
  <2>9. ASSUME NEW leg \in {"ACT", "ACT2"}, SetDone(leg)
       PROVE  ShapeInv'
    BY <2>9, SMTT(60)
  <2>10. CASE WaitDone
    BY <2>10, SMTT(60)
  <2>11. CASE WifiDone
    BY <2>11, SMTT(60)
  <2>12. ASSUME NEW leg \in {"FW_INFO", "FW_LATEST", "FW_UPDATE"}, FirmwareDone(leg)
       PROVE  ShapeInv'
    BY <2>12, SMTT(60)
  <2>13. QED
    BY <1>2, <2>1, <2>2, <2>3, <2>4, <2>5, <2>6, <2>7, <2>8, <2>9, <2>10, <2>11, <2>12 DEF TaskStep
<1>3. CASE SweepEnds
  BY <1>3, SMTT(60) DEF SweepEnds
<1>4. CASE Cancel
  BY <1>4, SMTT(60)
<1>5. CASE Exchange
  <2>1. CASE PlugAnswers
    BY <2>1, SMTT(60)
  <2>2. CASE PlugRefuses
    BY <2>2, SMTT(60)
  <2>3. CASE OtherAnswers
    BY <2>3, SMTT(60)
  <2>4. CASE Delivered
    BY <2>4, SMTT(60)
  <2>5. CASE Lost
    BY <2>5, SMTT(60)
  <2>6. QED
    BY <1>5, <2>1, <2>2, <2>3, <2>4, <2>5 DEF Exchange
<1>6. CASE Surroundings
  <2>1. CASE Trips
    BY <2>1, SMTT(60)
  <2>2. ASSUME NEW a \in Addresses \cup {Gone}, PlugMoves(a)
       PROVE  ShapeInv'
    BY <2>2, SMTT(60)
  <2>3. ASSUME NEW a \in Addresses, Learns(a) \/ ArpExpires(a)
       PROVE  ShapeInv'
    BY <2>3, SMTT(60)
  <2>4. QED
    BY <1>6, <2>1, <2>2, <2>3 DEF Surroundings
<1>7. CASE UNCHANGED vars
  BY <1>7 DEF vars, TypeNames, Ops, Sets, ShapeInv
<1>8. QED
  BY <1>1, <1>2, <1>3, <1>4, <1>5, <1>6, <1>7 DEF Next

\* The names the variables range over.
LEMMA NamesStep ==
  ASSUME TypeNames, ShapeInv, [Next]_vars
  PROVE  TypeNames'
<1> USE DEF TypeNames, Ops, Sets, Phases, Replies, ShapeInv
<1>1. ASSUME NEW o \in Ops, NEW a \in Addresses, Start(o, a)
     PROVE  TypeNames'
  BY <1>1, SMTT(60)
<1>2. CASE TaskStep
  <2>1. CASE Identified
    BY <2>1, SMTT(60)
  <2>2. CASE ResolvedFromCache
    BY <2>2, SMTT(60)
  <2>3. CASE SweepBegins
    BY <2>3, SMTT(60)
  <2>4. CASE NotFound
    BY <2>4, SMTT(60)
  <2>5. ASSUME NEW leg \in {"ACT", "ACT2", "VERIFY"}, ActFails(leg)
       PROVE  TypeNames'
    BY <2>5, SMTT(60)
  <2>6. CASE Confirmed
    BY <2>6, SMTT(60)
  <2>7. CASE StatusRead
    BY <2>7, SMTT(60)
  <2>8. CASE CutDone
    BY <2>8, SMTT(60)
  <2>9. ASSUME NEW leg \in {"ACT", "ACT2"}, SetDone(leg)
       PROVE  TypeNames'
    BY <2>9, SMTT(60)
  <2>10. CASE WaitDone
    BY <2>10, SMTT(60)
  <2>11. CASE WifiDone
    BY <2>11, SMTT(60)
  <2>12. ASSUME NEW leg \in {"FW_INFO", "FW_LATEST", "FW_UPDATE"}, FirmwareDone(leg)
       PROVE  TypeNames'
    BY <2>12, SMTT(60)
  <2>13. QED
    BY <1>2, <2>1, <2>2, <2>3, <2>4, <2>5, <2>6, <2>7, <2>8, <2>9, <2>10, <2>11, <2>12 DEF TaskStep
<1>3. CASE SweepEnds
  <2>1. ASSUME NEW a \in Addresses, SweepFinds(a)
       PROVE  TypeNames'
    BY <2>1, SMTT(60)
  <2>2. CASE SweepMisses
    BY <2>2, SMTT(60)
  <2>3. QED
    BY <1>3, <2>1, <2>2 DEF SweepEnds
<1>4. CASE Cancel
  BY <1>4, SMTT(60)
<1>5. CASE Exchange
  <2>1. CASE PlugAnswers
    BY <2>1, SMTT(60)
  <2>2. CASE PlugRefuses
    BY <2>2, SMTT(60)
  <2>3. CASE OtherAnswers
    BY <2>3, SMTT(60)
  <2>4. CASE Delivered
    BY <2>4, SMTT(60)
  <2>5. CASE Lost
    BY <2>5, SMTT(60)
  <2>6. QED
    BY <1>5, <2>1, <2>2, <2>3, <2>4, <2>5 DEF Exchange
<1>6. CASE Surroundings
  <2>1. CASE Trips
    BY <2>1, SMTT(60)
  <2>2. ASSUME NEW a \in Addresses \cup {Gone}, PlugMoves(a)
       PROVE  TypeNames'
    BY <2>2, SMTT(60)
  <2>3. ASSUME NEW a \in Addresses, Learns(a) \/ ArpExpires(a)
       PROVE  TypeNames'
    BY <2>3, SMTT(60)
  <2>4. QED
    BY <1>6, <2>1, <2>2, <2>3, ZenonT(30) DEF Surroundings
<1>7. CASE UNCHANGED vars
  BY <1>7 DEF vars, TypeNames, Ops, Sets, Phases, Replies, ShapeInv
<1>8. QED
  BY <1>1, <1>2, <1>3, <1>4, <1>5, <1>6, <1>7 DEF Next

\* The addresses.
LEMMA PlacesStep ==
  ASSUME TypePlaces, [Next]_vars
  PROVE  TypePlaces'
<1> USE DEF TypePlaces
<1>1. ASSUME NEW o \in Ops, NEW a \in Addresses, Start(o, a)
     PROVE  TypePlaces'
  BY <1>1, SMTT(60)
<1>2. CASE TaskStep
  <2>1. CASE Identified
    BY <2>1, SMTT(60)
  <2>2. CASE ResolvedFromCache
    BY <2>2, SMTT(60)
  <2>3. CASE SweepBegins
    BY <2>3, SMTT(60)
  <2>4. CASE NotFound
    BY <2>4, SMTT(60)
  <2>5. ASSUME NEW leg \in {"ACT", "ACT2", "VERIFY"}, ActFails(leg)
       PROVE  TypePlaces'
    BY <2>5, SMTT(60)
  <2>6. CASE Confirmed
    BY <2>6, SMTT(60)
  <2>7. CASE StatusRead
    BY <2>7, SMTT(60)
  <2>8. CASE CutDone
    BY <2>8, SMTT(60)
  <2>9. ASSUME NEW leg \in {"ACT", "ACT2"}, SetDone(leg)
       PROVE  TypePlaces'
    BY <2>9, SMTT(60)
  <2>10. CASE WaitDone
    BY <2>10, SMTT(60)
  <2>11. CASE WifiDone
    BY <2>11, SMTT(60)
  <2>12. ASSUME NEW leg \in {"FW_INFO", "FW_LATEST", "FW_UPDATE"}, FirmwareDone(leg)
       PROVE  TypePlaces'
    BY <2>12, SMTT(60)
  <2>13. QED
    BY <1>2, <2>1, <2>2, <2>3, <2>4, <2>5, <2>6, <2>7, <2>8, <2>9, <2>10, <2>11, <2>12 DEF TaskStep
<1>3. CASE SweepEnds
  <2>1. ASSUME NEW a \in Addresses, SweepFinds(a)
       PROVE  TypePlaces'
    BY <2>1, SMTT(60)
  <2>2. CASE SweepMisses
    BY <2>2, SMTT(60)
  <2>3. QED
    BY <1>3, <2>1, <2>2 DEF SweepEnds
<1>4. CASE Cancel
  BY <1>4, SMTT(60)
<1>5. CASE Exchange
  <2>1. CASE PlugAnswers
    BY <2>1, SMTT(60)
  <2>2. CASE PlugRefuses
    BY <2>2, SMTT(60)
  <2>3. CASE OtherAnswers
    BY <2>3, SMTT(60)
  <2>4. CASE Delivered
    BY <2>4, SMTT(60)
  <2>5. CASE Lost
    BY <2>5, SMTT(60)
  <2>6. QED
    BY <1>5, <2>1, <2>2, <2>3, <2>4, <2>5 DEF Exchange
<1>6. CASE Surroundings
  <2>1. CASE Trips
    BY <2>1, SMTT(60)
  <2>2. ASSUME NEW a \in Addresses \cup {Gone}, PlugMoves(a)
       PROVE  TypePlaces'
    BY <2>2, SMTT(60)
  <2>3. ASSUME NEW a \in Addresses, Learns(a) \/ ArpExpires(a)
       PROVE  TypePlaces'
    BY <2>3, SMTT(60)
  <2>4. QED
    BY <1>6, <2>1, <2>2, <2>3 DEF Surroundings
<1>7. CASE UNCHANGED vars
  BY <1>7 DEF vars, TypePlaces
<1>8. QED
  BY <1>1, <1>2, <1>3, <1>4, <1>5, <1>6, <1>7 DEF Next

\* The counters: a retry is only scheduled below PLUG_RETRY_MAX.
LEMMA CountersStep ==
  ASSUME TypeFlags, TypeCounters, CallInv, ShapeInv, [Next]_vars
  PROVE  TypeCounters'
<1> USE DEF TypeCounters, CallInv, ShapeInv, OneOutcome
<1>1. ASSUME NEW o \in Ops, NEW a \in Addresses, Start(o, a)
     PROVE  TypeCounters'
  BY <1>1, RetryAssumption, BoundsAssumption, SMTT(60)
<1>2. CASE TaskStep
  <2>1. CASE Identified
    BY <2>1, RetryAssumption, BoundsAssumption, SMTT(60)
  <2>2. CASE ResolvedFromCache
    BY <2>2, RetryAssumption, BoundsAssumption, SMTT(60)
  <2>3. CASE SweepBegins
    BY <2>3, RetryAssumption, BoundsAssumption, SMTT(60)
  <2>4. CASE NotFound
    BY <2>4, RetryAssumption, BoundsAssumption, SMTT(60)
  <2>5. ASSUME NEW leg \in {"ACT", "ACT2", "VERIFY"}, ActFails(leg)
       PROVE  TypeCounters'
    BY <2>5, RetryAssumption, BoundsAssumption, SMTT(60)
  <2>6. CASE Confirmed
    BY <2>6, RetryAssumption, BoundsAssumption, SMTT(60)
  <2>7. CASE StatusRead
    BY <2>7, RetryAssumption, BoundsAssumption, SMTT(60)
  <2>8. CASE CutDone
    BY <2>8, RetryAssumption, BoundsAssumption, SMTT(60)
  <2>9. ASSUME NEW leg \in {"ACT", "ACT2"}, SetDone(leg)
       PROVE  TypeCounters'
    BY <2>9, RetryAssumption, BoundsAssumption, SMTT(60)
  <2>10. CASE WaitDone
    BY <2>10, RetryAssumption, BoundsAssumption, SMTT(60)
  <2>11. CASE WifiDone
    BY <2>11, RetryAssumption, BoundsAssumption, SMTT(60)
  <2>12. ASSUME NEW leg \in {"FW_INFO", "FW_LATEST", "FW_UPDATE"}, FirmwareDone(leg)
       PROVE  TypeCounters'
    BY <2>12, RetryAssumption, BoundsAssumption, SMTT(60)
  <2>13. QED
    BY <1>2, <2>1, <2>2, <2>3, <2>4, <2>5, <2>6, <2>7, <2>8, <2>9, <2>10, <2>11, <2>12 DEF TaskStep
<1>3. CASE SweepEnds
  <2>1. ASSUME NEW a \in Addresses, SweepFinds(a)
       PROVE  TypeCounters'
    BY <2>1, RetryAssumption, BoundsAssumption, SMTT(60)
  <2>2. CASE SweepMisses
    BY <2>2, RetryAssumption, BoundsAssumption, SMTT(60)
  <2>3. QED
    BY <1>3, <2>1, <2>2 DEF SweepEnds
<1>4. CASE Cancel
  BY <1>4, RetryAssumption, BoundsAssumption, SMTT(60)
<1>5. CASE Exchange
  <2>1. CASE PlugAnswers
    BY <2>1, RetryAssumption, BoundsAssumption, SMTT(60)
  <2>2. CASE PlugRefuses
    BY <2>2, RetryAssumption, BoundsAssumption, SMTT(60)
  <2>3. CASE OtherAnswers
    BY <2>3, RetryAssumption, BoundsAssumption, SMTT(60)
  <2>4. CASE Delivered
    BY <2>4, RetryAssumption, BoundsAssumption, SMTT(60)
  <2>5. CASE Lost
    BY <2>5, RetryAssumption, BoundsAssumption, SMTT(60)
  <2>6. QED
    BY <1>5, <2>1, <2>2, <2>3, <2>4, <2>5 DEF Exchange
<1>6. CASE Surroundings
  <2>1. CASE Trips
    BY <2>1, RetryAssumption, BoundsAssumption, SMTT(60)
  <2>2. ASSUME NEW a \in Addresses \cup {Gone}, PlugMoves(a)
       PROVE  TypeCounters'
    BY <2>2, RetryAssumption, BoundsAssumption, SMTT(60)
  <2>3. ASSUME NEW a \in Addresses, Learns(a) \/ ArpExpires(a)
       PROVE  TypeCounters'
    BY <2>3, RetryAssumption, BoundsAssumption, SMTT(60)
  <2>4. QED
    BY <1>6, <2>1, <2>2, <2>3 DEF Surroundings
<1>7. CASE UNCHANGED vars
  BY <1>7 DEF vars, TypeCounters, CallInv, ShapeInv, OneOutcome
<1>8. QED
  BY <1>1, <1>2, <1>3, <1>4, <1>5, <1>6, <1>7 DEF Next

\* The flags.
LEMMA FlagsStep ==
  ASSUME TypeFlags, [Next]_vars
  PROVE  TypeFlags'
<1>1. ASSUME NEW o \in Ops, NEW a \in Addresses, Start(o, a)
     PROVE  TypeFlags'
  BY <1>1, ZenonT(60) DEF TypeFlags
<1>2. CASE TaskStep
  <2>1. CASE Identified
    BY <2>1, ZenonT(60) DEF TypeFlags
  <2>2. CASE ResolvedFromCache
    BY <2>2, ZenonT(60) DEF TypeFlags
  <2>3. CASE SweepBegins
    BY <2>3, ZenonT(60) DEF TypeFlags
  <2>4. CASE NotFound
    BY <2>4, ZenonT(60) DEF TypeFlags
  <2>5. ASSUME NEW leg \in {"ACT", "ACT2", "VERIFY"}, ActFails(leg)
       PROVE  TypeFlags'
    BY <2>5, ZenonT(60) DEF TypeFlags
  <2>6. CASE Confirmed
    BY <2>6, ZenonT(60) DEF TypeFlags
  <2>7. CASE StatusRead
    BY <2>7, ZenonT(60) DEF TypeFlags
  <2>8. CASE CutDone
    BY <2>8, ZenonT(60) DEF TypeFlags
  <2>9. ASSUME NEW leg \in {"ACT", "ACT2"}, SetDone(leg)
       PROVE  TypeFlags'
    BY <2>9, ZenonT(60) DEF TypeFlags
  <2>10. CASE WaitDone
    BY <2>10, ZenonT(60) DEF TypeFlags
  <2>11. CASE WifiDone
    BY <2>11, ZenonT(60) DEF TypeFlags
  <2>12. ASSUME NEW leg \in {"FW_INFO", "FW_LATEST", "FW_UPDATE"}, FirmwareDone(leg)
       PROVE  TypeFlags'
    BY <2>12, ZenonT(60) DEF TypeFlags
  <2>13. QED
    BY <1>2, <2>1, <2>2, <2>3, <2>4, <2>5, <2>6, <2>7, <2>8, <2>9, <2>10, <2>11, <2>12 DEF TaskStep
<1>3. CASE SweepEnds
  <2>1. ASSUME NEW a \in Addresses, SweepFinds(a)
       PROVE  TypeFlags'
    BY <2>1, ZenonT(60) DEF TypeFlags
  <2>2. CASE SweepMisses
    BY <2>2, ZenonT(60) DEF TypeFlags
  <2>3. QED
    BY <1>3, <2>1, <2>2 DEF SweepEnds
<1>4. CASE Cancel
  BY <1>4, ZenonT(60) DEF TypeFlags
<1>5. CASE Exchange
  <2>1. CASE PlugAnswers
    BY <2>1, ZenonT(60) DEF TypeFlags
  <2>2. CASE PlugRefuses
    BY <2>2, ZenonT(60) DEF TypeFlags
  <2>3. CASE OtherAnswers
    BY <2>3, ZenonT(60) DEF TypeFlags
  <2>4. CASE Delivered
    BY <2>4, ZenonT(60) DEF TypeFlags
  <2>5. CASE Lost
    BY <2>5, ZenonT(60) DEF TypeFlags
  <2>6. QED
    BY <1>5, <2>1, <2>2, <2>3, <2>4, <2>5 DEF Exchange
<1>6. CASE Surroundings
  <2>1. CASE Trips
    BY <2>1, ZenonT(60) DEF TypeFlags
  <2>2. ASSUME NEW a \in Addresses \cup {Gone}, PlugMoves(a)
       PROVE  TypeFlags'
    BY <2>2, ZenonT(60) DEF TypeFlags
  <2>3. ASSUME NEW a \in Addresses, Learns(a)
       PROVE  TypeFlags'
    BY <2>3, ZenonT(60) DEF TypeFlags
  <2>4. ASSUME NEW a \in Addresses, ArpExpires(a)
       PROVE  TypeFlags'
    BY <2>4, ZenonT(60) DEF TypeFlags
  <2>5. QED
    BY <1>6, <2>1, <2>2, <2>3, <2>4, ZenonT(60) DEF Surroundings
<1>7. CASE UNCHANGED vars
  BY <1>7 DEF vars, TypeFlags
<1>8. QED
  BY <1>1, <1>2, <1>3, <1>4, <1>5, <1>6, <1>7 DEF Next

\* What finish() reports is an outcome, whatever led to it.
LEMMA FinishReports ==
  ASSUME NEW ok \in BOOLEAN, NEW err \in {"none", "plug_unreachable", "plug_unsupported"},
         NEW on \in BOOLEAN, Finish(ok, err, on)
  PROVE  outcome' \in Outcomes
<1>1. Presence(err) \in {"unknown", "mute", "absent"}
  BY DEF Presence
<1>2. outcome' = [ok |-> ok, err |-> err, on |-> on, presence |-> Presence(err)]
  OBVIOUS
<1> HIDE DEF Finish, Presence
<1>3. QED
  BY <1>1, <1>2 DEF Outcomes

LEMMA FailureReports ==
  ASSUME NEW err \in {"none", "plug_unreachable", "plug_unsupported"}, Finish(FALSE, err, FALSE)
  PROVE  outcome' \in Outcomes
BY FinishReports

LEMMA SuccessReports ==
  ASSUME st \in BOOLEAN,
         Finish(TRUE, "none", FALSE) \/ Finish(TRUE, "none", reply = "on") \/ Finish(TRUE, "none", st)
  PROVE  outcome' \in Outcomes
<1> HIDE DEF Finish
<1>1. CASE Finish(TRUE, "none", FALSE)
  BY <1>1, FinishReports, Zenon
<1>2. CASE Finish(TRUE, "none", reply = "on")
  <2>1. (reply = "on") \in BOOLEAN
    OBVIOUS
  <2>2. QED
    BY <1>2, <2>1, FinishReports, Zenon
<1>3. CASE Finish(TRUE, "none", st)
  BY <1>3, FinishReports, Zenon
<1>4. QED
  BY <1>1, <1>2, <1>3

\* Neither does a leg's beginning, or its retry, report anything else.
LEMMA RetryReports ==
  ASSUME outcome \in Outcomes, NEW leg, NEW err \in {"plug_unreachable", "plug_unsupported"},
         RetryOrFinish(leg, err)
  PROVE  outcome' \in Outcomes
<1> HIDE DEF Finish, PastTheCut
<1>1. CASE Finish(FALSE, err, FALSE)
  BY <1>1, FailureReports
<1>2. CASE ScheduleRetry(leg)
  BY <1>2
<1> HIDE DEF ScheduleRetry
<1>3. QED
  BY <1>1, <1>2

LEMMA RunLegReports ==
  ASSUME outcome \in Outcomes, NEW leg, RunLeg(leg)
  PROVE  outcome' \in Outcomes
<1> HIDE DEF RetryOrFinish
<1>1. CASE SendRequest(leg)
  BY <1>1
<1> HIDE DEF SendRequest
<1>2. CASE RetryOrFinish(leg, "plug_unreachable")
  BY <1>2, RetryReports
<1>3. QED
  BY <1>1, <1>2

HIDE DEF Finish, RetryOrFinish, RunLeg

\* Only finish(), and a start that fails at once, write the outcome.
LEMMA OutcomeStep ==
  ASSUME st \in BOOLEAN, outcome \in Outcomes, [Next]_vars
  PROVE  outcome' \in Outcomes
<1> USE DEF Why
<1>1. ASSUME NEW o \in Ops, NEW a \in Addresses, Start(o, a)
     PROVE  outcome' \in Outcomes
  <2>1. outcome' = NoOutcome \/ outcome' = [NoOutcome EXCEPT !.err = "plug_unreachable"]
    BY <1>1, Zenon
  <2>2. NoOutcome \in Outcomes /\ [NoOutcome EXCEPT !.err = "plug_unreachable"] \in Outcomes
    BY DEF NoOutcome, Outcomes
  <2>3. QED
    BY <2>1, <2>2, Zenon
<1>2. CASE TaskStep
  <2>1. CASE Identified
    BY <2>1, FailureReports, SuccessReports, RetryReports, RunLegReports, SMTT(20)
  <2>2. CASE ResolvedFromCache
    BY <2>2, FailureReports, SuccessReports, RetryReports, RunLegReports, SMTT(20)
  <2>3. CASE SweepBegins
    BY <2>3, FailureReports, SuccessReports, RetryReports, RunLegReports, SMTT(20)
  <2>4. CASE NotFound
    BY <2>4, FailureReports, ZenonT(30)
  <2>5. ASSUME NEW leg \in {"ACT", "ACT2", "VERIFY"}, ActFails(leg)
       PROVE  outcome' \in Outcomes
    BY <2>5, FailureReports, SuccessReports, RetryReports, RunLegReports, SMTT(20)
  <2>6. CASE Confirmed
    BY <2>6, FailureReports, SuccessReports, RetryReports, RunLegReports, SMTT(20)
  <2>7. CASE StatusRead
    BY <2>7, RunLegReports, SuccessReports, ZenonT(30)
  <2>8. CASE CutDone
    BY <2>8, FailureReports, SuccessReports, RetryReports, RunLegReports, SMTT(20)
  <2>9. ASSUME NEW leg \in {"ACT", "ACT2"}, SetDone(leg)
       PROVE  outcome' \in Outcomes
    BY <2>9, RunLegReports, SuccessReports, ZenonT(30)
  <2>10. CASE WaitDone
    BY <2>10, FailureReports, SuccessReports, RetryReports, RunLegReports, SMTT(20)
  <2>11. CASE WifiDone
    BY <2>11, FailureReports, SuccessReports, RetryReports, RunLegReports, SMTT(20)
  <2>12. ASSUME NEW leg \in {"FW_INFO", "FW_LATEST", "FW_UPDATE"}, FirmwareDone(leg)
       PROVE  outcome' \in Outcomes
    BY <2>12, RunLegReports, SuccessReports, FailureReports, ZenonT(30)
  <2>13. QED
    BY <1>2, <2>1, <2>2, <2>3, <2>4, <2>5, <2>6, <2>7, <2>8, <2>9, <2>10, <2>11, <2>12 DEF TaskStep
<1>3. CASE SweepEnds
  <2>1. ASSUME NEW a \in Addresses, SweepFinds(a)
       PROVE  outcome' \in Outcomes
    BY <2>1, FailureReports, SuccessReports, RetryReports, RunLegReports, SMTT(20)
  <2>2. CASE SweepMisses
    BY <2>2, FailureReports, SuccessReports, RetryReports, RunLegReports, SMTT(20)
  <2>3. QED
    BY <1>3, <2>1, <2>2 DEF SweepEnds
<1>4. CASE Cancel
  BY <1>4, SMTT(20)
<1>5. CASE Exchange
  BY <1>5, SMTT(20) DEF Exchange
<1>6. CASE Surroundings
  BY <1>6, ZenonT(30) DEF Surroundings
<1>7. CASE UNCHANGED vars
  BY <1>7 DEF vars, Why
<1>8. QED
  BY <1>1, <1>2, <1>3, <1>4, <1>5, <1>6, <1>7 DEF Next

USE DEF Finish, RetryOrFinish, RunLeg

\* What the channel has been.
LEMMA SinceStep ==
  ASSUME power \in BOOLEAN, since \subseteq BOOLEAN, [Next]_vars
  PROVE  (since \subseteq BOOLEAN)'
<1>1. ASSUME NEW o \in Ops, NEW a \in Addresses, Start(o, a)
     PROVE  (since \subseteq BOOLEAN)'
  BY <1>1, SMTT(20)
<1>2. CASE TaskStep
  BY <1>2, SMTT(20) DEF TaskStep
<1>3. CASE SweepEnds
  BY <1>3, SMTT(20) DEF SweepEnds
<1>4. CASE Cancel
  BY <1>4, SMTT(20)
<1>5. CASE Exchange
  <2>1. CASE PlugAnswers
    BY <2>1, ZenonT(30)
  <2>2. CASE PlugRefuses
    BY <2>2, SMTT(20)
  <2>3. CASE OtherAnswers
    BY <2>3, SMTT(20)
  <2>4. CASE Delivered
    BY <2>4, SMTT(20)
  <2>5. CASE Lost
    BY <2>5, SMTT(20)
  <2>6. QED
    BY <1>5, <2>1, <2>2, <2>3, <2>4, <2>5 DEF Exchange
<1>6. CASE Surroundings
  <2>1. CASE Trips
    BY <2>1, ZenonT(30)
  <2>2. ASSUME NEW a \in Addresses \cup {Gone}, PlugMoves(a)
       PROVE  (since \subseteq BOOLEAN)'
    BY <2>2, SMTT(20)
  <2>3. ASSUME NEW a \in Addresses, Learns(a) \/ ArpExpires(a)
       PROVE  (since \subseteq BOOLEAN)'
    BY <2>3, SMTT(20)
  <2>4. QED
    BY <1>6, <2>1, <2>2, <2>3 DEF Surroundings
<1>7. CASE UNCHANGED vars
  BY <1>7 DEF vars
<1>8. QED
  BY <1>1, <1>2, <1>3, <1>4, <1>5, <1>6, <1>7 DEF Next

\* Past PROBE the address in use is one where the plug has identified itself.
LEMMA AimStep ==
  ASSUME TypeNames, ShapeInv, AimInv, [Next]_vars
  PROVE  AimInv'
<1> USE DEF TypeNames, Ops, Sets, ShapeInv, AimInv
<1>1. ASSUME NEW o \in Ops, NEW a \in Addresses, Start(o, a)
     PROVE  AimInv'
  BY <1>1, SMTT(60)
<1>2. CASE TaskStep
  <2>1. CASE Identified
    BY <2>1, SMTT(60)
  <2>2. CASE ResolvedFromCache
    BY <2>2, SMTT(60)
  <2>3. CASE SweepBegins
    BY <2>3, SMTT(60)
  <2>4. CASE NotFound
    BY <2>4, SMTT(60)
  <2>5. ASSUME NEW leg \in {"ACT", "ACT2", "VERIFY"}, ActFails(leg)
       PROVE  AimInv'
    BY <2>5, SMTT(60)
  <2>6. CASE Confirmed
    BY <2>6, SMTT(60)
  <2>7. CASE StatusRead
    BY <2>7, SMTT(60)
  <2>8. CASE CutDone
    BY <2>8, SMTT(60)
  <2>9. ASSUME NEW leg \in {"ACT", "ACT2"}, SetDone(leg)
       PROVE  AimInv'
    BY <2>9, SMTT(60)
  <2>10. CASE WaitDone
    BY <2>10, SMTT(60)
  <2>11. CASE WifiDone
    BY <2>11, SMTT(60)
  <2>12. ASSUME NEW leg \in {"FW_INFO", "FW_LATEST", "FW_UPDATE"}, FirmwareDone(leg)
       PROVE  AimInv'
    BY <2>12, SMTT(60)
  <2>13. QED
    BY <1>2, <2>1, <2>2, <2>3, <2>4, <2>5, <2>6, <2>7, <2>8, <2>9, <2>10, <2>11, <2>12 DEF TaskStep
<1>3. CASE SweepEnds
  <2>1. ASSUME NEW a \in Addresses, SweepFinds(a)
       PROVE  AimInv'
    BY <2>1, SMTT(60)
  <2>2. CASE SweepMisses
    BY <2>2, SMTT(60)
  <2>3. QED
    BY <1>3, <2>1, <2>2 DEF SweepEnds
<1>4. CASE Cancel
  BY <1>4, SMTT(60)
<1>5. CASE Exchange
  <2>1. CASE PlugAnswers
    BY <2>1, SMTT(60)
  <2>2. CASE PlugRefuses
    BY <2>2, SMTT(60)
  <2>3. CASE OtherAnswers
    BY <2>3, SMTT(60)
  <2>4. CASE Delivered
    BY <2>4, SMTT(60)
  <2>5. CASE Lost
    BY <2>5, SMTT(60)
  <2>6. QED
    BY <1>5, <2>1, <2>2, <2>3, <2>4, <2>5 DEF Exchange
<1>6. CASE Surroundings
  <2>1. CASE Trips
    BY <2>1, SMTT(60)
  <2>2. ASSUME NEW a \in Addresses \cup {Gone}, PlugMoves(a)
       PROVE  AimInv'
    BY <2>2, SMTT(60)
  <2>3. ASSUME NEW a \in Addresses, Learns(a) \/ ArpExpires(a)
       PROVE  AimInv'
    BY <2>3, SMTT(60)
  <2>4. QED
    BY <1>6, <2>1, <2>2, <2>3 DEF Surroundings
<1>7. CASE UNCHANGED vars
  BY <1>7 DEF vars, TypeNames, Ops, Sets, ShapeInv, AimInv
<1>8. QED
  BY <1>1, <1>2, <1>3, <1>4, <1>5, <1>6, <1>7 DEF Next

\* The caller is owed a call until it gets it or cancels.
LEMMA CallStep ==
  ASSUME TypeFlags, ShapeInv, CallInv, [Next]_vars
  PROVE  CallInv'
<1> USE DEF TypeFlags, ShapeInv, CallInv, OneOutcome
<1>1. ASSUME NEW o \in Ops, NEW a \in Addresses, Start(o, a)
     PROVE  CallInv'
  BY <1>1, SMTT(60)
<1>2. CASE TaskStep
  <2>1. CASE Identified
    BY <2>1, SMTT(60)
  <2>2. CASE ResolvedFromCache
    BY <2>2, SMTT(60)
  <2>3. CASE SweepBegins
    BY <2>3, SMTT(60)
  <2>4. CASE NotFound
    BY <2>4, SMTT(60)
  <2>5. ASSUME NEW leg \in {"ACT", "ACT2", "VERIFY"}, ActFails(leg)
       PROVE  CallInv'
    BY <2>5, SMTT(60)
  <2>6. CASE Confirmed
    BY <2>6, SMTT(60)
  <2>7. CASE StatusRead
    BY <2>7, SMTT(60)
  <2>8. CASE CutDone
    BY <2>8, SMTT(60)
  <2>9. ASSUME NEW leg \in {"ACT", "ACT2"}, SetDone(leg)
       PROVE  CallInv'
    BY <2>9, SMTT(60)
  <2>10. CASE WaitDone
    BY <2>10, SMTT(60)
  <2>11. CASE WifiDone
    BY <2>11, SMTT(60)
  <2>12. ASSUME NEW leg \in {"FW_INFO", "FW_LATEST", "FW_UPDATE"}, FirmwareDone(leg)
       PROVE  CallInv'
    BY <2>12, SMTT(60)
  <2>13. QED
    BY <1>2, <2>1, <2>2, <2>3, <2>4, <2>5, <2>6, <2>7, <2>8, <2>9, <2>10, <2>11, <2>12 DEF TaskStep
<1>3. CASE SweepEnds
  <2>1. ASSUME NEW a \in Addresses, SweepFinds(a)
       PROVE  CallInv'
    BY <2>1, SMTT(60)
  <2>2. CASE SweepMisses
    BY <2>2, SMTT(60)
  <2>3. QED
    BY <1>3, <2>1, <2>2 DEF SweepEnds
<1>4. CASE Cancel
  BY <1>4, SMTT(60)
<1>5. CASE Exchange
  <2>1. CASE PlugAnswers
    BY <2>1, SMTT(60)
  <2>2. CASE PlugRefuses
    BY <2>2, SMTT(60)
  <2>3. CASE OtherAnswers
    BY <2>3, SMTT(60)
  <2>4. CASE Delivered
    BY <2>4, SMTT(60)
  <2>5. CASE Lost
    BY <2>5, SMTT(60)
  <2>6. QED
    BY <1>5, <2>1, <2>2, <2>3, <2>4, <2>5 DEF Exchange
<1>6. CASE Surroundings
  <2>1. CASE Trips
    BY <2>1, SMTT(60)
  <2>2. ASSUME NEW a \in Addresses \cup {Gone}, PlugMoves(a)
       PROVE  CallInv'
    BY <2>2, SMTT(60)
  <2>3. ASSUME NEW a \in Addresses, Learns(a) \/ ArpExpires(a)
       PROVE  CallInv'
    BY <2>3, SMTT(60)
  <2>4. QED
    BY <1>6, <2>1, <2>2, <2>3 DEF Surroundings
<1>7. CASE UNCHANGED vars
  BY <1>7 DEF vars, TypeFlags, ShapeInv, CallInv, OneOutcome
<1>8. QED
  BY <1>1, <1>2, <1>3, <1>4, <1>5, <1>6, <1>7 DEF Next

\* What is past the cut stays a cycle, and is not done before the on is carried out.
LEMMA CutStep ==
  ASSUME TypeNames, TypeFlags, ShapeInv, AimInv, CutInv, [Next]_vars
  PROVE  CutInv'
<1> USE DEF TypeNames, TypeFlags, Ops, Sets, ShapeInv, AimInv, CutInv
<1>1. ASSUME NEW o \in Ops, NEW a \in Addresses, Start(o, a)
     PROVE  CutInv'
  BY <1>1, SMTT(60)
<1>2. CASE TaskStep
  <2>1. CASE Identified
    BY <2>1, SMTT(60)
  <2>2. CASE ResolvedFromCache
    BY <2>2, SMTT(60)
  <2>3. CASE SweepBegins
    BY <2>3, SMTT(60)
  <2>4. CASE NotFound
    BY <2>4, SMTT(60)
  <2>5. ASSUME NEW leg \in {"ACT", "ACT2", "VERIFY"}, ActFails(leg)
       PROVE  CutInv'
    BY <2>5, SMTT(60)
  <2>6. CASE Confirmed
    BY <2>6, SMTT(60)
  <2>7. CASE StatusRead
    BY <2>7, SMTT(60)
  <2>8. CASE CutDone
    BY <2>8, SMTT(60)
  <2>9. ASSUME NEW leg \in {"ACT", "ACT2"}, SetDone(leg)
       PROVE  CutInv'
    BY <2>9, SMTT(60)
  <2>10. CASE WaitDone
    BY <2>10, SMTT(60)
  <2>11. CASE WifiDone
    BY <2>11, SMTT(60)
  <2>12. ASSUME NEW leg \in {"FW_INFO", "FW_LATEST", "FW_UPDATE"}, FirmwareDone(leg)
       PROVE  CutInv'
    BY <2>12, SMTT(60)
  <2>13. QED
    BY <1>2, <2>1, <2>2, <2>3, <2>4, <2>5, <2>6, <2>7, <2>8, <2>9, <2>10, <2>11, <2>12 DEF TaskStep
<1>3. CASE SweepEnds
  <2>1. ASSUME NEW a \in Addresses, SweepFinds(a)
       PROVE  CutInv'
    BY <2>1, SMTT(60)
  <2>2. CASE SweepMisses
    BY <2>2, SMTT(60)
  <2>3. QED
    BY <1>3, <2>1, <2>2 DEF SweepEnds
<1>4. CASE Cancel
  BY <1>4, SMTT(60)
<1>5. CASE Exchange
  <2>1. CASE PlugAnswers
    <3>1. phase' = phase /\ op' = op /\ sweeping' = sweeping /\ afterWait' = afterWait /\ moved' = moved /\ http = "active"
      BY <2>1
    <3>2. restored' <=> restored \/ phase = "ACT2"
      BY <2>1, Zenon
    <3>3. cut' = cut \/ (op = "cycle" /\ phase = "ACT" /\ cut' = "made")
      BY <2>1
    <3>4. QED
      BY <3>1, <3>2, <3>3
  <2>2. CASE PlugRefuses
    BY <2>2, SMTT(60)
  <2>3. CASE OtherAnswers
    BY <2>3, SMTT(60)
  <2>4. CASE Delivered
    BY <2>4, SMTT(60)
  <2>5. CASE Lost
    BY <2>5, SMTT(60)
  <2>6. QED
    BY <1>5, <2>1, <2>2, <2>3, <2>4, <2>5 DEF Exchange
<1>6. CASE Surroundings
  <2>1. CASE Trips
    BY <2>1, SMTT(60)
  <2>2. ASSUME NEW a \in Addresses \cup {Gone}, PlugMoves(a)
       PROVE  CutInv'
    BY <2>2, SMTT(60)
  <2>3. ASSUME NEW a \in Addresses, Learns(a) \/ ArpExpires(a)
       PROVE  CutInv'
    BY <2>3, SMTT(60)
  <2>4. QED
    BY <1>6, <2>1, <2>2, <2>3 DEF Surroundings
<1>7. CASE UNCHANGED vars
  BY <1>7 DEF vars, TypeNames, TypeFlags, Ops, Sets, ShapeInv, AimInv, CutInv
<1>8. QED
  BY <1>1, <1>2, <1>3, <1>4, <1>5, <1>6, <1>7 DEF Next

\* An answer that ends an operation tells of a state the channel has had since.
LEMMA ObservedStep ==
  ASSUME TypeNames, TypeFlags, ShapeInv, AimInv, CutInv, ObservedInv, [Next]_vars
  PROVE  ObservedInv'
<1> USE DEF TypeNames, TypeFlags, Ops, Sets, ShapeInv, AimInv, ObservedInv
<1>1. ASSUME NEW o \in Ops, NEW a \in Addresses, Start(o, a)
     PROVE  ObservedInv'
  BY <1>1, SMTT(60)
<1>2. CASE TaskStep
  <2>1. CASE Identified
    BY <2>1, SMTT(60)
  <2>2. CASE ResolvedFromCache
    BY <2>2, SMTT(60)
  <2>3. CASE SweepBegins
    BY <2>3, SMTT(60)
  <2>4. CASE NotFound
    BY <2>4, SMTT(60)
  <2>5. ASSUME NEW leg \in {"ACT", "ACT2", "VERIFY"}, ActFails(leg)
       PROVE  ObservedInv'
    BY <2>5, SMTT(60)
  <2>6. CASE Confirmed
    BY <2>6, SMTT(60)
  <2>7. CASE StatusRead
    BY <2>7, SMTT(60)
  <2>8. CASE CutDone
    BY <2>8, SMTT(60)
  <2>9. ASSUME NEW leg \in {"ACT", "ACT2"}, SetDone(leg)
       PROVE  ObservedInv'
    BY <2>9, SMTT(60)
  <2>10. CASE WaitDone
    BY <2>10, SMTT(60)
  <2>11. CASE WifiDone
    BY <2>11, SMTT(60)
  <2>12. ASSUME NEW leg \in {"FW_INFO", "FW_LATEST", "FW_UPDATE"}, FirmwareDone(leg)
       PROVE  ObservedInv'
    BY <2>12, SMTT(60)
  <2>13. QED
    BY <1>2, <2>1, <2>2, <2>3, <2>4, <2>5, <2>6, <2>7, <2>8, <2>9, <2>10, <2>11, <2>12 DEF TaskStep
<1>3. CASE SweepEnds
  <2>1. ASSUME NEW a \in Addresses, SweepFinds(a)
       PROVE  ObservedInv'
    BY <2>1, SMTT(60)
  <2>2. CASE SweepMisses
    BY <2>2, SMTT(60)
  <2>3. QED
    BY <1>3, <2>1, <2>2 DEF SweepEnds
<1>4. CASE Cancel
  BY <1>4, SMTT(60)
<1>5. CASE Exchange
  <2>1. CASE PlugAnswers
    <3>1. phase' = phase /\ op' = op /\ gen' = gen /\ moved' = moved /\ st' = st /\ reply = "none"
      BY <2>1
    <3>2. power' \in since' /\ (phase = "VERIFY" => power' = power) /\ (op = "status" => power' = power)
      BY <2>1, Zenon
    <3>3. power \in since /\ (since' = since \/ phase \in {"ACT", "ACT2"})
      BY <2>1
    <3>4. phase \in {"ACT", "ACT2", "VERIFY"} => reply' = Reading(IF gen = 1 THEN power' ELSE power)
      BY <2>1
    <3>5. phase = "VERIFY" \/ (phase \in {"ACT", "ACT2"} /\ (op = "status" \/ gen = 1)) => reply' = Reading(power')
      <4>1. CASE gen = 1
        BY <4>1, <3>4
      <4>2. CASE gen # 1
        BY <4>2, <3>2, <3>4
      <4>3. QED
        BY <4>1, <4>2
    <3>6. \A b \in BOOLEAN : (Reading(b) = "on") = b
      OBVIOUS
    <3>7. phase = "WIFI" => since' = since
      BY <2>1
    <3>8. power' \in BOOLEAN
      BY <2>1, Zenon
    <3> HIDE DEF Reading
    <3>9. phase = "VERIFY" \/ (phase \in {"ACT", "ACT2"} /\ (op = "status" \/ gen = 1))
            => (reply' = "on") \in since'
      BY <3>2, <3>5, <3>6, <3>8, Zenon
    <3>10. QED
      BY <3>1, <3>2, <3>3, <3>7, <3>9, Zenon
  <2>2. CASE PlugRefuses
    BY <2>2, SMTT(60)
  <2>3. CASE OtherAnswers
    BY <2>3, SMTT(60)
  <2>4. CASE Delivered
    BY <2>4, SMTT(60)
  <2>5. CASE Lost
    BY <2>5, SMTT(60)
  <2>6. QED
    BY <1>5, <2>1, <2>2, <2>3, <2>4, <2>5 DEF Exchange
<1>6. CASE Surroundings
  <2>1. CASE Trips
    BY <2>1, ZenonT(30)
  <2>2. ASSUME NEW a \in Addresses \cup {Gone}, PlugMoves(a)
       PROVE  ObservedInv'
    BY <2>2, SMTT(60)
  <2>3. ASSUME NEW a \in Addresses, Learns(a) \/ ArpExpires(a)
       PROVE  ObservedInv'
    BY <2>3, SMTT(60)
  <2>4. QED
    BY <1>6, <2>1, <2>2, <2>3 DEF Surroundings
<1>7. CASE UNCHANGED vars
  BY <1>7 DEF vars, TypeNames, TypeFlags, Ops, Sets, ShapeInv, AimInv, ObservedInv
<1>8. QED
  BY <1>1, <1>2, <1>3, <1>4, <1>5, <1>6, <1>7 DEF Next

\* macSeen is earned.
LEMMA VerdictStep ==
  ASSUME TypeNames, TypePlaces, TypeFlags, ShapeInv, AimInv, VerdictInv, [Next]_vars
  PROVE  VerdictInv'
<1> USE DEF TypeNames, TypePlaces, TypeFlags, ShapeInv, VerdictInv
<1>1. ASSUME NEW o \in Ops, NEW a \in Addresses, Start(o, a)
     PROVE  VerdictInv'
  BY <1>1, AddressAssumption, SMTT(60)
<1>2. CASE TaskStep
  <2>1. CASE Identified
    BY <2>1, AddressAssumption, SMTT(60)
  <2>2. CASE ResolvedFromCache
    BY <2>2, AddressAssumption, SMTT(60)
  <2>3. CASE SweepBegins
    BY <2>3, AddressAssumption, SMTT(60)
  <2>4. CASE NotFound
    BY <2>4, AddressAssumption, SMTT(60)
  <2>5. ASSUME NEW leg \in {"ACT", "ACT2", "VERIFY"}, ActFails(leg)
       PROVE  VerdictInv'
    BY <2>5, AddressAssumption, SMTT(60)
  <2>6. CASE Confirmed
    BY <2>6, AddressAssumption, SMTT(60)
  <2>7. CASE StatusRead
    BY <2>7, AddressAssumption, SMTT(60)
  <2>8. CASE CutDone
    BY <2>8, AddressAssumption, SMTT(60)
  <2>9. ASSUME NEW leg \in {"ACT", "ACT2"}, SetDone(leg)
       PROVE  VerdictInv'
    BY <2>9, AddressAssumption, SMTT(60)
  <2>10. CASE WaitDone
    BY <2>10, AddressAssumption, SMTT(60)
  <2>11. CASE WifiDone
    BY <2>11, AddressAssumption, SMTT(60)
  <2>12. ASSUME NEW leg \in {"FW_INFO", "FW_LATEST", "FW_UPDATE"}, FirmwareDone(leg)
       PROVE  VerdictInv'
    BY <2>12, AddressAssumption, SMTT(60)
  <2>13. QED
    BY <1>2, <2>1, <2>2, <2>3, <2>4, <2>5, <2>6, <2>7, <2>8, <2>9, <2>10, <2>11, <2>12 DEF TaskStep
<1>3. CASE SweepEnds
  <2>1. ASSUME NEW a \in Addresses, SweepFinds(a)
       PROVE  VerdictInv'
    BY <2>1, AddressAssumption, SMTT(60)
  <2>2. CASE SweepMisses
    BY <2>2, AddressAssumption, SMTT(60)
  <2>3. QED
    BY <1>3, <2>1, <2>2 DEF SweepEnds
<1>4. CASE Cancel
  BY <1>4, AddressAssumption, SMTT(60)
<1>5. CASE Exchange
  <2>1. CASE PlugAnswers
    BY <2>1, AddressAssumption, SMTT(60)
  <2>2. CASE PlugRefuses
    BY <2>2, AddressAssumption, SMTT(60)
  <2>3. CASE OtherAnswers
    BY <2>3, AddressAssumption, SMTT(60)
  <2>4. CASE Delivered
    BY <2>4, AddressAssumption, SMTT(60)
  <2>5. CASE Lost
    BY <2>5, AddressAssumption, SMTT(60)
  <2>6. QED
    BY <1>5, <2>1, <2>2, <2>3, <2>4, <2>5 DEF Exchange
<1>6. CASE Surroundings
  <2>1. CASE Trips
    BY <2>1, AddressAssumption, SMTT(60)
  <2>2. ASSUME NEW a \in Addresses \cup {Gone}, PlugMoves(a)
       PROVE  VerdictInv'
    <3>1. where' = a /\ macSeen' = macSeen /\ reply' = reply
           /\ sweeping' = sweeping /\ resolvedOnce' = resolvedOnce /\ sweepRan' = sweepRan
           /\ swept' = swept /\ met' = met /\ phase' = phase /\ http' = http
      BY <2>2
    <3>2. around' <=> around \/ a # Gone
      BY <2>2, Zenon
    <3>3. QED
      BY <3>1, <3>2
  <2>3. ASSUME NEW a \in Addresses, Learns(a) \/ ArpExpires(a)
       PROVE  VerdictInv'
    BY <2>3, AddressAssumption, SMTT(60)
  <2>4. QED
    BY <1>6, <2>1, <2>2, <2>3 DEF Surroundings
<1>7. CASE UNCHANGED vars
  BY <1>7 DEF vars, TypeNames, TypePlaces, TypeFlags, ShapeInv, VerdictInv
<1>8. QED
  BY <1>1, <1>2, <1>3, <1>4, <1>5, <1>6, <1>7 DEF Next

\* The inductive step.
LEMMA IInvStep == IInv /\ [Next]_vars => IInv'
<1> SUFFICES ASSUME IInv, [Next]_vars PROVE IInv'
  OBVIOUS
<1>1. TypeNames /\ TypePlaces /\ TypeCounters /\ TypeFlags /\ TypeRest
  BY TypeParts DEF IInv
<1>2. ShapeInv /\ AimInv /\ CallInv /\ CutInv /\ ObservedInv
  BY DEF IInv
<1>3. TypeNames'
  BY <1>1, <1>2, NamesStep
<1>4. TypePlaces'
  BY <1>1, PlacesStep
<1>5. TypeCounters'
  BY <1>1, <1>2, CountersStep
<1>6. TypeFlags'
  BY <1>1, FlagsStep
<1>7. TypeRest'
  BY <1>1, OutcomeStep, SinceStep DEF TypeRest, TypeFlags
<1>8. ShapeInv'
  BY <1>1, <1>2, ShapeStep
<1>9. AimInv' /\ CallInv' /\ CutInv' /\ ObservedInv'
  BY <1>1, <1>2, AimStep, CallStep, CutStep, ObservedStep
<1>10. TypeOK'
  BY <1>3, <1>4, <1>5, <1>6, <1>7, TypeParts, PTL
<1>11. QED
  BY <1>8, <1>9, <1>10 DEF IInv

\* The invariants hold whatever the segment and the bounds.
THEOREM Invariance == Spec => []IInv
BY InitInv, IInvStep, PTL DEF Spec

\* Every variable of the driver keeps its type; s.retries stays within
\* PLUG_RETRY_MAX and the caller is called at most once.
THEOREM TypeCorrect == Spec => []TypeOK
<1>1. IInv => TypeOK
  BY DEF IInv
<1>2. QED
  BY <1>1, Invariance, PTL

\* No set, read or firmware call of this driver goes to an address at which the
\* plug of the wanted MAC has not identified itself in the same operation.
THEOREM OnlyTheNamedIsDriven == Spec => []DrivesOnlyTheNamed
<1>1. IInv => DrivesOnlyTheNamed
  BY DEF IInv, AimInv, DrivesOnlyTheNamed
<1>2. QED
  BY <1>1, Invariance, PTL

\* Whoever started an operation is called back exactly once when it ends, and
\* never after rw_plug_cancel().
THEOREM EachHasOneOutcome == Spec => []OneOutcome
<1>1. IInv => OneOutcome
  BY DEF IInv, CallInv
<1>2. QED
  BY <1>1, Invariance, PTL

\* The only ways out of a cycle past its cut.
LEMMA CutStepEnds ==
  ASSUME TypeNames, TypeCounters, ShapeInv, CutInv, [Next]_vars, Ends, cut = "acknowledged"
  PROVE  restored' \/ retries = RetryMax \/ moved
<1> USE DEF TypeNames, TypeCounters, Ops, Sets, ShapeInv, CutInv, Ends
<1>1. ASSUME NEW o \in Ops, NEW a \in Addresses, Start(o, a)
     PROVE  restored' \/ retries = RetryMax \/ moved
  BY <1>1, RetryAssumption, SMTT(60)
<1>2. CASE TaskStep
  <2>1. CASE Identified
    BY <2>1, RetryAssumption, SMTT(60)
  <2>2. CASE ResolvedFromCache
    BY <2>2, RetryAssumption, SMTT(60)
  <2>3. CASE SweepBegins
    BY <2>3, RetryAssumption, SMTT(60)
  <2>4. CASE NotFound
    BY <2>4, RetryAssumption, SMTT(60)
  <2>5. ASSUME NEW leg \in {"ACT", "ACT2", "VERIFY"}, ActFails(leg)
       PROVE  restored' \/ retries = RetryMax \/ moved
    BY <2>5, RetryAssumption, SMTT(60)
  <2>6. CASE Confirmed
    BY <2>6, RetryAssumption, SMTT(60)
  <2>7. CASE StatusRead
    BY <2>7, RetryAssumption, SMTT(60)
  <2>8. CASE CutDone
    BY <2>8, RetryAssumption, SMTT(60)
  <2>9. ASSUME NEW leg \in {"ACT", "ACT2"}, SetDone(leg)
       PROVE  restored' \/ retries = RetryMax \/ moved
    BY <2>9, RetryAssumption, SMTT(60)
  <2>10. CASE WaitDone
    BY <2>10, RetryAssumption, SMTT(60)
  <2>11. CASE WifiDone
    BY <2>11, RetryAssumption, SMTT(60)
  <2>12. ASSUME NEW leg \in {"FW_INFO", "FW_LATEST", "FW_UPDATE"}, FirmwareDone(leg)
       PROVE  restored' \/ retries = RetryMax \/ moved
    BY <2>12, RetryAssumption, SMTT(60)
  <2>13. QED
    BY <1>2, <2>1, <2>2, <2>3, <2>4, <2>5, <2>6, <2>7, <2>8, <2>9, <2>10, <2>11, <2>12 DEF TaskStep
<1>3. CASE SweepEnds
  <2>1. ASSUME NEW a \in Addresses, SweepFinds(a)
       PROVE  restored' \/ retries = RetryMax \/ moved
    BY <2>1, RetryAssumption, SMTT(60)
  <2>2. CASE SweepMisses
    BY <2>2, RetryAssumption, SMTT(60)
  <2>3. QED
    BY <1>3, <2>1, <2>2 DEF SweepEnds
<1>4. CASE Cancel
  BY <1>4, RetryAssumption, SMTT(60)
<1>5. CASE Exchange
  BY <1>5, RetryAssumption, SMTT(60) DEF Exchange
<1>6. CASE Surroundings
  <2>1. CASE Trips
    BY <2>1, RetryAssumption, SMTT(60)
  <2>2. ASSUME NEW a \in Addresses \cup {Gone}, PlugMoves(a)
       PROVE  restored' \/ retries = RetryMax \/ moved
    BY <2>2, RetryAssumption, SMTT(60)
  <2>3. ASSUME NEW a \in Addresses, Learns(a) \/ ArpExpires(a)
       PROVE  restored' \/ retries = RetryMax \/ moved
    BY <2>3, RetryAssumption, SMTT(60)
  <2>4. QED
    BY <1>6, <2>1, <2>2, <2>3 DEF Surroundings
<1>7. CASE UNCHANGED vars
  BY <1>7 DEF vars, TypeNames, TypeCounters, Ops, Sets, ShapeInv, CutInv, Ends
<1>8. QED
  BY <1>1, <1>2, <1>3, <1>4, <1>5, <1>6, <1>7 DEF Next

\* A cycle whose off the plug acknowledged ends with its on carried out, unless
\* every retry failed or the plug moved away meanwhile.
THEOREM TheCutIsRestored == Spec => CutIsRestored
<1>1. IInv /\ [Next]_vars => [Ends /\ cut = "acknowledged" => restored' \/ retries = RetryMax \/ moved]_vars
  BY TypeParts, CutStepEnds DEF IInv
<1>2. QED
  BY <1>1, Invariance, PTL DEF Spec, CutIsRestored

\* The only ways to a success.
LEMMA ObservedStepEnds ==
  ASSUME TypeNames, TypeFlags, ShapeInv, ObservedInv, [Next]_vars, Ends, outcome'.ok, ~cancelled', op \in Sets \cup {"status"}, ~moved
  PROVE  outcome'.on \in since
<1> USE DEF TypeNames, TypeFlags, Ops, Sets, ShapeInv, ObservedInv, Ends
<1>1. ASSUME NEW o \in Ops, NEW a \in Addresses, Start(o, a)
     PROVE  outcome'.on \in since
  BY <1>1, SMTT(60)
<1>2. CASE TaskStep
  <2>1. CASE Identified
    BY <2>1, SMTT(60)
  <2>2. CASE ResolvedFromCache
    BY <2>2, SMTT(60)
  <2>3. CASE SweepBegins
    BY <2>3, SMTT(60)
  <2>4. CASE NotFound
    BY <2>4, SMTT(60)
  <2>5. ASSUME NEW leg \in {"ACT", "ACT2", "VERIFY"}, ActFails(leg)
       PROVE  outcome'.on \in since
    BY <2>5, SMTT(60)
  <2>6. CASE Confirmed
    BY <2>6, SMTT(60)
  <2>7. CASE StatusRead
    BY <2>7, SMTT(60)
  <2>8. CASE CutDone
    BY <2>8, SMTT(60)
  <2>9. ASSUME NEW leg \in {"ACT", "ACT2"}, SetDone(leg)
       PROVE  outcome'.on \in since
    BY <2>9, SMTT(60)
  <2>10. CASE WaitDone
    BY <2>10, SMTT(60)
  <2>11. CASE WifiDone
    BY <2>11, SMTT(60)
  <2>12. ASSUME NEW leg \in {"FW_INFO", "FW_LATEST", "FW_UPDATE"}, FirmwareDone(leg)
       PROVE  outcome'.on \in since
    BY <2>12, SMTT(60)
  <2>13. QED
    BY <1>2, <2>1, <2>2, <2>3, <2>4, <2>5, <2>6, <2>7, <2>8, <2>9, <2>10, <2>11, <2>12 DEF TaskStep
<1>3. CASE SweepEnds
  <2>1. ASSUME NEW a \in Addresses, SweepFinds(a)
       PROVE  outcome'.on \in since
    BY <2>1, SMTT(60)
  <2>2. CASE SweepMisses
    BY <2>2, SMTT(60)
  <2>3. QED
    BY <1>3, <2>1, <2>2 DEF SweepEnds
<1>4. CASE Cancel
  BY <1>4, SMTT(60)
<1>5. CASE Exchange
  BY <1>5, SMTT(60) DEF Exchange
<1>6. CASE Surroundings
  <2>1. CASE Trips
    BY <2>1, SMTT(60)
  <2>2. ASSUME NEW a \in Addresses \cup {Gone}, PlugMoves(a)
       PROVE  outcome'.on \in since
    BY <2>2, SMTT(60)
  <2>3. ASSUME NEW a \in Addresses, Learns(a) \/ ArpExpires(a)
       PROVE  outcome'.on \in since
    BY <2>3, SMTT(60)
  <2>4. QED
    BY <1>6, <2>1, <2>2, <2>3 DEF Surroundings
<1>7. CASE UNCHANGED vars
  BY <1>7 DEF vars, TypeNames, TypeFlags, Ops, Sets, ShapeInv, ObservedInv, Ends
<1>8. QED
  BY <1>1, <1>2, <1>3, <1>4, <1>5, <1>6, <1>7 DEF Next

\* The state a success reports is one the channel really had after the
\* operation last switched it, if the plug stayed where it was.
THEOREM StateIsObserved == Spec => ObservedNotAssumed
<1>1. IInv /\ [Next]_vars =>
        [Ends /\ outcome'.ok /\ ~cancelled' /\ op \in Sets \cup {"status"} /\ ~moved
           => outcome'.on \in since]_vars
  BY TypeParts, ObservedStepEnds DEF IInv
<1>2. QED
  BY <1>1, Invariance, PTL DEF Spec, ObservedNotAssumed

\* VerdictEarned, of the step at hand.
Earned ==
  /\ outcome'.presence = "mute" => around \/ swept' = "stale"
  /\ outcome'.presence = "absent" => swept' = "live" /\ met = {}

\* The only ways to a verdict.
LEMMA VerdictStepEnds ==
  ASSUME TypeNames, TypePlaces, TypeFlags, ShapeInv, AimInv, VerdictInv, [Next]_vars, Ends, ~cancelled'
  PROVE  Earned
<1> USE DEF TypeNames, TypePlaces, TypeFlags, ShapeInv, AimInv, VerdictInv, Ends, Presence, Why, Earned
<1>1. ASSUME NEW o \in Ops, NEW a \in Addresses, Start(o, a)
     PROVE  Earned
  BY <1>1, AddressAssumption, SMTT(60)
<1>2. CASE TaskStep
  <2>1. CASE Identified
    BY <2>1, AddressAssumption, SMTT(60)
  <2>2. CASE ResolvedFromCache
    BY <2>2, AddressAssumption, SMTT(60)
  <2>3. CASE SweepBegins
    BY <2>3, AddressAssumption, SMTT(60)
  <2>4. CASE NotFound
    BY <2>4, AddressAssumption, SMTT(60)
  <2>5. ASSUME NEW leg \in {"ACT", "ACT2", "VERIFY"}, ActFails(leg)
       PROVE  Earned
    BY <2>5, AddressAssumption, SMTT(60)
  <2>6. CASE Confirmed
    BY <2>6, AddressAssumption, SMTT(60)
  <2>7. CASE StatusRead
    BY <2>7, AddressAssumption, SMTT(60)
  <2>8. CASE CutDone
    BY <2>8, AddressAssumption, SMTT(60)
  <2>9. ASSUME NEW leg \in {"ACT", "ACT2"}, SetDone(leg)
       PROVE  Earned
    BY <2>9, AddressAssumption, SMTT(60)
  <2>10. CASE WaitDone
    BY <2>10, AddressAssumption, SMTT(60)
  <2>11. CASE WifiDone
    BY <2>11, AddressAssumption, SMTT(60)
  <2>12. ASSUME NEW leg \in {"FW_INFO", "FW_LATEST", "FW_UPDATE"}, FirmwareDone(leg)
       PROVE  Earned
    BY <2>12, AddressAssumption, SMTT(60)
  <2>13. QED
    BY <1>2, <2>1, <2>2, <2>3, <2>4, <2>5, <2>6, <2>7, <2>8, <2>9, <2>10, <2>11, <2>12 DEF TaskStep
<1>3. CASE SweepEnds
  <2>1. ASSUME NEW a \in Addresses, SweepFinds(a)
       PROVE  Earned
    BY <2>1, AddressAssumption, SMTT(60)
  <2>2. CASE SweepMisses
    BY <2>2, AddressAssumption, SMTT(60)
  <2>3. QED
    BY <1>3, <2>1, <2>2 DEF SweepEnds
<1>4. CASE Cancel
  BY <1>4, AddressAssumption, SMTT(60)
<1>5. CASE Exchange
  BY <1>5, AddressAssumption, SMTT(60) DEF Exchange
<1>6. CASE Surroundings
  <2>1. CASE Trips
    BY <2>1, AddressAssumption, SMTT(60)
  <2>2. ASSUME NEW a \in Addresses \cup {Gone}, PlugMoves(a)
       PROVE  Earned
    BY <2>2, AddressAssumption, SMTT(60)
  <2>3. ASSUME NEW a \in Addresses, Learns(a) \/ ArpExpires(a)
       PROVE  Earned
    BY <2>3, AddressAssumption, SMTT(60)
  <2>4. QED
    BY <1>6, <2>1, <2>2, <2>3 DEF Surroundings
<1>7. CASE UNCHANGED vars
  BY <1>7 DEF vars, TypeNames, TypePlaces, TypeFlags, ShapeInv, AimInv, VerdictInv, Ends, Presence, Why, Earned
<1>8. QED
  BY <1>1, <1>2, <1>3, <1>4, <1>5, <1>6, <1>7 DEF Next

\* mute is said only of a plug that was there or whose row in the sweep was an
\* entry older than the sweep, and absent only after a sweep that did not find it.
THEOREM VerdictIsEarned == Spec => VerdictEarned
<1>1. Init => VerdictInv
  BY DEF Init, VerdictInv
<1>2. IInv /\ VerdictInv /\ [Next]_vars => VerdictInv'
  BY TypeParts, VerdictStep DEF IInv
<1>3. IInv /\ VerdictInv /\ [Next]_vars =>
        [Ends /\ ~cancelled' =>
           /\ outcome'.presence = "mute" => around \/ swept' = "stale"
           /\ outcome'.presence = "absent" => swept' = "live" /\ met = {}]_vars
  BY TypeParts, VerdictStepEnds DEF IInv, Earned
<1>4. QED
  BY <1>1, <1>2, <1>3, Invariance, PTL DEF Spec, VerdictEarned

(***************************************************************************)
(* The promise of PlugDriver.                                              *)
(***************************************************************************)

\* The lookup of an address is noted before the sweep begins.
SweptOnce == sweeping => resolvedOnce

LEMMA SweptOnceStep ==
  ASSUME SweptOnce, [Next]_vars
  PROVE  SweptOnce'
<1> USE DEF SweptOnce
<1>1. ASSUME NEW o \in Ops, NEW a \in Addresses, Start(o, a)
     PROVE  SweptOnce'
  <2>1. ~sweeping /\ sweeping' = sweeping
    BY <1>1, Zenon
  <2>2. QED
    BY <2>1, Zenon
<1>2. CASE TaskStep
  <2>1. CASE Identified
    BY <2>1, Zenon
  <2>2. CASE ResolvedFromCache
    BY <2>2, Zenon
  <2>3. CASE SweepBegins
    BY <2>3, Zenon
  <2>4. CASE NotFound
    BY <2>4, Zenon
  <2>5. ASSUME NEW leg \in {"ACT", "ACT2", "VERIFY"}, ActFails(leg)
       PROVE  SweptOnce'
    BY <2>5, Zenon
  <2>6. CASE Confirmed
    BY <2>6, Zenon
  <2>7. CASE StatusRead
    BY <2>7, Zenon
  <2>8. CASE CutDone
    BY <2>8, Zenon
  <2>9. ASSUME NEW leg \in {"ACT", "ACT2"}, SetDone(leg)
       PROVE  SweptOnce'
    BY <2>9, Zenon
  <2>10. CASE WaitDone
    BY <2>10, Zenon
  <2>11. CASE WifiDone
    BY <2>11, Zenon
  <2>12. ASSUME NEW leg \in {"FW_INFO", "FW_LATEST", "FW_UPDATE"}, FirmwareDone(leg)
       PROVE  SweptOnce'
    BY <2>12, Zenon
  <2>13. QED
    BY <1>2, <2>1, <2>2, <2>3, <2>4, <2>5, <2>6, <2>7, <2>8, <2>9, <2>10, <2>11, <2>12, Zenon DEF TaskStep
<1>3. CASE SweepEnds
  BY <1>3, SMTT(60) DEF SweepEnds
<1>4. CASE Cancel
  BY <1>4, Zenon
<1>5. CASE UNCHANGED <<sweeping, resolvedOnce>>
  BY <1>5, Zenon
<1>6. Exchange => UNCHANGED <<sweeping, resolvedOnce>>
  <2>1. PlugAnswers => UNCHANGED <<sweeping, resolvedOnce>>
    BY Zenon
  <2>2. PlugRefuses => UNCHANGED <<sweeping, resolvedOnce>>
    BY Zenon
  <2>3. OtherAnswers => UNCHANGED <<sweeping, resolvedOnce>>
    BY Zenon
  <2>4. Delivered \/ Lost => UNCHANGED <<sweeping, resolvedOnce>>
    BY Zenon
  <2>5. QED
    BY <2>1, <2>2, <2>3, <2>4, Zenon DEF Exchange
<1>7. Surroundings => UNCHANGED <<sweeping, resolvedOnce>>
  <2>1. Trips => UNCHANGED <<sweeping, resolvedOnce>>
    BY Zenon
  <2>2. ASSUME NEW a \in Addresses \cup {Gone}, PlugMoves(a)
       PROVE  UNCHANGED <<sweeping, resolvedOnce>>
    BY <2>2, Zenon
  <2>3. ASSUME NEW a \in Addresses, Learns(a) \/ ArpExpires(a)
       PROVE  UNCHANGED <<sweeping, resolvedOnce>>
    BY <2>3, Zenon
  <2>4. QED
    BY <2>1, <2>2, <2>3, Zenon DEF Surroundings
<1>8. UNCHANGED vars => UNCHANGED <<sweeping, resolvedOnce>>
  BY Zenon DEF vars
<1>9. QED
  BY <1>1, <1>2, <1>3, <1>4, <1>5, <1>6, <1>7, <1>8, Zenon DEF Next

\* What changes neither the operation nor its phase changes nothing of the promise.
LEMMA PromiseRests ==
  ASSUME UNCHANGED <<op, phase, resolvedOnce, cb, sweeping, heard>>
  PROVE  UNCHANGED Promise!plugDriver
BY Zenon DEF Promise!plugDriver, Stage

\* Each step of the driver is one that PlugDriver allows, or none of its business.
LEMMA PromiseStep ==
  ASSUME TypeNames, TypeCounters, TypeFlags, ShapeInv, SweptOnce, [Next]_vars
  PROVE  [Promise!DriverNext]_Promise!plugDriver
<1> USE DEF TypeNames, TypeCounters, TypeFlags, Ops, Sets, ShapeInv, SweptOnce, Stage, Promise!Acting,
            Promise!CallsBack
<1> DEFINE Allowed == Promise!DriverNext \/ UNCHANGED Promise!plugDriver
<1>1. ASSUME NEW o \in Ops, NEW a \in Addresses, Start(o, a)
     PROVE  Allowed
  <2>1. Promise!DriverStarts(o = "cycle") \/ Promise!DriverStartFails(o = "cycle")
    BY <1>1, SMTT(60) DEF Promise!DriverStarts, Promise!DriverStartFails
  <2>2. QED
    BY <2>1, Zenon DEF Promise!DriverNext
<1>2. CASE TaskStep
  <2>1. Identified => Promise!DriverWorks \/ Promise!DriverEnds
    BY SMTT(60) DEF Promise!DriverEnds, Promise!DriverWorks
  <2>2. ResolvedFromCache => Promise!DriverWorks \/ Promise!DriverEnds
    BY SMTT(60) DEF Promise!DriverEnds, Promise!DriverWorks
  <2>3. SweepBegins => Promise!DriverSweeps
    BY SMTT(60) DEF Promise!DriverSweeps
  <2>4. NotFound => Promise!DriverEnds
    BY SMTT(60) DEF Promise!DriverEnds
  <2>5. ASSUME NEW leg \in {"ACT", "ACT2", "VERIFY"}, ActFails(leg)
       PROVE  Promise!DriverEnds \/ UNCHANGED Promise!plugDriver
    BY <2>5, SMTT(60) DEF Promise!DriverEnds, Promise!plugDriver
  <2>6. Confirmed => Promise!DriverEnds
    BY SMTT(60) DEF Promise!DriverEnds
  <2>7. StatusRead => Promise!DriverEnds \/ UNCHANGED Promise!plugDriver
    BY SMTT(60) DEF Promise!DriverEnds, Promise!plugDriver
  <2>8. CutDone => UNCHANGED Promise!plugDriver
    BY SMTT(60) DEF Promise!plugDriver
  <2>9. ASSUME NEW leg \in {"ACT", "ACT2"}, SetDone(leg)
       PROVE  Promise!DriverEnds \/ UNCHANGED Promise!plugDriver
    BY <2>9, SMTT(60) DEF Promise!DriverEnds, Promise!plugDriver
  <2>10. WaitDone => Promise!DriverEnds \/ UNCHANGED Promise!plugDriver
    BY SMTT(60) DEF Promise!DriverEnds, Promise!plugDriver
  <2>11. WifiDone => Promise!DriverEnds
    BY SMTT(60) DEF Promise!DriverEnds
  <2>12. ASSUME NEW leg \in {"FW_INFO", "FW_LATEST", "FW_UPDATE"}, FirmwareDone(leg)
       PROVE  Promise!DriverEnds \/ UNCHANGED Promise!plugDriver
    BY <2>12, SMTT(60) DEF Promise!DriverEnds, Promise!plugDriver
  <2>13. QED
    BY <1>2, <2>1, <2>2, <2>3, <2>4, <2>5, <2>6, <2>7, <2>8, <2>9, <2>10, <2>11, <2>12 DEF TaskStep, Promise!DriverNext
<1>3. CASE SweepEnds
  <2>1. ASSUME NEW a \in Addresses, SweepFinds(a)
       PROVE  Promise!DriverFinds \/ Promise!DriverEnds
    BY <2>1, SMTT(60) DEF Promise!DriverFinds, Promise!DriverEnds
  <2>2. CASE SweepMisses
    <3>1. Promise!DriverEnds
      BY <2>2, SMTT(60) DEF Promise!DriverEnds
    <3>2. QED
      BY <3>1 DEF Promise!DriverNext
  <2>3. QED
    BY <1>3, <2>1, <2>2 DEF SweepEnds, Promise!DriverNext
<1>4. CASE Cancel
  <2>1. Promise!DriverCancels
    BY <1>4, SMTT(60) DEF Promise!DriverCancels
  <2>2. QED
    BY <2>1 DEF Promise!DriverNext
<1>5. CASE Exchange
  BY <1>5, PromiseRests DEF Exchange
<1>6. CASE Surroundings
  BY <1>6, PromiseRests DEF Surroundings
<1>7. CASE UNCHANGED vars
  BY <1>7, PromiseRests DEF vars
<1>8. QED
  BY <1>1, <1>2, <1>3, <1>4, <1>5, <1>6, <1>7 DEF Next

\* The detailed driver implements the abstract one that RelayCommands is built on.
THEOREM PromiseIsKept == Spec => KeepsItsPromise
<1>1. Init => Promise!DriverInit
  BY DEF Init, Promise!DriverInit, Stage
<1>2. Init => SweptOnce
  BY DEF Init, SweptOnce
<1>3. SweptOnce /\ [Next]_vars => SweptOnce'
  BY SweptOnceStep
<1>4. IInv /\ SweptOnce /\ [Next]_vars => [Promise!DriverNext]_Promise!plugDriver
  BY TypeParts, PromiseStep DEF IInv
<1>5. QED
  BY <1>1, <1>2, <1>3, <1>4, Invariance, PTL DEF Spec, KeepsItsPromise, Promise!DriverSpec

===============================================================================
