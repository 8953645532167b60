----------------------------- MODULE Stuck_proofs -----------------------------
(***************************************************************************)
(* The stuck-link detector restarts exactly the devices that are stuck,    *)
(* for every width of the counter and every threshold, and those that lose *)
(* the link on the millisecond on which the counter wraps to zero.         *)
(***************************************************************************)
EXTENDS Stuck, TLAPS

\* An unsigned difference moves on with the counter, across its wrap.
LEMMA ElapsedAdvances ==
  ASSUME NEW t \in 0 .. Wrap - 1, NEW since \in 0 .. Wrap - 1, NEW turn \in Nat,
         Elapsed(t, since) + turn < Wrap
  PROVE  Elapsed((t + turn) % Wrap, since) = Elapsed(t, since) + turn
<1>1. Wrap \in Nat /\ Wrap > 0
  BY WrapAssumption
<1>2. t - since \in -Wrap .. Wrap - 1 /\ turn < Wrap
  <2>1. t - since \in -Wrap .. Wrap - 1
    BY <1>1
  <2>2. Elapsed(t, since) \in 0 .. Wrap - 1
    BY <1>1, <2>1 DEF Elapsed
  <2>3. QED
    BY <1>1, <2>1, <2>2
<1>3. Elapsed(t, since) = IF t >= since THEN t - since ELSE t - since + Wrap
  BY <1>1, <1>2 DEF Elapsed
<1>4. (t + turn) % Wrap = IF t + turn < Wrap THEN t + turn ELSE t + turn - Wrap
  BY <1>1, <1>2
<1> DEFINE u == (t + turn) % Wrap
<1>5. Elapsed(u, since) = IF u >= since THEN u - since ELSE u - since + Wrap
  BY <1>1, <1>4 DEF Elapsed
<1>6. QED
  BY <1>1, <1>2, <1>3, <1>4, <1>5

LEMMA ElapsedNone ==
  ASSUME NEW t \in 0 .. Wrap - 1
  PROVE  Elapsed(t, t) = 0
<1>1. Wrap \in Nat /\ Wrap > 0
  BY WrapAssumption
<1>2. 0 % Wrap = 0
  BY <1>1
<1>3. QED
  BY <1>2 DEF Elapsed

\* The detector's two time stamps tell how long the link has held, while that
\* still matters, and how long the outage has lasted.
DetectorKnows ==
  /\ detector.armed <=> proved
  /\ detector.linked <=> linkFor # NotNow
  /\ detector.unlinkedSince # 0 <=> outFor # NotNow
  /\ linkFor # NotNow => outFor = NotNow
  /\ ~proved /\ linkFor # NotNow =>
       linkFor < ArmMs /\ Elapsed(now, detector.linkedSince) = linkFor
  /\ proved /\ outFor # NotNow =>
       outFor < TriggerMs /\ Elapsed(now, detector.unlinkedSince) = outFor

IInv ==
  /\ TypeOK
  /\ pc = "booted" => DetectorKnows
  /\ OnlyTheStuckRestart
  /\ ram = "record" => pc = "restarting" \/ (pc = "off" /\ lastEnd = "stuck")
  /\ report /\ pc # "off" => lastEnd = "stuck"

\* A stretch is as long as it was and the turn, up to the bound, or begins.
LEMMA StretchType ==
  ASSUME NEW length \in NotNow .. Ages, NEW turn \in Nat, NEW goesOn \in BOOLEAN
  PROVE  /\ Stretch(length, turn, goesOn) \in NotNow .. Ages
         /\ ~goesOn => Stretch(length, turn, goesOn) = NotNow
         /\ goesOn => Stretch(length, turn, goesOn) # NotNow
         /\ goesOn /\ length = NotNow => Stretch(length, turn, goesOn) = 0
         /\ goesOn /\ length # NotNow =>
              Stretch(length, turn, goesOn) = IF length + turn < Ages THEN length + turn ELSE Ages
BY WrapAssumption DEF Stretch, NotNow

\* What each kind of turn makes of the detector.
LEMMA StepType ==
  ASSUME NEW d \in Detectors, NEW t \in 0 .. Wrap - 1, Wrap > 1
  PROVE  /\ StepOffline(d) \in Detectors
         /\ StepOffline(d).armed = d.armed /\ StepOffline(d).linked = FALSE
         /\ StepOffline(d).unlinkedSince = 0
         /\ StepUnlinked(d, t) \in Detectors
         /\ StepUnlinked(d, t).armed = d.armed /\ StepUnlinked(d, t).linked = FALSE
         /\ StepUnlinked(d, t).unlinkedSince =
              IF d.unlinkedSince # 0 THEN d.unlinkedSince ELSE IF t # 0 THEN t ELSE 1
<1>1. Wrap \in Nat /\ 0 \in 0 .. Wrap - 1 /\ 1 \in 0 .. Wrap - 1
  BY WrapAssumption
<1>2. /\ StepOffline(d) \in Detectors
      /\ StepOffline(d).armed = d.armed /\ StepOffline(d).linked = FALSE
      /\ StepOffline(d).unlinkedSince = 0
  BY <1>1 DEF StepOffline, Detectors
<1> DEFINE since == IF d.unlinkedSince # 0 THEN d.unlinkedSince ELSE IF t # 0 THEN t ELSE 1
<1>3. since \in 0 .. Wrap - 1
  BY <1>1 DEF Detectors
<1>4. StepUnlinked(d, t) = [d EXCEPT !.linked = FALSE, !.linkedSince = 0, !.unlinkedSince = since]
  BY DEF StepUnlinked
<1> HIDE DEF since
<1>5. /\ StepUnlinked(d, t) \in Detectors
      /\ StepUnlinked(d, t).armed = d.armed /\ StepUnlinked(d, t).linked = FALSE
      /\ StepUnlinked(d, t).unlinkedSince = since
  BY <1>1, <1>3, <1>4 DEF Detectors
<1>6. QED
  BY <1>2, <1>5 DEF since

LEMMA StepLinkedType ==
  ASSUME NEW d \in Detectors, NEW t \in 0 .. Wrap - 1
  PROVE  /\ StepLinked(d, t) \in Detectors
         /\ StepLinked(d, t).linked
         /\ StepLinked(d, t).unlinkedSince = 0
         /\ StepLinked(d, t).linkedSince = IF d.linked THEN d.linkedSince ELSE t
         /\ StepLinked(d, t).armed <=>
              d.armed \/ Elapsed(t, IF d.linked THEN d.linkedSince ELSE t) >= ArmMs
<1> DEFINE since == IF d.linked THEN d.linkedSince ELSE t
<1> DEFINE armed == d.armed \/ Elapsed(t, since) >= ArmMs
<1>1. since \in 0 .. Wrap - 1 /\ 0 \in 0 .. Wrap - 1 /\ armed \in BOOLEAN
  BY WrapAssumption DEF Detectors
<1>2. StepLinked(d, t) = [d EXCEPT !.linked = TRUE, !.linkedSince = since,
                                   !.unlinkedSince = 0, !.armed = armed]
  BY DEF StepLinked
<1> HIDE DEF since, armed
<1>3. StepLinked(d, t) \in Detectors
  BY <1>1, <1>2 DEF Detectors
<1>4. /\ StepLinked(d, t).unlinkedSince = 0
      /\ StepLinked(d, t).linkedSince = since
  BY <1>2 DEF Detectors
<1>5. StepLinked(d, t).linked = TRUE /\ StepLinked(d, t).armed = armed
  BY <1>2 DEF Detectors
<1>6. QED
  BY <1>3, <1>4, <1>5 DEF since, armed

\* What a turn of the main loop may take for granted.
LEMMA TurnFacts ==
  ASSUME IInv, NEW turn \in Turns, pc = "booted"
  PROVE  /\ turn \in Nat /\ turn > 0
         /\ Wrap \in Nat /\ Wrap > 1
         /\ ArmMs \in Nat /\ TriggerMs \in Nat /\ TriggerMs > 0 /\ Ages \in Nat
         /\ ArmMs <= Ages /\ TriggerMs <= Ages
         /\ ArmMs + turn < Wrap /\ TriggerMs + turn < Wrap
         /\ (now + turn) % Wrap \in 0 .. Wrap - 1
         /\ now \in 0 .. Wrap - 1 /\ detector \in Detectors
         /\ linkFor \in NotNow .. Ages /\ outFor \in NotNow .. Ages
         /\ DetectorKnows
<1>1. /\ turn \in Nat /\ turn > 0 /\ Wrap \in Nat /\ ArmMs \in Nat /\ Ages \in Nat
      /\ ArmMs + turn < Wrap /\ TriggerMs + turn < Wrap
      /\ TriggerMs \in Nat /\ TriggerMs > 0 /\ ArmMs <= Ages /\ TriggerMs <= Ages
  BY WrapAssumption, TurnsAssumption, ThresholdAssumption
<1>2. Wrap > 1
  BY <1>1
<1>3. now \in 0 .. Wrap - 1 /\ detector \in Detectors
      /\ linkFor \in NotNow .. Ages /\ outFor \in NotNow .. Ages /\ DetectorKnows
  BY DEF IInv, TypeOK
<1>4. (now + turn) % Wrap \in 0 .. Wrap - 1
  BY <1>1, <1>2, <1>3
<1>5. QED
  BY <1>1, <1>2, <1>3, <1>4

LEMMA OfflineTurn ==
  ASSUME IInv, NEW relay \in BOOLEAN, NEW turn \in Turns, Turn(FALSE, relay, turn)
  PROVE  IInv'
<1> DEFINE t == (now + turn) % Wrap
<1>1. pc = "booted" /\ now' = t /\ detector' = StepOffline(detector)
      /\ linkFor' = NotNow /\ outFor' = NotNow /\ proved' = (proved \/ linkFor' >= ArmMs)
      /\ UNCHANGED <<ram, pc, report, lastEnd>>
  BY DEF Turn, Step, GivesUp, Stretch
<1>2. proved' = proved /\ proved' \in BOOLEAN
  BY <1>1, TurnFacts DEF NotNow, IInv, TypeOK
<1>3. /\ detector' \in Detectors /\ detector'.armed = detector.armed
      /\ detector'.linked = FALSE /\ detector'.unlinkedSince = 0
  BY <1>1, TurnFacts, StepType
<1>4. now' \in 0 .. Wrap - 1 /\ NotNow \in NotNow .. Ages
  BY <1>1, TurnFacts DEF NotNow
<1>5. TypeOK'
  BY <1>1, <1>2, <1>3, <1>4 DEF IInv, TypeOK
<1>6. DetectorKnows'
  BY <1>1, <1>2, <1>3, TurnFacts DEF DetectorKnows
<1>7. QED
  BY <1>1, <1>5, <1>6 DEF IInv, OnlyTheStuckRestart

LEMMA LinkedTurn ==
  ASSUME IInv, NEW turn \in Turns, Turn(TRUE, TRUE, turn)
  PROVE  IInv'
<1> DEFINE t == (now + turn) % Wrap
           since == IF detector.linked THEN detector.linkedSince ELSE t
<1>1. pc = "booted" /\ now' = t /\ detector' = StepLinked(detector, t)
      /\ linkFor' = Stretch(linkFor, turn, TRUE) /\ outFor' = NotNow
      /\ proved' = (proved \/ linkFor' >= ArmMs)
      /\ UNCHANGED <<ram, pc, report, lastEnd>>
  BY DEF Turn, Step, GivesUp, Stretch
<1>f. /\ turn \in Nat /\ ArmMs \in Nat /\ TriggerMs \in Nat /\ Ages \in Nat
      /\ ArmMs <= Ages /\ TriggerMs <= Ages
      /\ linkFor \in Int /\ outFor \in Int
  BY <1>1, TurnFacts DEF NotNow
<1>2. /\ linkFor' \in NotNow .. Ages /\ linkFor' # NotNow /\ proved' \in BOOLEAN
      /\ linkFor = NotNow => linkFor' = 0
      /\ linkFor # NotNow => linkFor' = IF linkFor + turn < Ages THEN linkFor + turn ELSE Ages
  BY <1>1, TurnFacts, StretchType DEF IInv, TypeOK
<1>3. /\ detector' \in Detectors /\ detector'.linked /\ detector'.unlinkedSince = 0
      /\ detector'.linkedSince = since
      /\ detector'.armed <=> detector.armed \/ Elapsed(t, since) >= ArmMs
  BY <1>1, TurnFacts, StepLinkedType
<1>4. now' \in 0 .. Wrap - 1 /\ NotNow \in NotNow .. Ages
  BY <1>1, TurnFacts DEF NotNow
<1>5. TypeOK'
  BY <1>1, <1>2, <1>3, <1>4 DEF IInv, TypeOK
<1>6. ASSUME ~proved
      PROVE  /\ Elapsed(t, since) >= ArmMs <=> linkFor' >= ArmMs
             /\ linkFor' < ArmMs => Elapsed(t, since) = linkFor'
  <2>1. CASE linkFor = NotNow
    <3>1. since = t
      BY <2>1, <1>1, TurnFacts DEF DetectorKnows
    <3>2. Elapsed(t, since) = 0
      BY <3>1, <1>1, TurnFacts, ElapsedNone
    <3>3. QED
      BY <2>1, <3>2, <1>2
  <2>2. CASE linkFor # NotNow
    <3>1. since = detector.linkedSince /\ since \in 0 .. Wrap - 1
          /\ linkFor < ArmMs /\ Elapsed(now, since) = linkFor
      BY <2>2, <1>1, <1>6, TurnFacts DEF DetectorKnows, Detectors
    <3>2. linkFor \in Nat
      BY <2>2, <1>1, TurnFacts DEF NotNow
    <3>3. Elapsed(t, since) = linkFor + turn
      <4> HIDE DEF since
      <4>1. Elapsed(now, since) + turn < Wrap
        BY <3>1, <3>2, <1>1, TurnFacts
      <4>2. QED
        BY <4>1, <3>1, <1>1, TurnFacts, ElapsedAdvances
    <3>4. /\ linkFor + turn \in Nat /\ ArmMs \in Nat /\ Ages \in Nat /\ ArmMs <= Ages
          /\ linkFor' = IF linkFor + turn < Ages THEN linkFor + turn ELSE Ages
      BY <2>2, <3>2, <1>2, <1>f
    <3>5. linkFor' >= ArmMs <=> linkFor + turn >= ArmMs
      BY <3>4
    <3>6. linkFor' < ArmMs => linkFor' = linkFor + turn
      BY <3>4
    <3>7. linkFor' < ArmMs <=> ~(linkFor' >= ArmMs)
      BY <3>4
    <3>8. QED
      BY <3>3, <3>5, <3>6, <3>7
  <2>3. QED
    BY <2>1, <2>2
<1> HIDE DEF since
<1>7. DetectorKnows'
  <2>1. detector.armed <=> proved
    BY <1>1, TurnFacts DEF DetectorKnows
  <2>2. CASE proved
    BY <2>1, <2>2, <1>1, <1>2, <1>3 DEF DetectorKnows
  <2>3. CASE ~proved
    <3>1. detector'.armed <=> proved'
      BY <2>1, <2>3, <1>1, <1>3, <1>6
    <3>2. ~proved' => linkFor' < ArmMs /\ Elapsed(now', detector'.linkedSince) = linkFor'
      <4>1. linkFor' \in Int /\ ArmMs \in Nat
        BY <1>2, <1>f DEF NotNow
      <4>2. ~proved' => ~(linkFor' >= ArmMs)
        BY <1>1
      <4>3. QED
        <5>1. linkFor' < ArmMs <=> ~(linkFor' >= ArmMs)
          BY <4>1
        <5>2. Elapsed(now', detector'.linkedSince) = Elapsed(t, since)
          BY <1>1, <1>3
        <5>3. QED
          BY <2>3, <4>2, <5>1, <5>2, <1>6
    <3>3. QED
      BY <3>1, <3>2, <1>1, <1>2, <1>3 DEF DetectorKnows
  <2>4. QED
    BY <2>2, <2>3
<1>8. QED
  BY <1>1, <1>5, <1>7 DEF IInv, OnlyTheStuckRestart

LEMMA UnlinkedTurn ==
  ASSUME IInv, NEW turn \in Turns, Turn(TRUE, FALSE, turn)
  PROVE  IInv'
<1> DEFINE t == (now + turn) % Wrap
           since == StepUnlinked(detector, t).unlinkedSince
<1>1. pc = "booted" /\ now' = t /\ detector' = StepUnlinked(detector, t)
      /\ linkFor' = NotNow /\ outFor' = Stretch(outFor, turn, TRUE)
      /\ proved' = (proved \/ linkFor' >= ArmMs) /\ report' = report /\ lastEnd' = lastEnd
  BY DEF Turn, Step, Stretch
<1>f. /\ turn \in Nat /\ ArmMs \in Nat /\ TriggerMs \in Nat /\ Ages \in Nat
      /\ ArmMs <= Ages /\ TriggerMs <= Ages
      /\ linkFor \in Int /\ outFor \in Int
  BY <1>1, TurnFacts DEF NotNow
<1>2. /\ outFor' \in NotNow .. Ages /\ outFor' # NotNow
      /\ outFor = NotNow => outFor' = 0
      /\ outFor # NotNow => outFor' = IF outFor + turn < Ages THEN outFor + turn ELSE Ages
  BY <1>1, TurnFacts, StretchType
<1>3. proved' = proved /\ proved' \in BOOLEAN
  BY <1>1, TurnFacts DEF NotNow, IInv, TypeOK
<1>4. /\ detector' \in Detectors /\ detector'.armed = detector.armed
      /\ detector'.linked = FALSE /\ detector'.unlinkedSince = since
      /\ since = IF detector.unlinkedSince # 0 THEN detector.unlinkedSince
                 ELSE IF t # 0 THEN t ELSE 1
  BY <1>1, TurnFacts, StepType
<1> HIDE DEF since
<1>5. since # 0 /\ since \in 0 .. Wrap - 1
  BY <1>1, <1>4, TurnFacts DEF Detectors
<1>6. detector.armed <=> proved
  BY <1>1, TurnFacts DEF DetectorKnows
<1>7. IF proved /\ Elapsed(t, since) >= TriggerMs
      THEN ram' = "record" /\ pc' = "restarting"
      ELSE ram' = ram /\ pc' = pc
  BY <1>6 DEF Turn, GivesUp, since
<1>8. TypeOK'
  <2>1. pc' \in {"off", "booted", "restarting"} /\ ram' \in {"nothing", "record"}
        /\ report' \in BOOLEAN /\ lastEnd' \in {"power", "stuck", "other"}
    BY <1>1, <1>7 DEF IInv, TypeOK
  <2>2. now' \in 0 .. Wrap - 1 /\ linkFor' \in NotNow .. Ages
    BY <1>1, TurnFacts DEF NotNow
  <2>3. QED
    BY <2>1, <2>2, <1>2, <1>3, <1>4 DEF TypeOK
<1>9. ASSUME proved
      PROVE  /\ Elapsed(t, since) >= TriggerMs => outFor' >= TriggerMs \/ LostAtTheWrap'
             /\ ~(Elapsed(t, since) >= TriggerMs) =>
                  outFor' < TriggerMs /\ Elapsed(t, since) = outFor'
  <2>1. CASE outFor = NotNow
    <3>1. since = IF t # 0 THEN t ELSE 1
      BY <2>1, <1>1, <1>4, <1>9, TurnFacts DEF DetectorKnows
    <3>2. CASE t # 0
      <4>1. Elapsed(t, since) = 0
        BY <3>1, <3>2, <1>1, TurnFacts, ElapsedNone
      <4>2. QED
        BY <2>1, <4>1, <1>1, <1>2, TurnFacts
    <3>3. CASE t = 0
      <4>1. Elapsed(t, since) = Wrap - 1
        <5>1. Wrap \in Nat /\ Wrap > 1
          BY <1>1, TurnFacts
        <5>2. (0 - 1) % Wrap = Wrap - 1
          BY <5>1
        <5>3. QED
          BY <3>1, <3>3, <5>2 DEF Elapsed
      <4>2. Elapsed(t, since) >= TriggerMs
        BY <4>1, <1>1, TurnFacts
      <4>3. LostAtTheWrap'
        BY <2>1, <3>3, <1>1, <1>2 DEF LostAtTheWrap
      <4>4. QED
        BY <4>2, <4>3
    <3>4. QED
      BY <3>2, <3>3
  <2>2. CASE outFor # NotNow
    <3>1. since = detector.unlinkedSince /\ outFor < TriggerMs /\ Elapsed(now, since) = outFor
      BY <2>2, <1>1, <1>4, <1>9, TurnFacts DEF DetectorKnows
    <3>2. outFor \in Nat
      BY <2>2, <1>1, TurnFacts DEF NotNow
    <3>3. Elapsed(t, since) = outFor + turn
      <4>1. Elapsed(now, since) + turn < Wrap
        BY <3>1, <3>2, <1>1, TurnFacts
      <4>2. QED
        BY <4>1, <3>1, <1>1, <1>5, TurnFacts, ElapsedAdvances
    <3>4. /\ outFor + turn \in Nat /\ TriggerMs \in Nat /\ Ages \in Nat /\ TriggerMs <= Ages
          /\ outFor' = IF outFor + turn < Ages THEN outFor + turn ELSE Ages
      BY <2>2, <3>2, <1>2, <1>f
    <3>5. outFor' >= TriggerMs <=> outFor + turn >= TriggerMs
      BY <3>4
    <3>6. outFor' < TriggerMs => outFor' = outFor + turn
      BY <3>4
    <3>7. outFor' < TriggerMs <=> ~(outFor' >= TriggerMs)
      BY <3>4
    <3>8. QED
      BY <3>3, <3>5, <3>6, <3>7
  <2>3. QED
    BY <2>1, <2>2
<1>10. CASE proved /\ Elapsed(t, since) >= TriggerMs
  <2>1. proved' /\ (outFor' >= TriggerMs \/ LostAtTheWrap')
    BY <1>10, <1>3, <1>9
  <2>2. QED
    BY <1>10, <2>1, <1>1, <1>7, <1>8 DEF IInv, OnlyTheStuckRestart
<1>11. CASE ~(proved /\ Elapsed(t, since) >= TriggerMs)
  <2>1. DetectorKnows'
    BY <1>11, <1>1, <1>2, <1>3, <1>4, <1>5, <1>6, <1>9 DEF DetectorKnows
  <2>2. QED
    BY <1>11, <2>1, <1>1, <1>7, <1>8 DEF IInv, OnlyTheStuckRestart
<1>12. QED
  BY <1>10, <1>11

LEMMA InitIInv == Init => IInv
<1> SUFFICES ASSUME Init PROVE IInv
  OBVIOUS
<1>1. Wrap \in Nat /\ Wrap > 0 /\ Ages \in Nat
  BY WrapAssumption
<1>2. 0 \in 0 .. Wrap - 1 /\ NotNow \in NotNow .. Ages
  BY <1>1 DEF NotNow
<1>3. detector \in Detectors
  BY <1>2 DEF Init, Fresh, Detectors
<1>4. TypeOK
  BY <1>2, <1>3 DEF Init, TypeOK
<1>5. QED
  BY <1>4 DEF Init, IInv, OnlyTheStuckRestart

LEMMA BootIInv ==
  ASSUME IInv, Boot
  PROVE  IInv'
<1>1. Wrap \in Nat /\ Wrap > 0 /\ Ages \in Nat
  BY WrapAssumption
<1>2. 0 \in 0 .. Wrap - 1 /\ NotNow \in NotNow .. Ages
  BY <1>1 DEF NotNow
<1>3. detector' = Fresh /\ Fresh \in Detectors
  BY <1>2 DEF Boot, Fresh, Detectors
<1>4. TypeOK'
  BY <1>2, <1>3 DEF Boot, Taken, IInv, TypeOK
<1>5. DetectorKnows'
  BY <1>3 DEF Boot, Fresh, DetectorKnows
<1>6. QED
  BY <1>4, <1>5 DEF Boot, Taken, IInv, OnlyTheStuckRestart, TypeOK

LEMMA OtherIInv ==
  ASSUME IInv,
         \/ \E sent \in BOOLEAN : SendHello(sent)
         \/ StuckRestart \/ OtherRestart \/ PowerCut
         \/ UNCHANGED vars
  PROVE  IInv'
<1>1. CASE \E sent \in BOOLEAN : SendHello(sent)
  <2>1. PICK sent \in BOOLEAN : SendHello(sent)
    BY <1>1
  <2>2. TypeOK' /\ (report' => report) /\ (DetectorKnows => DetectorKnows')
    BY <2>1 DEF SendHello, ReportAfterHello, IInv, TypeOK, DetectorKnows
  <2>3. QED
    BY <2>1, <2>2 DEF SendHello, IInv, OnlyTheStuckRestart
<1>2. CASE StuckRestart
  BY <1>2 DEF StuckRestart, EndBoot, IInv, OnlyTheStuckRestart, TypeOK
<1>3. CASE OtherRestart
  BY <1>3 DEF OtherRestart, EndBoot, IInv, OnlyTheStuckRestart, TypeOK
<1>4. CASE PowerCut
  BY <1>4 DEF PowerCut, EndBoot, IInv, OnlyTheStuckRestart, TypeOK
<1>5. CASE UNCHANGED vars
  BY <1>5 DEF vars, IInv, OnlyTheStuckRestart, LostAtTheWrap, TypeOK, DetectorKnows
<1>6. QED
  BY <1>1, <1>2, <1>3, <1>4, <1>5

LEMMA NextIInv ==
  ASSUME IInv, [Next]_vars
  PROVE  IInv'
<1>1. CASE Boot
  BY <1>1, BootIInv
<1>2. CASE \E net, relay \in BOOLEAN, turn \in Turns : Turn(net, relay, turn)
  <2>1. PICK net \in BOOLEAN, relay \in BOOLEAN, turn \in Turns : Turn(net, relay, turn)
    BY <1>2
  <2>2. CASE net = FALSE
    BY <2>1, <2>2, OfflineTurn
  <2>3. CASE net = TRUE /\ relay = TRUE
    BY <2>1, <2>3, LinkedTurn
  <2>4. CASE net = TRUE /\ relay = FALSE
    BY <2>1, <2>4, UnlinkedTurn
  <2>5. QED
    BY <2>2, <2>3, <2>4
<1>3. QED
  BY <1>1, <1>2, OtherIInv DEF Next

LEMMA IInvInvariant == Spec => []IInv
<1>1. IInv /\ [Next]_vars => IInv'
  BY NextIInv
<1>2. QED
  BY InitIInv, <1>1, PTL DEF Spec

\* Every variable keeps its type: the detector's time stamps are readings of
\* the counter (rw_stuck_step).
THEOREM TypeCorrect == Spec => []TypeOK
<1>1. IInv => TypeOK
  BY DEF IInv
<1>2. QED
  BY IInvInvariant, <1>1, PTL

\* Only a device that has held a link and then been without one, with a
\* network, for TriggerMs, or has lost it on the millisecond of the wrap,
\* restarts itself (rw_stuck_step).
THEOREM NoHealthyRestart == Spec => []OnlyTheStuckRestart
<1>1. IInv => OnlyTheStuckRestart
  BY DEF IInv
<1>2. QED
  BY IInvInvariant, <1>1, PTL

\* A device that has held a link is never left without one, with a network,
\* for TriggerMs (rw_stuck_step).
THEOREM NoStuckDevice == Spec => []TheStuckDoRestart
<1>1. IInv => TheStuckDoRestart
  <2> SUFFICES ASSUME IInv, pc = "booted", proved
               PROVE  outFor < TriggerMs
    BY DEF TheStuckDoRestart
  <2>1. DetectorKnows
    BY DEF IInv
  <2>2. CASE outFor = NotNow
    BY <2>2, ThresholdAssumption DEF NotNow
  <2>3. CASE outFor # NotNow
    BY <2>1, <2>3 DEF DetectorKnows
  <2>4. QED
    BY <2>2, <2>3
<1>2. QED
  BY IInvInvariant, <1>1, PTL

\* A hello reports only the end of the boot before (rw_sys_stuck_take).
THEOREM ReportIsCurrent == Spec => []ReportIsOfTheLastBoot
<1>1. IInv => ReportIsOfTheLastBoot
  BY DEF IInv, ReportIsOfTheLastBoot
<1>2. QED
  BY IInvInvariant, <1>1, PTL
===============================================================================
