--------------------------- MODULE RelayCommands_proofs ---------------------------
(***************************************************************************)
(* The safety properties of RelayCommands, for any set of req_ids.         *)
(***************************************************************************)
EXTENDS RelayCommands, TLAPS

(***************************************************************************)
(* The inductive invariant.                                                *)
(***************************************************************************)

\* TypeOK, in three parts: the provers do not mix truth values and numbers.
TypeNames ==
  /\ link \in {"ready", "closing", "down"}
  /\ kind \in Kinds \cup {"none"} /\ onStack \in Pumping \cup {"none"}
  /\ {reqId, mac, offer, probeReq, plugReq} \subseteq Ids \cup {NoId}
  /\ plugKind \in PlugKinds \cup {"none"} /\ (plugOwned => plugKind # "none")
  /\ open \subseteq Ids \X Kinds
  /\ overtaken \subseteq Ids

TypeFlags ==
  /\ probing \in BOOLEAN /\ probeOwned \in BOOLEAN /\ plugOwned \in BOOLEAN
  /\ receiving \in BOOLEAN /\ reboot \in BOOLEAN /\ stray \in BOOLEAN /\ disowned \in BOOLEAN
  /\ cycle \in BOOLEAN /\ caller \in BOOLEAN /\ sweeping \in BOOLEAN

TypeStage ==
  /\ stage \in {"idle", "probe", "found", "act", "cut"}
  /\ heard \in 0 .. 1

\* What waits or runs is still awaited on the connection that is there.
QueueInv ==
  /\ link = "down" => open = {}
  /\ kind # "none" => link # "down" /\ <<reqId, kind>> \in open
  /\ onStack # "none" => ~sweeping /\ (link # "down" => kind = onStack)

\* So is the probe that will be reported; it is not the one in the queue.
ProbeInv ==
  probeOwned =>
    /\ probing /\ link # "down" /\ <<probeReq, "probe">> \in open
    /\ ~(kind = "probe" /\ reqId = probeReq)

\* And the plug operation, which is the driver's with its callback.
PlugInv ==
  /\ plugOwned <=> stage # "idle" /\ caller
  /\ plugOwned => link # "down" /\ plugKind \in PlugKinds /\ <<plugReq, plugKind>> \in open

\* In the sweep an operation may have been cancelled, but then the link is down.
SweepInv ==
  /\ sweeping => stage = "found" \/ (stage = "idle" /\ ~caller /\ link = "down")
  /\ sweeping \/ stage # "idle" => heard = 0

\* A probe runs without its report only when another overtook it.
DisownedInv == probing => probeOwned \/ disowned

IInv ==
  /\ TypeOK /\ QueueInv /\ ProbeInv /\ PlugInv /\ SweepInv
  /\ RunsItsOwn /\ QueuedPlugFindsItFree /\ AnswersFit
  /\ DisownedInv /\ NobodyIsForgotten

(***************************************************************************)
(* The steps.                                                              *)
(***************************************************************************)

\* Commands are told apart by their req_id and by their type.
LEMMA Pair ==
  ASSUME NEW a, NEW b, NEW c, NEW d, <<a, b>> = <<c, d>>
  PROVE  a = c /\ b = d
  OBVIOUS

USE DEF Arrives, Takes, MayQueue, PlugIsFree, Outstanding, Judge, Answer, Progress, Runs, Dequeue,
  MainLoop, RunStatus, PumpBegins, RunProbe, RunPlug, RunOta, PumpEnds, ProbeEnds, PlugGoesOn, PlugEnds,
  PlugDone, OtaEnds, CloseBegins, Closes, OnClose, ProbeCancelled, PlugCancelled, Connects,
  RestartIntoStaged, queue, fields, probe, plugCommand, update, replies, history, plugDriver,
  DriverStarts, DriverStartFails, DriverWorks, DriverSweeps, DriverFinds, DriverEnds,
  DriverCancels, DriverBusy, CallsBack, Acting, Kinds, PlugKinds, Pumping, Aimed

\* The states and the commands.
LEMMA NamesStep ==
  ASSUME TypeNames, ProbeInv, [Next]_vars
  PROVE  TypeNames'
<1> USE DEF TypeNames, ProbeInv
<1>1. ASSUME NEW i \in Ids, NEW k \in Asked, Arrives(i, k)
     PROVE  TypeNames'
  BY <1>1, AskedAssumption, Pair
<1>2. CASE RunPending
  <2>1. CASE RunStatus
    BY <2>1, AskedAssumption, Pair
  <2>2. CASE PumpBegins
    BY <2>2, AskedAssumption, Pair
  <2>3. CASE RunProbe
    BY <2>3, AskedAssumption, Pair
  <2>4. CASE RunPlug
    BY <2>4, AskedAssumption, Pair
  <2>5. CASE RunOta
    BY <2>5, AskedAssumption, Pair
  <2>6. QED
    BY <1>2, <2>1, <2>2, <2>3, <2>4, <2>5 DEF RunPending
<1>3. CASE PumpEnds
  BY <1>3, AskedAssumption, Pair
<1>4. CASE ProbeEnds
  BY <1>4, AskedAssumption, Pair
<1>5. CASE PlugGoesOn
  BY <1>5, AskedAssumption, Pair
<1>6. CASE PlugEnds
  BY <1>6, AskedAssumption, Pair
<1>7. CASE OtaEnds
  BY <1>7, AskedAssumption, Pair
<1>8. CASE CloseBegins
  BY <1>8, AskedAssumption, Pair
<1>9. CASE Closes
  BY <1>9, AskedAssumption, Pair
<1>10. CASE Connects
  BY <1>10, AskedAssumption, Pair
<1>11. CASE RestartIntoStaged
  BY <1>11, AskedAssumption, Pair
<1>12. CASE UNCHANGED vars
  BY <1>12 DEF vars, TypeNames, ProbeInv
<1>13. QED
  BY <1>1, <1>2, <1>3, <1>4, <1>5, <1>6, <1>7, <1>8, <1>9, <1>10, <1>11, <1>12 DEF Next

\* The flags.
LEMMA FlagsStep ==
  ASSUME TypeFlags, [Next]_vars
  PROVE  TypeFlags'
<1> USE DEF TypeFlags
<1>1. ASSUME NEW i \in Ids, NEW k \in Asked, Arrives(i, k)
     PROVE  TypeFlags'
  BY <1>1, SMT, Zenon
<1>2. CASE RunPending
  <2>1. CASE RunStatus
    BY <2>1, SMT, Zenon
  <2>2. CASE PumpBegins
    BY <2>2, SMT, Zenon
  <2>3. CASE RunProbe
    BY <2>3, SMT, Zenon
  <2>4. CASE RunPlug
    BY <2>4, SMT, Zenon
  <2>5. CASE RunOta
    BY <2>5, SMT, Zenon
  <2>6. QED
    BY <1>2, <2>1, <2>2, <2>3, <2>4, <2>5 DEF RunPending
<1>3. CASE PumpEnds
  BY <1>3, SMT, Zenon
<1>4. CASE ProbeEnds
  BY <1>4, SMT, Zenon
<1>5. CASE PlugGoesOn
  BY <1>5, SMT, Zenon
<1>6. CASE PlugEnds
  BY <1>6, SMT, Zenon
<1>7. CASE OtaEnds
  BY <1>7, SMT, Zenon
<1>8. CASE CloseBegins
  BY <1>8, SMT, Zenon
<1>9. CASE Closes
  BY <1>9, SMT, Zenon
<1>10. CASE Connects
  BY <1>10, SMT, Zenon
<1>11. CASE RestartIntoStaged
  BY <1>11, SMT, Zenon
<1>12. CASE UNCHANGED vars
  BY <1>12 DEF vars, TypeFlags
<1> HIDE DEF TypeFlags
<1>13. QED
  BY <1>1, <1>2, <1>3, <1>4, <1>5, <1>6, <1>7, <1>8, <1>9, <1>10, <1>11, <1>12 DEF Next

\* The driver.
LEMMA StageStep ==
  ASSUME TypeStage, SweepInv, [Next]_vars
  PROVE  TypeStage'
<1> USE DEF TypeStage, SweepInv
<1>1. ASSUME NEW i \in Ids, NEW k \in Asked, Arrives(i, k)
     PROVE  TypeStage'
  BY <1>1
<1>2. CASE RunPending
  <2>1. CASE RunStatus
    BY <2>1
  <2>2. CASE PumpBegins
    BY <2>2
  <2>3. CASE RunProbe
    BY <2>3
  <2>4. CASE RunPlug
    <3>1. CASE UNCHANGED plugDriver
      BY <3>1
    <3>2. ASSUME NEW c \in BOOLEAN, DriverStarts(c) \/ DriverStartFails(c)
         PROVE  TypeStage'
      BY <3>2
    <3>3. QED
      BY <2>4, <3>1, <3>2
  <2>5. CASE RunOta
    BY <2>5
  <2>6. QED
    BY <1>2, <2>1, <2>2, <2>3, <2>4, <2>5 DEF RunPending
<1>3. CASE PumpEnds
  BY <1>3
<1>4. CASE ProbeEnds
  BY <1>4
<1>5. CASE PlugGoesOn
  BY <1>5
<1>6. CASE PlugEnds
  BY <1>6
<1>7. CASE OtaEnds
  BY <1>7
<1>8. CASE CloseBegins
  BY <1>8
<1>9. CASE Closes
  BY <1>9
<1>10. CASE Connects
  BY <1>10
<1>11. CASE RestartIntoStaged
  BY <1>11
<1>12. CASE UNCHANGED vars
  BY <1>12 DEF vars, TypeStage, SweepInv
<1>13. QED
  BY <1>1, <1>2, <1>3, <1>4, <1>5, <1>6, <1>7, <1>8, <1>9, <1>10, <1>11, <1>12 DEF Next

\* The sweep.
LEMMA SweepStep ==
  ASSUME PlugInv, SweepInv, [Next]_vars
  PROVE  SweepInv'
<1> USE DEF PlugInv, SweepInv
<1>1. ASSUME NEW i \in Ids, NEW k \in Asked, Arrives(i, k)
     PROVE  SweepInv'
  BY <1>1
<1>2. CASE RunPending
  <2>1. CASE RunStatus
    BY <2>1
  <2>2. CASE PumpBegins
    BY <2>2
  <2>3. CASE RunProbe
    BY <2>3
  <2>4. CASE RunPlug
    BY <2>4
  <2>5. CASE RunOta
    BY <2>5
  <2>6. QED
    BY <1>2, <2>1, <2>2, <2>3, <2>4, <2>5 DEF RunPending
<1>3. CASE PumpEnds
  BY <1>3
<1>4. CASE ProbeEnds
  BY <1>4
<1>5. CASE PlugGoesOn
  BY <1>5
<1>6. CASE PlugEnds
  BY <1>6
<1>7. CASE OtaEnds
  BY <1>7
<1>8. CASE CloseBegins
  BY <1>8
<1>9. CASE Closes
  BY <1>9
<1>10. CASE Connects
  BY <1>10
<1>11. CASE RestartIntoStaged
  BY <1>11
<1>12. CASE UNCHANGED vars
  BY <1>12 DEF vars, PlugInv, SweepInv
<1>13. QED
  BY <1>1, <1>2, <1>3, <1>4, <1>5, <1>6, <1>7, <1>8, <1>9, <1>10, <1>11, <1>12 DEF Next

\* Parameters are copied in with the command they belong to.
LEMMA OwnStep ==
  ASSUME RunsItsOwn, [Next]_vars
  PROVE  RunsItsOwn'
<1> USE DEF RunsItsOwn
<1>1. ASSUME NEW i \in Ids, NEW k \in Asked, Arrives(i, k)
     PROVE  RunsItsOwn'
  BY <1>1, SMTT(60)
<1>2. CASE RunPending
  <2>1. CASE RunStatus
    BY <2>1, SMTT(60)
  <2>2. CASE PumpBegins
    BY <2>2, SMTT(60)
  <2>3. CASE RunProbe
    BY <2>3, SMTT(60)
  <2>4. CASE RunPlug
    BY <2>4, SMTT(60)
  <2>5. CASE RunOta
    BY <2>5, SMTT(60)
  <2>6. QED
    BY <1>2, <2>1, <2>2, <2>3, <2>4, <2>5 DEF RunPending
<1>3. CASE PumpEnds
  BY <1>3, SMTT(60)
<1>4. CASE ProbeEnds
  BY <1>4, SMTT(60)
<1>5. CASE PlugGoesOn
  BY <1>5, SMTT(60)
<1>6. CASE PlugEnds
  BY <1>6, SMTT(60)
<1>7. CASE OtaEnds
  BY <1>7, SMTT(60)
<1>8. CASE CloseBegins
  BY <1>8, SMTT(60)
<1>9. CASE Closes
  BY <1>9, SMTT(60)
<1>10. CASE Connects
  BY <1>10, SMTT(60)
<1>11. CASE RestartIntoStaged
  BY <1>11, SMTT(60)
<1>12. CASE UNCHANGED vars
  BY <1>12 DEF vars, RunsItsOwn
<1>13. QED
  BY <1>1, <1>2, <1>3, <1>4, <1>5, <1>6, <1>7, <1>8, <1>9, <1>10, <1>11, <1>12 DEF Next

\* What queues a plug command finds the driver free, and nothing starts one meanwhile.
LEMMA FreeStep ==
  ASSUME SweepInv, PlugInv, QueueInv, QueuedPlugFindsItFree, [Next]_vars
  PROVE  QueuedPlugFindsItFree'
<1> USE DEF QueuedPlugFindsItFree, SweepInv, PlugInv, QueueInv
<1>1. ASSUME NEW i \in Ids, NEW k \in Asked, Arrives(i, k)
     PROVE  QueuedPlugFindsItFree'
  BY <1>1
<1>2. CASE RunPending
  <2>1. CASE RunStatus
    BY <2>1
  <2>2. CASE PumpBegins
    BY <2>2
  <2>3. CASE RunProbe
    BY <2>3
  <2>4. CASE RunPlug
    BY <2>4
  <2>5. CASE RunOta
    BY <2>5
  <2>6. QED
    BY <1>2, <2>1, <2>2, <2>3, <2>4, <2>5 DEF RunPending
<1>3. CASE PumpEnds
  BY <1>3
<1>4. CASE ProbeEnds
  BY <1>4
<1>5. CASE PlugGoesOn
  BY <1>5
<1>6. CASE PlugEnds
  BY <1>6
<1>7. CASE OtaEnds
  BY <1>7
<1>8. CASE CloseBegins
  BY <1>8
<1>9. CASE Closes
  BY <1>9
<1>10. CASE Connects
  BY <1>10
<1>11. CASE RestartIntoStaged
  BY <1>11
<1>12. CASE UNCHANGED vars
  BY <1>12 DEF vars, QueuedPlugFindsItFree, SweepInv, PlugInv, QueueInv
<1>13. QED
  BY <1>1, <1>2, <1>3, <1>4, <1>5, <1>6, <1>7, <1>8, <1>9, <1>10, <1>11, <1>12, ZenonT(30) DEF Next

\* The queue.
LEMMA QueueStep ==
  ASSUME QueueInv, ProbeInv, PlugInv, RunsItsOwn, QueuedPlugFindsItFree, SweepInv, [Next]_vars
  PROVE  QueueInv'
<1> USE DEF QueueInv, ProbeInv, PlugInv, SweepInv, QueuedPlugFindsItFree, RunsItsOwn
<1>1. ASSUME NEW i \in Ids, NEW k \in Asked, Arrives(i, k)
     PROVE  QueueInv'
  BY <1>1, AskedAssumption, Pair
<1>2. CASE RunPending
  <2>1. CASE RunStatus
    BY <2>1, AskedAssumption, Pair
  <2>2. CASE PumpBegins
    BY <2>2, AskedAssumption, Pair
  <2>3. CASE RunProbe
    BY <2>3, AskedAssumption, Pair
  <2>4. CASE RunPlug
    BY <2>4, AskedAssumption, Pair
  <2>5. CASE RunOta
    BY <2>5, AskedAssumption, Pair
  <2>6. QED
    BY <1>2, <2>1, <2>2, <2>3, <2>4, <2>5 DEF RunPending
<1>3. CASE PumpEnds
  BY <1>3, AskedAssumption, Pair
<1>4. CASE ProbeEnds
  BY <1>4, AskedAssumption, Pair
<1>5. CASE PlugGoesOn
  BY <1>5, AskedAssumption, Pair
<1>6. CASE PlugEnds
  BY <1>6, AskedAssumption, Pair
<1>7. CASE OtaEnds
  BY <1>7, AskedAssumption, Pair
<1>8. CASE CloseBegins
  BY <1>8, AskedAssumption, Pair
<1>9. CASE Closes
  BY <1>9, AskedAssumption, Pair
<1>10. CASE Connects
  BY <1>10, AskedAssumption, Pair
<1>11. CASE RestartIntoStaged
  BY <1>11, AskedAssumption, Pair
<1>12. CASE UNCHANGED vars
  BY <1>12 DEF vars, QueueInv, ProbeInv, PlugInv, SweepInv, QueuedPlugFindsItFree, RunsItsOwn
<1>13. QED
  BY <1>1, <1>2, <1>3, <1>4, <1>5, <1>6, <1>7, <1>8, <1>9, <1>10, <1>11, <1>12 DEF Next

\* The probe.
LEMMA ProbeStep ==
  ASSUME QueueInv, ProbeInv, PlugInv, RunsItsOwn, [Next]_vars
  PROVE  ProbeInv'
<1> USE DEF QueueInv, ProbeInv, PlugInv, RunsItsOwn
<1>1. ASSUME NEW i \in Ids, NEW k \in Asked, Arrives(i, k)
     PROVE  ProbeInv'
  BY <1>1, AskedAssumption, Pair
<1>2. CASE RunPending
  <2>1. CASE RunStatus
    BY <2>1, AskedAssumption, Pair
  <2>2. CASE PumpBegins
    BY <2>2, AskedAssumption, Pair
  <2>3. CASE RunProbe
    <3>1. probing' /\ probeReq' = reqId /\ kind' = "none" /\ link' = link
      BY <2>3, Zenon
    <3>2. link # "down" /\ <<reqId, "probe">> \in open
      BY <2>3
    <3>3. probeOwned' => ~probing
      BY <2>3, Zenon
    <3>4. ~probing => open' = open
      BY <2>3
    <3>5. QED
      BY <3>1, <3>2, <3>3, <3>4
  <2>4. CASE RunPlug
    BY <2>4, AskedAssumption, Pair
  <2>5. CASE RunOta
    BY <2>5, AskedAssumption, Pair
  <2>6. QED
    BY <1>2, <2>1, <2>2, <2>3, <2>4, <2>5 DEF RunPending
<1>3. CASE PumpEnds
  BY <1>3, AskedAssumption, Pair
<1>4. CASE ProbeEnds
  BY <1>4, AskedAssumption, Pair
<1>5. CASE PlugGoesOn
  BY <1>5, AskedAssumption, Pair
<1>6. CASE PlugEnds
  BY <1>6, AskedAssumption, Pair
<1>7. CASE OtaEnds
  BY <1>7, AskedAssumption, Pair
<1>8. CASE CloseBegins
  BY <1>8, AskedAssumption, Pair
<1>9. CASE Closes
  BY <1>9, AskedAssumption, Pair
<1>10. CASE Connects
  BY <1>10, AskedAssumption, Pair
<1>11. CASE RestartIntoStaged
  BY <1>11, AskedAssumption, Pair
<1>12. CASE UNCHANGED vars
  BY <1>12 DEF vars, QueueInv, ProbeInv, PlugInv, RunsItsOwn
<1>13. QED
  BY <1>1, <1>2, <1>3, <1>4, <1>5, <1>6, <1>7, <1>8, <1>9, <1>10, <1>11, <1>12 DEF Next

\* The plug operation.
LEMMA PlugStep ==
  ASSUME QueueInv, ProbeInv, PlugInv, SweepInv, RunsItsOwn, QueuedPlugFindsItFree, [Next]_vars
  PROVE  PlugInv'
<1> USE DEF QueueInv, ProbeInv, PlugInv, SweepInv, RunsItsOwn, QueuedPlugFindsItFree
<1>1. ASSUME NEW i \in Ids, NEW k \in Asked, Arrives(i, k)
     PROVE  PlugInv'
  BY <1>1, AskedAssumption, Pair
<1>2. CASE RunPending
  <2>1. CASE RunStatus
    BY <2>1, AskedAssumption, Pair
  <2>2. CASE PumpBegins
    BY <2>2, AskedAssumption, Pair
  <2>3. CASE RunProbe
    BY <2>3, AskedAssumption, Pair
  <2>4. CASE RunPlug
    BY <2>4, AskedAssumption, Pair
  <2>5. CASE RunOta
    BY <2>5, AskedAssumption, Pair
  <2>6. QED
    BY <1>2, <2>1, <2>2, <2>3, <2>4, <2>5 DEF RunPending
<1>3. CASE PumpEnds
  BY <1>3, AskedAssumption, Pair
<1>4. CASE ProbeEnds
  BY <1>4, AskedAssumption, Pair
<1>5. CASE PlugGoesOn
  BY <1>5, AskedAssumption, Pair
<1>6. CASE PlugEnds
  BY <1>6, AskedAssumption, Pair
<1>7. CASE OtaEnds
  BY <1>7, AskedAssumption, Pair
<1>8. CASE CloseBegins
  BY <1>8, AskedAssumption, Pair
<1>9. CASE Closes
  BY <1>9, AskedAssumption, Pair
<1>10. CASE Connects
  BY <1>10, AskedAssumption, Pair
<1>11. CASE RestartIntoStaged
  BY <1>11, AskedAssumption, Pair
<1>12. CASE UNCHANGED vars
  BY <1>12 DEF vars, QueueInv, ProbeInv, PlugInv, SweepInv, RunsItsOwn, QueuedPlugFindsItFree
<1>13. QED
  BY <1>1, <1>2, <1>3, <1>4, <1>5, <1>6, <1>7, <1>8, <1>9, <1>10, <1>11, <1>12 DEF Next

\* The answers.
LEMMA AnswersStep ==
  ASSUME QueueInv, ProbeInv, PlugInv, RunsItsOwn, AnswersFit, [Next]_vars
  PROVE  AnswersFit'
<1> USE DEF QueueInv, ProbeInv, PlugInv, RunsItsOwn, AnswersFit
<1>1. ASSUME NEW i \in Ids, NEW k \in Asked, Arrives(i, k)
     PROVE  AnswersFit'
  BY <1>1, Pair
<1>2. CASE RunPending
  <2>1. CASE RunStatus
    BY <2>1, Pair
  <2>2. CASE PumpBegins
    BY <2>2, Pair
  <2>3. CASE RunProbe
    BY <2>3, Pair
  <2>4. CASE RunPlug
    BY <2>4, Pair
  <2>5. CASE RunOta
    BY <2>5, Pair
  <2>6. QED
    BY <1>2, <2>1, <2>2, <2>3, <2>4, <2>5 DEF RunPending
<1>3. CASE PumpEnds
  BY <1>3, Pair
<1>4. CASE ProbeEnds
  BY <1>4, Pair
<1>5. CASE PlugGoesOn
  BY <1>5, Pair
<1>6. CASE PlugEnds
  BY <1>6, Pair
<1>7. CASE OtaEnds
  BY <1>7, Pair
<1>8. CASE CloseBegins
  BY <1>8, Pair
<1>9. CASE Closes
  BY <1>9, Pair
<1>10. CASE Connects
  BY <1>10, Pair
<1>11. CASE RestartIntoStaged
  BY <1>11, Pair
<1>12. CASE UNCHANGED vars
  BY <1>12 DEF vars, QueueInv, ProbeInv, PlugInv, RunsItsOwn, AnswersFit
<1>13. QED
  BY <1>1, <1>2, <1>3, <1>4, <1>5, <1>6, <1>7, <1>8, <1>9, <1>10, <1>11, <1>12 DEF Next

\* Whose report a running probe has lost.
LEMMA DisownedStep ==
  ASSUME TypeNames, QueueInv, ProbeInv, DisownedInv, [Next]_vars
  PROVE  DisownedInv'
<1> USE DEF QueueInv, ProbeInv, DisownedInv
<1>0. probeOwned => probeReq \in Ids
  BY DEF TypeNames
<1>1. ASSUME NEW i \in Ids, NEW k \in Asked, Arrives(i, k)
     PROVE  DisownedInv'
  BY <1>1, AskedAssumption, Pair, <1>0
<1>2. CASE RunPending
  <2>1. CASE RunStatus
    BY <2>1, AskedAssumption, Pair
  <2>2. CASE PumpBegins
    BY <2>2, AskedAssumption, Pair
  <2>3. CASE RunProbe
    BY <2>3, AskedAssumption, Pair
  <2>4. CASE RunPlug
    BY <2>4, AskedAssumption, Pair
  <2>5. CASE RunOta
    BY <2>5, AskedAssumption, Pair
  <2>6. QED
    BY <1>2, <2>1, <2>2, <2>3, <2>4, <2>5 DEF RunPending
<1>3. CASE PumpEnds
  BY <1>3, AskedAssumption, Pair
<1>4. CASE ProbeEnds
  BY <1>4, AskedAssumption, Pair
<1>5. CASE PlugGoesOn
  BY <1>5, AskedAssumption, Pair
<1>6. CASE PlugEnds
  BY <1>6, AskedAssumption, Pair
<1>7. CASE OtaEnds
  BY <1>7, AskedAssumption, Pair
<1>8. CASE CloseBegins
  BY <1>8, AskedAssumption, Pair
<1>9. CASE Closes
  BY <1>9, AskedAssumption, Pair
<1>10. CASE Connects
  BY <1>10, AskedAssumption, Pair
<1>11. CASE RestartIntoStaged
  BY <1>11, AskedAssumption, Pair
<1>12. CASE UNCHANGED vars
  BY <1>12 DEF vars, QueueInv, ProbeInv, DisownedInv
<1>13. QED
  BY <1>1, <1>2, <1>3, <1>4, <1>5, <1>6, <1>7, <1>8, <1>9, <1>10, <1>11, <1>12 DEF Next

\* And so each command has somebody to answer it.
LEMMA NobodyStep ==
  ASSUME QueueInv, ProbeInv, PlugInv, SweepInv, RunsItsOwn, QueuedPlugFindsItFree, DisownedInv, NobodyIsForgotten, [Next]_vars
  PROVE  NobodyIsForgotten'
<1> USE DEF QueueInv, ProbeInv, PlugInv, SweepInv, RunsItsOwn, QueuedPlugFindsItFree, DisownedInv, NobodyIsForgotten, HasItsAnswerer, Queued, Probed, Plugged
<1>1. ASSUME NEW i \in Ids, NEW k \in Asked, Arrives(i, k)
     PROVE  NobodyIsForgotten'
  BY <1>1, AskedAssumption, Pair, ZenonT(30)
<1>2. CASE RunPending
  <2>1. CASE RunStatus
    BY <2>1, AskedAssumption, Pair, ZenonT(30)
  <2>2. CASE PumpBegins
    BY <2>2, AskedAssumption, Pair, ZenonT(30)
  <2>3. CASE RunProbe
    BY <2>3, AskedAssumption, Pair, ZenonT(30)
  <2>4. CASE RunPlug
    BY <2>4, AskedAssumption, Pair, ZenonT(30)
  <2>5. CASE RunOta
    BY <2>5, AskedAssumption, Pair, ZenonT(30)
  <2>6. QED
    BY <1>2, <2>1, <2>2, <2>3, <2>4, <2>5 DEF RunPending
<1>3. CASE PumpEnds
  BY <1>3, AskedAssumption, Pair, ZenonT(30)
<1>4. CASE ProbeEnds
  BY <1>4, AskedAssumption, Pair, ZenonT(30)
<1>5. CASE PlugGoesOn
  BY <1>5, AskedAssumption, Pair, ZenonT(30)
<1>6. CASE PlugEnds
  BY <1>6, AskedAssumption, Pair, ZenonT(30)
<1>7. CASE OtaEnds
  BY <1>7, AskedAssumption, Pair, ZenonT(30)
<1>8. CASE CloseBegins
  BY <1>8, AskedAssumption, Pair, ZenonT(30)
<1>9. CASE Closes
  BY <1>9, AskedAssumption, Pair, ZenonT(30)
<1>10. CASE Connects
  BY <1>10, AskedAssumption, Pair, ZenonT(30)
<1>11. CASE RestartIntoStaged
  BY <1>11, AskedAssumption, Pair, ZenonT(30)
<1>12. CASE UNCHANGED vars
  BY <1>12 DEF vars, QueueInv, ProbeInv, PlugInv, SweepInv, RunsItsOwn, QueuedPlugFindsItFree, DisownedInv, NobodyIsForgotten, HasItsAnswerer, Queued, Probed, Plugged
<1>13. QED
  BY <1>1, <1>2, <1>3, <1>4, <1>5, <1>6, <1>7, <1>8, <1>9, <1>10, <1>11, <1>12 DEF Next

(***************************************************************************)
(* The theorems.                                                           *)
(***************************************************************************)
LEMMA TypeParts == TypeOK <=> TypeNames /\ TypeFlags /\ TypeStage
  BY Zenon DEF TypeOK, TypeNames, TypeFlags, TypeStage, DriverTypeOK

LEMMA InitIInv == Init => IInv
<1>1. Init => TypeNames /\ TypeFlags /\ TypeStage
  <2>1. Init => TypeNames
    BY DEF Init, DriverInit, TypeNames
  <2>2. Init => TypeFlags
    BY Zenon DEF Init, DriverInit, TypeFlags
  <2>3. Init => TypeStage
    BY DEF Init, DriverInit, TypeStage
  <2>4. QED
    BY <2>1, <2>2, <2>3
<1>2. Init => QueueInv /\ ProbeInv /\ PlugInv /\ SweepInv
  BY DEF Init, DriverInit, QueueInv, ProbeInv, PlugInv, SweepInv
<1>3. Init => RunsItsOwn /\ QueuedPlugFindsItFree /\ AnswersFit /\ DisownedInv /\ NobodyIsForgotten
  BY DEF Init, DriverInit, RunsItsOwn, QueuedPlugFindsItFree, AnswersFit, DisownedInv, NobodyIsForgotten
<1>4. QED
  BY <1>1, <1>2, <1>3, TypeParts DEF IInv

LEMMA IInvStep == IInv /\ [Next]_vars => IInv'
<1> SUFFICES ASSUME IInv, [Next]_vars
             PROVE  IInv'
  OBVIOUS
<1>1. TypeNames' /\ TypeFlags' /\ TypeStage'
  BY NamesStep, FlagsStep, StageStep, TypeParts DEF IInv
<1>2. TypeOK'
  BY <1>1 DEF TypeOK, TypeNames, TypeFlags, TypeStage, DriverTypeOK
<1>3. QueueInv' /\ ProbeInv' /\ PlugInv' /\ SweepInv'
  BY QueueStep, ProbeStep, PlugStep, SweepStep DEF IInv
<1>4. RunsItsOwn' /\ QueuedPlugFindsItFree' /\ AnswersFit'
  BY OwnStep, FreeStep, AnswersStep DEF IInv
<1>5. DisownedInv' /\ NobodyIsForgotten'
  BY DisownedStep, NobodyStep, TypeParts DEF IInv
<1>6. QED
  BY <1>2, <1>3, <1>4, <1>5 DEF IInv

THEOREM Invariance == Spec => []IInv
  BY InitIInv, IInvStep, PTL DEF Spec

\* TypeOK: every variable of the session's commands has its type.
THEOREM TypeCorrect == Spec => []TypeOK
<1>1. IInv => TypeOK
  BY DEF IInv
<1>2. QED
  BY <1>1, Invariance, PTL

\* AnswersFit: each answer is of a command of that connection, of its type, and its last.
THEOREM EveryAnswerFits == Spec => []AnswersFit
<1>1. IInv => AnswersFit
  BY DEF IInv
<1>2. QED
  BY <1>1, Invariance, PTL

\* RunsItsOwn: what waits or runs has its own parameters.
THEOREM EachRunsItsOwn == Spec => []RunsItsOwn
<1>1. IInv => RunsItsOwn
  BY DEF IInv
<1>2. QED
  BY <1>1, Invariance, PTL

\* QueuedPlugFindsItFree: what was free at the frame is free at the start.
THEOREM TheDriverIsFree == Spec => []QueuedPlugFindsItFree
<1>1. IInv => QueuedPlugFindsItFree
  BY DEF IInv
<1>2. QED
  BY <1>1, Invariance, PTL

\* NobodyIsForgotten: every command accepted has something that will answer it,
\* save a probe that another overtook.
THEOREM NobodyForgotten == Spec => []NobodyIsForgotten
<1>1. IInv => NobodyIsForgotten
  BY DEF IInv
<1>2. QED
  BY <1>1, Invariance, PTL

\* OrphansAreMute: what would answer belongs to the connection that is there, and
\* a probe runs without its command only when another overtook it.
THEOREM MuteOrphans == Spec => []OrphansAreMute
<1>1. IInv => OrphansAreMute
  BY DEF IInv, OrphansAreMute, DisownedInv, ProbeInv, PlugInv, DriverBusy
<1>2. QED
  BY <1>1, Invariance, PTL

===================================================================================
