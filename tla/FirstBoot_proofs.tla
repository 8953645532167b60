---------------------------- MODULE FirstBoot_proofs --------------------------
(***************************************************************************)
(* A device from its box to its network, for every number of slots, phones *)
(* and visits, every length of the deadlines and of the pumps that keep    *)
(* the network join waiting, and every number of faults: the join          *)
(* (NetJoin) first, then the portal (Portal), then the device.             *)
(***************************************************************************)
EXTENDS FirstBoot, SequenceTheorems, TLAPS

-------------------------------------------------------------------------------
(* The network join *)

\* An attempt: the join's deadline comes before DHCP's, and ticks and what is
\* left of DHCP's make up the whole, until it is over and only a pump goes on.
AttemptInv ==
  /\ state = "joining" =>
       /\ timer.join <= timer.dhcp
       /\ timer.dhcp > 0 => since + timer.dhcp = JoinTimeout + DhcpTimeout
       /\ timer.dhcp = 0 => since <= JoinTimeout + DhcpTimeout + late
  /\ state # "joining" => since = 0

\* An association without an address: before the loop has seen it, and after.
AddressInv ==
  /\ state # "joined" => bare = 0
  /\ state = "joined" /\ ~addrLost => bare <= late
  /\ state = "joined" /\ addrLost =>
       /\ bare + timer.grace >= AddrGrace
       /\ timer.grace > 0 => bare + timer.grace <= AddrGrace + MaxPump
       /\ timer.grace = 0 => bare <= AddrGrace + MaxPump + late

IInv == TypeOK /\ AttemptInv /\ AddressInv

-------------------------------------------------------------------------------
(* Time *)

\* A tick takes one from every deadline that has something left.
Passed == [retry |-> Less(timer.retry), join |-> Less(timer.join), dhcp |-> Less(timer.dhcp),
           grace |-> Less(timer.grace), sntp |-> Less(timer.sntp)]

LEMMA LessType == ASSUME NEW n \in Nat
                  PROVE  Less(n) \in Nat /\ (n = 0 => Less(n) = 0) /\ (n > 0 => Less(n) = n - 1)
BY DEF Less

LEMMA SetType ==
  ASSUME timer \in Deadlines, NEW n \in Nat, NEW m \in Nat
  PROVE  /\ [timer EXCEPT !.retry = n] \in Deadlines
         /\ [timer EXCEPT !.grace = n] \in Deadlines
         /\ [timer EXCEPT !.sntp = n] \in Deadlines
         /\ [timer EXCEPT !.join = n, !.dhcp = m] \in Deadlines
BY DEF Deadlines

LEMMA Passing ==
  ASSUME timer \in Deadlines
  PROVE  /\ [d \in DOMAIN timer |-> Less(timer[d])] = Passed
         /\ Passed \in Deadlines
<1>1. DOMAIN timer = {"retry", "join", "dhcp", "grace", "sntp"}
  BY DEF Deadlines
<1>2. [d \in DOMAIN timer |-> Less(timer[d])] = Passed
  BY <1>1 DEF Passed
<1>3. Passed \in Deadlines
  BY LessType DEF Passed, Deadlines
<1>4. QED
  BY <1>2, <1>3

\* An attempt whose deadlines are over is looked at in the next turn.
LEMMA AttemptDue ==
  ASSUME TypeOK, state = "joining", timer.join <= timer.dhcp, timer.dhcp = 0
  PROVE  Due
<1>1. timer.join = 0
  BY DEF TypeOK, Deadlines
<1>2. link \in Refusals \cup {"down", "join", "noip", "up"}
  BY DEF TypeOK, RadioTypeOK, Links
<1>3. QED
  BY <1>1, <1>2 DEF Due, Unaddressed

\* So is an association that has lost its address, when that is first seen and
\* when the grace is over.
LEMMA LossDue ==
  ASSUME TypeOK, state = "joined", addrLost \/ ~addr, addrLost => timer.grace = 0
  PROVE  Due
<1>1. link \in Refusals \cup {"down", "join", "noip", "up"}
  BY DEF TypeOK, RadioTypeOK, Links
<1>2. CASE link # "up"
  BY <1>1, <1>2 DEF Due
<1>3. CASE link = "up" /\ addr
  BY <1>3 DEF Due
<1>4. CASE link = "up" /\ ~addr
  BY <1>4 DEF Due, Bare
<1>5. QED
  BY <1>2, <1>3, <1>4 DEF TypeOK, RadioTypeOK

LEMMA TickStep == ASSUME ConstantsOK, IInv, Tick PROVE IInv'
<1> USE DEF IInv
<1> timer' = Passed /\ Passed \in Deadlines /\ timer \in Deadlines
  BY Passing DEF Tick, TypeOK
<1>1. late' \in 0 .. MaxPump /\ (Due => late' = late + 1)
  BY DEF Tick, TypeOK, ConstantsOK
<1>2. since' \in Nat /\ bare' \in Nat
  BY DEF Tick, TypeOK
<1>3. TypeOK'
  BY <1>1, <1>2 DEF Tick, TypeOK, RadioTypeOK, radio, settings, ConstantsOK
<1>4. AttemptInv'
  <2>1. CASE state = "joining"
    <3>1. since' = since + 1 /\ state' = "joining"
      BY <2>1 DEF Tick
    <3>2. /\ timer.join \in Nat /\ timer.dhcp \in Nat /\ since \in Nat
          /\ JoinTimeout + DhcpTimeout \in Nat
      BY DEF Deadlines, TypeOK, ConstantsOK
    <3>3. /\ timer'.join = IF timer.join = 0 THEN 0 ELSE timer.join - 1
          /\ timer'.dhcp = IF timer.dhcp = 0 THEN 0 ELSE timer.dhcp - 1
      BY DEF Passed, Less
    <3>4. timer.dhcp = 0 => late' = late + 1
      BY <1>1, <2>1, AttemptDue DEF AttemptInv
    <3>5. late \in Nat /\ late' \in Nat
      BY <1>1 DEF TypeOK, ConstantsOK
    <3>6. /\ timer.join <= timer.dhcp
          /\ timer.dhcp > 0 => since + timer.dhcp = JoinTimeout + DhcpTimeout
          /\ timer.dhcp = 0 => since <= JoinTimeout + DhcpTimeout + late
      BY <2>1 DEF AttemptInv
    <3>7. timer'.join <= timer'.dhcp
      BY <3>2, <3>3, <3>6
    <3>8. CASE timer.dhcp = 0
      BY <3>1, <3>2, <3>3, <3>4, <3>5, <3>6, <3>7, <3>8 DEF AttemptInv
    <3>9. CASE timer.dhcp > 0
      <4>1. since' + timer'.dhcp = JoinTimeout + DhcpTimeout
        BY <3>1, <3>2, <3>3, <3>6, <3>9
      <4>2. timer'.dhcp = 0 => since' <= JoinTimeout + DhcpTimeout + late'
        BY <1>2, <3>2, <3>3, <3>5, <4>1
      <4>3. QED
        BY <3>1, <3>7, <4>1, <4>2 DEF AttemptInv
    <3>10. QED
      BY <3>2, <3>8, <3>9
  <2>2. CASE state # "joining"
    BY <2>2 DEF Tick, AttemptInv
  <2>3. QED
    BY <2>1, <2>2
<1>5. AddressInv'
  <2>1. CASE state # "joined" \/ (addr /\ ~addrLost)
    BY <1>1, <2>1 DEF Tick, AddressInv, TypeOK
  <2>2. CASE state = "joined" /\ ~addrLost /\ ~addr
    <3>1. Due
      BY <2>2, LossDue
    <3>2. bare' = bare + 1 /\ state' = "joined" /\ ~addrLost'
      BY <2>2 DEF Tick
    <3>3. QED
      BY <1>1, <2>2, <3>1, <3>2 DEF AddressInv, TypeOK
  <2>3. CASE state = "joined" /\ addrLost
    <3>1. bare' = bare + 1 /\ state' = "joined" /\ addrLost'
      BY <2>3 DEF Tick
    <3>2. /\ timer'.grace = IF timer.grace = 0 THEN 0 ELSE timer.grace - 1
          /\ timer.grace \in Nat
      BY DEF Passed, Less, Deadlines
    <3>3. timer.grace = 0 => late' = late + 1
      BY <1>1, <2>3, LossDue
    <3>4. late \in Nat /\ late' \in Nat /\ bare \in Nat /\ AddrGrace + MaxPump \in Nat
      BY <1>1 DEF TypeOK, ConstantsOK
    <3>5. /\ bare + timer.grace >= AddrGrace
          /\ timer.grace > 0 => bare + timer.grace <= AddrGrace + MaxPump
          /\ timer.grace = 0 => bare <= AddrGrace + MaxPump + late
      BY <2>3 DEF AddressInv
    <3>6. CASE timer.grace = 0
      <4>1. timer'.grace = 0
        BY <3>2, <3>6
      <4>2. bare' + timer'.grace >= AddrGrace
        <5>1. AddrGrace \in Nat
          BY DEF ConstantsOK
        <5>2. QED
          BY <3>1, <3>4, <3>5, <3>6, <4>1, <5>1
      <4>3. bare' <= AddrGrace + MaxPump + late'
        BY <3>1, <3>3, <3>4, <3>5, <3>6
      <4>4. QED
        BY <3>1, <4>1, <4>2, <4>3 DEF AddressInv
    <3>7. CASE timer.grace > 0
      <4>1. timer'.grace = timer.grace - 1
        BY <3>2, <3>7
      <4>2. bare' + timer'.grace = bare + timer.grace
        BY <3>1, <3>2, <3>4, <4>1
      <4>3. timer'.grace = 0 => bare' <= AddrGrace + MaxPump + late'
        BY <1>2, <3>1, <3>2, <3>4, <3>5, <3>7, <4>1
      <4>4. QED
        BY <3>1, <3>5, <3>7, <4>2, <4>3 DEF AddressInv
    <3>8. QED
      BY <3>2, <3>6, <3>7
  <2>4. QED
    BY <2>1, <2>2, <2>3 DEF TypeOK, RadioTypeOK
<1>6. QED
  BY <1>3, <1>4, <1>5

-------------------------------------------------------------------------------
(* The loop *)

\* A failure ends the attempt and the association, whatever its window.
LEMMA ScheduleRetryType ==
  ASSUME ConstantsOK, TypeOK, NEW why, NEW window \in MinBackoff .. MaxBackoff,
         ScheduleRetry(why, window)
  PROVE  /\ state' = "failed" /\ since' = 0 /\ bare' = 0 /\ lastError' = why
         /\ timer' \in Deadlines /\ backoff' \in MinBackoff .. MaxBackoff
<1>1. \A delay \in Jittered(window) : delay \in Nat
  BY DEF Jittered, ConstantsOK
<1>2. timer' \in Deadlines
  BY <1>1 DEF ScheduleRetry, TypeOK, Deadlines
<1>3. Widened(window) \in MinBackoff .. MaxBackoff
  BY DEF Widened, ConstantsOK
<1>4. QED
  BY <1>2, <1>3 DEF ScheduleRetry

LEMMA FailureStep ==
  ASSUME ConstantsOK, IInv,
         ConnectFails \/ Refused \/ DhcpExpires \/ JoinExpires \/ LinkLost \/ AddrExpires
  PROVE  IInv'
<1> USE DEF IInv
<1>1. PICK why \in Failures, window \in {backoff, MinBackoff} : ScheduleRetry(why, window)
  BY DEF ConnectFails, Refused, DhcpExpires, JoinExpires, LinkLost, AddrExpires, Failures
<1>2. window \in MinBackoff .. MaxBackoff
  BY <1>1 DEF TypeOK, ConstantsOK
<1>3. /\ state' = "failed" /\ since' = 0 /\ bare' = 0 /\ lastError' = why
      /\ timer' \in Deadlines /\ backoff' \in MinBackoff .. MaxBackoff
  BY <1>1, <1>2, ScheduleRetryType
<1>4. late' = 0 /\ UNCHANGED <<settings, clock, sntp, warned>>
  BY DEF ConnectFails, Refused, DhcpExpires, JoinExpires, LinkLost, AddrExpires, Turn
<1>5. RadioTypeOK'
  <2>1. UNCHANGED radio \/ Leave
    BY DEF ConnectFails, Refused, DhcpExpires, JoinExpires, LinkLost, AddrExpires
  <2>2. faults' \in 0 .. MaxFaults
    BY DEF TypeOK, RadioTypeOK, Turn, ConstantsOK, ConnectFails, Refused, DhcpExpires, JoinExpires,
           LinkLost, AddrExpires
  <2>3. QED
    BY <2>1, <2>2 DEF TypeOK, RadioTypeOK, Links, radio, Leave
<1>6. attempt' \in 0 .. 2
  <2>1. NextRung \in 0 .. 2
    BY DEF NextRung, TypeOK
  <2>2. QED
    BY <2>1 DEF TypeOK, ConnectFails, Refused, DhcpExpires, JoinExpires, LinkLost, AddrExpires
<1>7. addrLost' \in BOOLEAN
  BY DEF TypeOK, ConnectFails, Refused, DhcpExpires, JoinExpires, LinkLost, AddrExpires
<1>8. TypeOK'
  BY <1>3, <1>4, <1>5, <1>6, <1>7 DEF TypeOK, settings, ConstantsOK, Failures
<1>9. QED
  BY <1>3, <1>8 DEF AttemptInv, AddressInv

LEMMA StartStep == ASSUME ConstantsOK, IInv, Start PROVE IInv'
<1> USE DEF IInv, Start, Turn, history
<1>1. timer \in Deadlines /\ timer' \in Deadlines
  BY SetType DEF TypeOK
<1>2. TypeOK'
  BY <1>1 DEF ConstantsOK, TypeOK, RadioTypeOK, radio, settings
<1>3. QED
  BY <1>2 DEF AttemptInv, AddressInv

LEMMA BeginStep == ASSUME ConstantsOK, IInv, BeginJoin PROVE IInv'
<1> USE DEF IInv, BeginJoin, Turn
<1>1. timer \in Deadlines /\ JoinTimeout \in Nat \ {0} /\ JoinTimeout + DhcpTimeout \in Nat
  BY DEF TypeOK, ConstantsOK
<1>2. timer' \in Deadlines
  BY <1>1, SetType
<1>3. RadioTypeOK'
  BY DEF Dial, TypeOK, RadioTypeOK, Links
<1>4. TypeOK'
  BY <1>2, <1>3 DEF ConstantsOK, TypeOK, settings
<1>5. timer'.join = JoinTimeout /\ timer'.dhcp = JoinTimeout + DhcpTimeout
  BY <1>1 DEF Deadlines
<1>6. JoinTimeout <= JoinTimeout + DhcpTimeout /\ JoinTimeout + DhcpTimeout > 0
  BY DEF ConstantsOK
<1>7. AttemptInv'
  BY <1>1, <1>5, <1>6 DEF AttemptInv
<1>8. AddressInv'
  BY DEF AddressInv
<1>9. QED
  BY <1>4, <1>7, <1>8

LEMMA JoinedStep == ASSUME ConstantsOK, IInv, Joined PROVE IInv'
<1> USE DEF IInv, ConstantsOK, Joined, Turn, StartSntpOnce
<1>1. timer' \in Deadlines /\ warned' \in BOOLEAN
  BY DEF TypeOK, Deadlines
<1>2. RadioTypeOK'
  BY DEF TypeOK, RadioTypeOK, radio
<1>3. MinBackoff \in MinBackoff .. MaxBackoff /\ 0 \in 0 .. MaxPump
  OBVIOUS
<1>4. TypeOK'
  BY <1>1, <1>2, <1>3 DEF TypeOK, settings
<1>5. QED
  BY <1>4 DEF AttemptInv, AddressInv

LEMMA AddressStep == ASSUME ConstantsOK, IInv, AddrGone \/ Settles PROVE IInv'
<1> USE DEF IInv, ConstantsOK, Turn
<1>1. timer' \in Deadlines
  BY DEF AddrGone, Settles, TypeOK, Deadlines
<1>2. TypeOK'
  <2>1. RadioTypeOK' /\ UNCHANGED <<settings, clock, state, attempt, backoff, sntp, since>>
    BY DEF AddrGone, Settles, TypeOK, RadioTypeOK, radio, history
  <2>2. lastError' \in Failures \cup {"none", "sntp_timeout"} /\ addrLost' \in BOOLEAN
    BY DEF AddrGone, Settles, LossOnceAddressed, Withdrawn, TypeOK
  <2>3. warned' \in BOOLEAN
    BY DEF AddrGone, Settles, TypeOK
  <2>4. late' \in 0 .. MaxPump /\ bare' \in Nat
    BY DEF AddrGone, Settles, TypeOK, history
  <2>5. QED
    BY <1>1, <2>1, <2>2, <2>3, <2>4 DEF TypeOK, settings
<1>3. AttemptInv'
  BY DEF AddrGone, Settles, Bare, AttemptInv, TypeOK, Deadlines, history
<1>4. AddressInv'
  <2>1. CASE AddrGone
    <3>1. timer'.grace = AddrGrace /\ bare' = bare /\ bare \in 0 .. MaxPump /\ state' = "joined"
      BY <2>1 DEF AddrGone, Bare, AddressInv, TypeOK, Deadlines, history
    <3>2. QED
      BY <2>1, <3>1 DEF AddrGone, AddressInv
  <2>2. CASE Settles
    BY <2>2 DEF Settles, LossOnceAddressed, AddressInv, TypeOK
  <2>3. QED
    BY <2>1, <2>2
<1>5. QED
  BY <1>2, <1>3, <1>4

-------------------------------------------------------------------------------
(* The surroundings, which no invariant but the types speaks of *)

LEMMA AroundStep == ASSUME ConstantsOK, IInv, Radios \/ ClockSet PROVE IInv'
<1> USE DEF IInv, ConstantsOK
<1>1. RadioTypeOK'
  <2>1. CASE ClockSet
    BY <2>1 DEF ClockSet, TypeOK, RadioTypeOK, radio
  <2>2. CASE Radios
    <3>1. Surroundings(AuthToCyw43, psk = "right")
      BY <2>2 DEF Radios, Within
    <3>2. faults' \in 0 .. MaxFaults
      BY <3>1 DEF Surroundings, Associates, Refuses, Leased, AddressGoes, LinkBreaks, AirChanges,
                  TypeOK, RadioTypeOK
    <3>3. link' \in Links
      BY <3>1 DEF Surroundings, Associates, Refuses, Leased, AddressGoes, LinkBreaks, AirChanges,
                  TypeOK, RadioTypeOK, Links, Refusals
    <3>4. air' \in BOOLEAN /\ addr' \in BOOLEAN /\ accepts' \subseteq Modes
      BY <3>1 DEF Surroundings, Associates, Refuses, Leased, AddressGoes, LinkBreaks, AirChanges,
                  TypeOK, RadioTypeOK
    <3>5. QED
      BY <3>2, <3>3, <3>4 DEF RadioTypeOK
  <2>3. QED
    BY <2>1, <2>2
<1>2. UNCHANGED <<settings, state, attempt, backoff, timer, addrLost, lastError, sntp, warned, late,
                  history>> /\ clock' \in BOOLEAN
  BY DEF Radios, Within, ClockSet, TypeOK
<1>3. QED
  BY <1>1, <1>2 DEF TypeOK, AttemptInv, AddressInv, settings, history

LEMMA InitInv == ASSUME ConstantsOK PROVE Init => IInv
<1> SUFFICES ASSUME Init PROVE IInv
  OBVIOUS
<1>1. RadioTypeOK
  <2>1. faults \in 0 .. MaxFaults
    BY DEF Init, ConstantsOK
  <2>2. QED
    BY <2>1 DEF Init, RadioTypeOK, Links
<1>2. timer \in Deadlines
  BY DEF Init, Rest, Deadlines
<1>3. TypeOK
  <2>1. backoff \in MinBackoff .. MaxBackoff /\ late \in 0 .. MaxPump
    BY DEF Init, Rest, ConstantsOK
  <2>2. psk \in {"right", "wrong"} /\ auth \in Modes \cup {"auto"} /\ clock \in BOOLEAN
    BY DEF Init, Modes
  <2>3. /\ state = "idle" /\ attempt = 0 /\ addrLost = FALSE /\ lastError = "none"
        /\ sntp = FALSE /\ warned = FALSE /\ since = 0 /\ bare = 0
    BY DEF Init, Rest
  <2>4. /\ state \in {"idle", "joining", "joined", "failed"} /\ attempt \in 0 .. 2
        /\ lastError \in Failures \cup {"none", "sntp_timeout"}
        /\ since \in Nat /\ bare \in Nat
    BY <2>3
  <2>5. addrLost \in BOOLEAN /\ sntp \in BOOLEAN /\ warned \in BOOLEAN
    BY <2>3
  <2>6. QED
    BY <1>1, <1>2, <2>1, <2>2, <2>4, <2>5 DEF TypeOK
<1>4. AttemptInv /\ AddressInv
  BY DEF ConstantsOK, Init, Rest, AttemptInv, AddressInv
<1>5. QED
  BY <1>3, <1>4 DEF IInv

LEMMA StepInv == ASSUME ConstantsOK PROVE IInv /\ [Next]_vars => IInv'
<1> SUFFICES ASSUME IInv, [Next]_vars PROVE IInv'
  OBVIOUS
<1>1. CASE Start \/ BeginJoin
  BY <1>1, StartStep, BeginStep
<1>2. CASE ConnectFails \/ Refused \/ DhcpExpires \/ JoinExpires \/ LinkLost \/ AddrExpires
  BY <1>2, FailureStep
<1>3. CASE Joined
  BY <1>3, JoinedStep
<1>4. CASE AddrGone \/ Settles
  BY <1>4, AddressStep
<1>5. CASE Tick
  BY <1>5, TickStep
<1>6. CASE Radios \/ ClockSet
  BY <1>6, AroundStep
<1>7. CASE UNCHANGED vars
  BY <1>7 DEF vars, radio, settings, history, IInv, TypeOK, RadioTypeOK, AttemptInv, AddressInv
<1>8. QED
  BY <1>1, <1>2, <1>3, <1>4, <1>5, <1>6, <1>7 DEF Next, Task

LEMMA Invariant == ASSUME ConstantsOK PROVE Spec => []IInv
<1>1. Init => IInv
  BY InitInv
<1>2. IInv /\ [Next]_vars => IInv'
  BY StepInv
<1>3. QED
  BY <1>1, <1>2, PTL DEF Spec

-------------------------------------------------------------------------------
\* Every variable keeps its type (net.c's statics).
THEOREM TypeCorrect == ASSUME ConstantsOK PROVE Spec => []TypeOK
<1>1. IInv => TypeOK
  BY DEF IInv
<1>2. QED
  BY <1>1, Invariant, PTL

\* An attempt ends within its two deadlines and the pump that is under way when
\* they are over; an association without an address within its grace and the
\* pumps at either end (rw_net_task).
THEOREM NothingStallsEver == ASSUME ConstantsOK PROVE Spec => []NothingStalls
<1>1. IInv => NothingStalls
  BY DEF IInv, AttemptInv, AddressInv, TypeOK, Deadlines, NothingStalls, ConstantsOK
<1>2. QED
  BY <1>1, Invariant, PTL

GraceDone == link # "up" \/ (~addr /\ bare >= AddrGrace)

LEMMA GraceStep == ASSUME ConstantsOK, IInv, [Next]_vars, GivenUp PROVE GraceDone
<1>1. state = "joined" /\ state' = "failed"
  BY DEF GivenUp
<1>2. \/ state' \in {"joining", "joined"} \/ UNCHANGED state
      \/ state # "joined" \/ link # "up" \/ AddrExpires
  BY DEF Next, vars, Start, Task, BeginJoin, ConnectFails, Refused, Refusals, Joined, DhcpExpires,
         JoinExpires, LinkLost, AddrGone, Settles, Tick, Radios, Within, ClockSet
<1>3. CASE AddrExpires
  <2>1. state = "joined" /\ ~addr /\ addrLost /\ timer.grace = 0
    BY <1>3 DEF AddrExpires, Bare
  <2>2. bare + timer.grace >= AddrGrace
    BY <2>1 DEF IInv, AddressInv
  <2>3. QED
    BY <2>1, <2>2 DEF GraceDone, IInv, TypeOK, ConstantsOK
<1>4. QED
  BY <1>1, <1>2, <1>3 DEF GraceDone

\* A joined device whose link is up joins again only when it has been without an
\* address for the whole of the grace, by whichever of the branches
\* (rw_net_task).
THEOREM WholeGrace == ASSUME ConstantsOK PROVE Spec => GraceIsWhole
<1>1. IInv /\ [Next]_vars => [GivenUp => GraceDone]_vars
  BY GraceStep
<1>2. QED
  BY <1>1, Invariant, PTL DEF Spec, GraceIsWhole, GraceDone

-------------------------------------------------------------------------------
(* The portal *)

WebType ==
  /\ slot \in [Setup!Slots -> Setup!Served]
  /\ conn \in [Setup!Conns -> Setup!Visitors]
  /\ inside \in Seq(Setup!Underway)

\* What a slot holds of the connection it serves.
Serves(r, c) ==
  /\ c.st \in {"open", "left"}
  /\ r.reply \in {"none", c.ask} \/ (c.crossed /\ r.reply = "scan")
  /\ r.sent > 0 => r.reply # "none" /\ (r.handled \/ c.crossed)
  /\ r.acked <= r.sent

SlotInv == \A s \in Setup!Slots : slot[s].pcb # 0 => Serves(slot[s], conn[slot[s].pcb])

\* No connection has two slots.
OwnerInv == \A s, t \in Setup!Slots : slot[s].pcb # 0 /\ slot[t].pcb = slot[s].pcb => t = s

\* The connection that asked for a scan has been made; while it has the slot its
\* request is taken.
Asker(a, v, r) ==
  /\ v.st # "new"
  /\ r.pcb = a => r.handled /\ v.ask = "scan"

ScanInv ==
  \A i \in DOMAIN inside :
    Asker(inside[i].asker, conn[inside[i].asker], slot[inside[i].slot])

WebInv == WebType /\ SlotInv /\ OwnerInv /\ ScanInv /\ AnswersFit

JoinType ==
  /\ Setup!RadioTypeOK
  /\ up \in BOOLEAN /\ reboot \in BOOLEAN
  /\ join \in Setup!Results \cup {"idle", "pending", "running"}
  /\ {joinKey, dialled, saved} \subseteq Setup!Keys \cup {"none"}
  /\ stage \in [wifi : Setup!Keys \cup {"none"}, dirty : BOOLEAN]
  /\ active \in BOOLEAN
  /\ proven \subseteq Setup!Keys

\* The radio is the portal's while an attempt runs, which is for the network it
\* was asked for; and only what came of one is staged and saved.
JoinInv ==
  /\ join \in {"pending", "running"} => joinKey # "none"
  /\ join = "running" => dialled = joinKey
  /\ join # "running" => link = "down"
  /\ addr => link = "up"
  /\ {stage.wifi, saved} \subseteq proven \cup {"none"}

SetupInv == WebInv /\ JoinType /\ JoinInv

LEMMA SetupTypes == SetupInv => Setup!TypeOK
BY DEF SetupInv, WebInv, WebType, JoinType, Setup!TypeOK

-------------------------------------------------------------------------------
(* Connections and slots *)

LEMMA OverType ==
  /\ Setup!Over \in Setup!Visitors /\ Setup!Over.st = "over"
  /\ Setup!Over.ask = "none" /\ Setup!Over.told = "none" /\ ~Setup!Over.crossed
<1>1. Setup!Over = [st |-> "over", ask |-> "none", told |-> "none", got |-> 0, crossed |-> FALSE]
  BY DEF Setup!Over
<1>2. ~Setup!Over.crossed
  BY <1>1, Zenon
<1>3. Setup!Over \in Setup!Visitors
  BY <1>1 DEF Setup!Visitors, Setup!Pieces
<1>4. QED
  BY <1>1, <1>2, <1>3

LEMMA AllocatedType ==
  ASSUME NEW c \in Setup!Conns
  PROVE  /\ Setup!Allocated(c) \in Setup!Served
         /\ Setup!Allocated(c).pcb = c /\ Setup!Allocated(c).reply = "none"
         /\ Setup!Allocated(c).sent = 0 /\ Setup!Allocated(c).acked = 0
<1>1. Setup!Free \in Setup!Served
  BY DEF Setup!Free, Setup!Served, Setup!Pieces
<1>2. Setup!Free.reply = "none" /\ Setup!Free.sent = 0 /\ Setup!Free.acked = 0
  BY DEF Setup!Free
<1>3. Setup!Allocated(c) = [Setup!Free EXCEPT !.pcb = c]
  BY DEF Setup!Allocated
<1>4. QED
  BY <1>1, <1>2, <1>3 DEF Setup!Served

\* A slot that has sent and been acknowledged more.
Advanced(r, acked, sent) == [r EXCEPT !.acked = acked, !.sent = sent]

LEMMA AdvancedType ==
  ASSUME NEW r \in Setup!Served, NEW acked \in 0 .. Setup!Pieces, NEW sent \in 0 .. Setup!Pieces
  PROVE  /\ Advanced(r, acked, sent) \in Setup!Served
         /\ Advanced(r, acked, sent).pcb = r.pcb
         /\ Advanced(r, acked, sent).handled = r.handled
         /\ Advanced(r, acked, sent).reply = r.reply
         /\ Advanced(r, acked, sent).sent = sent
         /\ Advanced(r, acked, sent).acked = acked
BY DEF Advanced, Setup!Served

\* A slot that has been given its answer.
Answering(r, what) == [r EXCEPT !.handled = TRUE, !.reply = what, !.sent = 1, !.acked = 0]

LEMMA AnsweringType ==
  ASSUME NEW r \in Setup!Served, NEW what \in Setup!Asks
  PROVE  /\ Answering(r, what) \in Setup!Served
         /\ Answering(r, what).pcb = r.pcb
         /\ Answering(r, what).handled = TRUE
         /\ Answering(r, what).reply = what
         /\ Answering(r, what).sent = 1
         /\ Answering(r, what).acked = 0
<1>1. 1 \in 0 .. Setup!Pieces /\ 0 \in 0 .. Setup!Pieces
  BY DEF Setup!Pieces
<1>2. Answering(r, what) \in Setup!Served
  BY <1>1 DEF Answering, Setup!Served
<1>3. QED
  BY <1>2 DEF Answering, Setup!Served

\* A connection that has been told something.
Heard(v, told, got, st) == [v EXCEPT !.told = told, !.got = got, !.st = st]

LEMMA HeardIs ==
  ASSUME NEW v \in Setup!Visitors, NEW told \in Setup!Asks \cup {"none"},
         NEW got \in 0 .. Setup!Pieces, NEW st \in {"new", "open", "left", "served", "over"},
         NEW w, w = Heard(v, told, got, st)
  PROVE  /\ w \in Setup!Visitors /\ w.ask = v.ask /\ w.told = told /\ w.got = got
         /\ w.st = st /\ w.crossed = v.crossed
BY DEF Heard, Setup!Visitors

\* What a slot and its connection are to each other.
LEMMA Holding ==
  ASSUME WebInv, NEW s \in Setup!Slots, slot[s].pcb # 0
  PROVE  /\ slot[s].pcb \in Setup!Conns
         /\ slot[s] \in Setup!Served
         /\ conn[slot[s].pcb] \in Setup!Visitors
         /\ Serves(slot[s], conn[slot[s].pcb])
<1>1. slot[s] \in Setup!Served
  BY DEF WebInv, WebType
<1>2. slot[s].pcb \in Setup!Conns
  BY <1>1 DEF Setup!Served
<1>3. QED
  BY <1>1, <1>2 DEF WebInv, WebType, SlotInv

LEMMA Others ==
  ASSUME WebInv, NEW s \in Setup!Slots, slot[s].pcb # 0
  PROVE  \A t \in Setup!Slots : t # s => slot[t].pcb # slot[s].pcb
BY DEF WebInv, OwnerInv

LEMMA ElementType == ASSUME NEW S, NEW q \in Seq(S), NEW i \in DOMAIN q PROVE q[i] \in S
OBVIOUS

LEMMA ScansHaveSlots ==
  ASSUME WebInv, NEW i \in DOMAIN inside
  PROVE  inside[i].slot \in Setup!Slots /\ inside[i].asker \in Setup!Conns
<1>1. inside[i] \in Setup!Underway
  BY ElementType DEF WebInv, WebType
<1>2. QED
  BY <1>1 DEF Setup!Underway

\* Slot s comes to hold r, connection c to be v.
Becomes(s, r, c, v) == slot' = [slot EXCEPT ![s] = r] /\ conn' = [conn EXCEPT ![c] = v]

\* What a connection has been told is right.
Told(v) ==
  IF v.crossed THEN v.told \in {"none", v.ask, "scan"}
  ELSE /\ v.told \in {"none", v.ask}
       /\ v.st = "served" => v.told = v.ask /\ v.got = Setup!Pieces

LEMMA AllAreTold ==
  ASSUME WebInv, NEW c \in Setup!Conns
  PROVE  Told(conn[c])
BY DEF WebInv, AnswersFit, Setup!AnswersFit, Told

\* The scans under way after a step of slot s, which then holds r for v, that is
\* for connection c: those of before, and perhaps one of c.
ScansKept(s, r, c, v) ==
  /\ inside' \in Seq(Setup!Underway)
  /\ v.st # "new"
  /\ \A i \in DOMAIN inside' :
       /\ \/ \E j \in DOMAIN inside : /\ inside[j].slot = inside'[i].slot
                                     /\ inside[j].asker = inside'[i].asker
          \/ inside'[i].slot = s /\ inside'[i].asker = c
       /\ inside'[i].slot = s /\ inside'[i].asker = c /\ r.pcb = c => r.handled /\ v.ask = "scan"

\* A slot that takes a step of its own: the others stay as they are, so does
\* every connection but its own.
LEMMA OneSlot ==
  ASSUME WebInv, NEW s \in Setup!Slots, NEW r \in Setup!Served, NEW c \in Setup!Conns,
         NEW v \in Setup!Visitors,
         Becomes(s, r, c, v), Told(v), ScansKept(s, r, c, v),
         \A t \in Setup!Slots : t # s => slot[t].pcb # c,
         r.pcb # 0 => r.pcb = c /\ Serves(r, v)
  PROVE  WebInv'
<1>1. /\ slot'[s] = r /\ \A t \in Setup!Slots : t # s => slot'[t] = slot[t]
      /\ conn'[c] = v /\ \A d \in Setup!Conns : d # c => conn'[d] = conn[d]
  BY DEF WebInv, WebType, Becomes
<1>2. WebType'
  BY DEF WebInv, WebType, ScansKept, Becomes
<1>3. SlotInv'
  <2> SUFFICES ASSUME NEW t \in Setup!Slots, slot'[t].pcb # 0
               PROVE  Serves(slot'[t], conn'[slot'[t].pcb])
    BY DEF SlotInv
  <2>1. CASE t = s
    BY <1>1, <2>1
  <2>2. CASE t # s
    BY <1>1, <2>2, Holding
  <2>3. QED
    BY <2>1, <2>2
<1>4. OwnerInv'
  <2> SUFFICES ASSUME NEW t \in Setup!Slots, NEW u \in Setup!Slots, slot'[t].pcb # 0,
                      slot'[u].pcb = slot'[t].pcb
               PROVE  u = t
    BY DEF OwnerInv
  <2>1. t # s /\ u # s => u = t
    BY <1>1 DEF WebInv, OwnerInv
  <2>2. QED
    BY <1>1, <2>1
<1>5. ScanInv'
  <2> SUFFICES ASSUME NEW i \in DOMAIN inside'
               PROVE  Asker(inside'[i].asker, conn'[inside'[i].asker], slot'[inside'[i].slot])
    BY DEF ScanInv
  <2> DEFINE a == inside'[i].asker
             t == inside'[i].slot
  <2>1. a \in Setup!Conns /\ t \in Setup!Slots
    <3>1. inside'[i] \in Setup!Underway
      BY ElementType DEF ScansKept
    <3>2. QED
      BY <3>1 DEF Setup!Underway
  <2>2. \/ a = c /\ t = s
        \/ conn[a].st # "new" /\ (slot[t].pcb = a => slot[t].handled /\ conn[a].ask = "scan")
    BY DEF ScansKept, WebInv, ScanInv, Asker
  <2>3. v.st # "new" /\ (t = s /\ a = c /\ r.pcb = c => r.handled /\ v.ask = "scan")
    BY DEF ScansKept
  <2> HIDE DEF a, t
  <2>4. conn'[a].st # "new"
    BY <1>1, <2>1, <2>2, <2>3
  <2>5. ASSUME slot'[t].pcb = a
        PROVE  slot'[t].handled /\ conn'[a].ask = "scan"
    <3>1. CASE t = s
      <4>1. r.pcb = a /\ a # 0
        BY <1>1, <2>1, <2>5, <3>1 DEF Setup!Conns
      <4>2. a = c
        BY <4>1
      <4>3. QED
        BY <1>1, <2>3, <3>1, <4>1, <4>2
    <3>2. CASE t # s
      <4>1. slot[t].pcb = a /\ a # c
        BY <1>1, <2>1, <2>5, <3>2
      <4>2. QED
        BY <1>1, <2>1, <2>2, <3>2, <4>1
    <3>3. QED
      BY <3>1, <3>2
  <2>6. QED
    BY <2>4, <2>5 DEF Asker, a, t
<1>6. AnswersFit'
  BY <1>1 DEF WebInv, AnswersFit, Setup!AnswersFit, Told
<1>7. QED
  BY <1>2, <1>3, <1>4, <1>5, <1>6 DEF WebInv

\* A connection that has no slot, or has one and only moves in it.
LEMMA OnlyConn ==
  ASSUME WebInv, UNCHANGED <<slot, inside>>, NEW c \in Setup!Conns, NEW v \in Setup!Visitors,
         conn' = [conn EXCEPT ![c] = v],
         \A t \in Setup!Slots : slot[t].pcb = c =>
           v.st \in {"open", "left"} /\ v.ask = conn[c].ask /\ v.crossed = conn[c].crossed,
         v.st # "new", Told(v)
  PROVE  WebInv'
<1>1. /\ conn'[c] = v /\ \A d \in Setup!Conns : d # c => conn'[d] = conn[d]
      /\ slot' = slot /\ inside' = inside
  BY DEF WebInv, WebType
<1>2. WebType' /\ OwnerInv'
  BY DEF WebInv, WebType, OwnerInv
<1>3. SlotInv'
  <2> SUFFICES ASSUME NEW t \in Setup!Slots, slot[t].pcb # 0
               PROVE  Serves(slot[t], conn'[slot[t].pcb])
    BY <1>1 DEF SlotInv
  <2>1. CASE slot[t].pcb = c
    BY <1>1, <2>1, Holding DEF Serves
  <2>2. CASE slot[t].pcb # c
    BY <1>1, <2>2, Holding
  <2>3. QED
    BY <2>1, <2>2
<1>4. ScanInv'
  <2> SUFFICES ASSUME NEW i \in DOMAIN inside
               PROVE  Asker(inside[i].asker, conn'[inside[i].asker], slot[inside[i].slot])
    BY <1>1 DEF ScanInv
  <2>1. /\ inside[i].slot \in Setup!Slots /\ inside[i].asker \in Setup!Conns
        /\ Asker(inside[i].asker, conn[inside[i].asker], slot[inside[i].slot])
    BY ScansHaveSlots DEF WebInv, ScanInv
  <2>2. CASE inside[i].asker = c
    BY <1>1, <2>1, <2>2 DEF Asker
  <2>3. CASE inside[i].asker # c
    BY <1>1, <2>1, <2>3
  <2>4. QED
    BY <2>2, <2>3
<1>5. AnswersFit'
  BY <1>1 DEF WebInv, AnswersFit, Setup!AnswersFit, Told
<1>6. QED
  BY <1>2, <1>3, <1>4, <1>5 DEF WebInv

LEMMA WebUntouched ==
  ASSUME WebInv, UNCHANGED <<slot, conn, inside>>
  PROVE  WebInv'
BY DEF WebInv, WebType, SlotInv, OwnerInv, ScanInv, AnswersFit, Setup!AnswersFit

\* Scans stay as they are, and slot s keeps its connection, or has a new one.
LEMMA SameScans ==
  ASSUME WebInv, inside' = inside, NEW s \in Setup!Slots, NEW r, NEW c, NEW v, v.st # "new",
         \/ conn[c].st = "new"
         \/ r.pcb # c
         \/ slot[s].pcb = c /\ (slot[s].handled => r.handled) /\ v.ask = conn[c].ask
  PROVE  ScansKept(s, r, c, v)
<1>1. \A i \in DOMAIN inside : Asker(inside[i].asker, conn[inside[i].asker], slot[inside[i].slot])
  BY DEF WebInv, ScanInv
<1>2. QED
  BY <1>1 DEF WebInv, WebType, ScansKept, Asker

\* A connection is made.
LEMMA AcceptStep ==
  ASSUME WebInv, NEW c \in Setup!Conns, Setup!Accept(c)
  PROVE  WebInv'
<1>1. /\ conn[c].st = "new" /\ inside' = inside
      /\ conn \in [Setup!Conns -> Setup!Visitors]
      /\ slot \in [Setup!Slots -> Setup!Served]
      /\ conn[c] \in Setup!Visitors
  BY DEF Setup!Accept, Setup!scans, WebInv, WebType
<1>2. \A t \in Setup!Slots : slot[t].pcb # c
  BY <1>1, Holding DEF Serves, Setup!Conns
<1>3. CASE UNCHANGED slot /\ conn' = [conn EXCEPT ![c] = Setup!Over]
  BY <1>1, <1>2, <1>3, OverType, OnlyConn DEF Told
<1>4. ASSUME NEW s \in Setup!Slots, slot[s].pcb = 0,
             slot' = [slot EXCEPT ![s] = Setup!Allocated(c)],
             conn' = [conn EXCEPT ![c].st = "open"]
      PROVE  WebInv'
  <2> DEFINE r == Setup!Allocated(c)
             v == [conn[c] EXCEPT !.st = "open"]
  <2>1. Becomes(s, r, c, v)
    BY <1>4 DEF Becomes
  <2>2. /\ r \in Setup!Served /\ r.pcb = c /\ r.reply = "none" /\ r.sent = 0 /\ r.acked = 0
    BY AllocatedType
  <2>3. v \in Setup!Visitors /\ v.st = "open" /\ v.ask = conn[c].ask /\ v.told = conn[c].told /\ v.crossed = conn[c].crossed
    BY <1>1 DEF Setup!Visitors
  <2> HIDE DEF r, v
  <2>4. Serves(r, v)
    BY <2>2, <2>3 DEF Serves
  <2>5. ScansKept(s, r, c, v)
    BY <1>1, <2>3, SameScans
  <2>6. Told(v)
    BY <2>3, AllAreTold DEF Told
  <2>7. QED
    BY <1>2, <2>1, <2>2, <2>3, <2>4, <2>5, <2>6, OneSlot
<1>5. QED
  BY <1>3, <1>4 DEF Setup!Accept, Setup!FirstFree, Setup!FreeSlots

\* The next piece, or the end of the answer.
LEMMA SentStep ==
  ASSUME WebInv, NEW s \in Setup!Slots, Setup!Sent(s)
  PROVE  WebInv'
<1> DEFINE c == slot[s].pcb
           acked == slot[s].acked + 1
           r == IF Setup!Finished(acked) THEN Setup!Free
                ELSE Advanced(slot[s], acked, acked + 1)
           st == IF Setup!Finished(acked) THEN "served" ELSE "open"
           v == Heard(conn[c], slot[s].reply, acked, st)
<1>1. /\ c # 0 /\ conn[c].st = "open" /\ slot[s].acked < slot[s].sent /\ inside' = inside
      /\ slot' = IF Setup!Finished(acked) THEN [slot EXCEPT ![s] = Setup!Free]
                 ELSE [slot EXCEPT ![s].acked = acked, ![s].sent = acked + 1]
      /\ conn' = [conn EXCEPT ![c].told = slot[s].reply, ![c].got = acked,
                              ![c].st = IF Setup!Finished(acked) THEN "served" ELSE @]
  BY DEF Setup!Sent, Setup!Closed, Setup!scans
<1>2. /\ c \in Setup!Conns /\ slot[s] \in Setup!Served /\ conn[c] \in Setup!Visitors
      /\ Serves(slot[s], conn[c])
  BY <1>1, Holding
<1>3. /\ slot \in [Setup!Slots -> Setup!Served] /\ conn \in [Setup!Conns -> Setup!Visitors]
  BY DEF WebInv, WebType
<1>4. slot[s].acked \in {0, 1} /\ acked \in {1, 2} /\ slot[s].sent > 0
  BY <1>1, <1>2 DEF Setup!Served, Setup!Pieces
<1>5. slot[s].reply = conn[c].ask \/ (conn[c].crossed /\ slot[s].reply = "scan")
  BY <1>2, <1>4 DEF Serves
<1>6. Becomes(s, r, c, v)
  BY <1>1, <1>2, <1>3 DEF Becomes, Advanced, Heard
<1>7. /\ v \in Setup!Visitors /\ v.ask = conn[c].ask /\ v.told = slot[s].reply /\ v.got = acked
      /\ v.st = st /\ v.crossed = conn[c].crossed
  <2>1. /\ slot[s].reply \in Setup!Asks \cup {"none"} /\ acked \in 0 .. Setup!Pieces
        /\ st \in {"new", "open", "left", "served", "over"}
    BY <1>2, <1>4 DEF Setup!Served, Setup!Pieces
  <2>2. v = Heard(conn[c], slot[s].reply, acked, st)
    OBVIOUS
  <2>3. conn[c] \in Setup!Visitors
    BY <1>2
  <2> HIDE DEF c, acked, st, v
  <2>4. QED
    BY <2>1, <2>2, <2>3, HeardIs
<1>8. CASE Setup!Finished(acked)
  <2>1. r \in Setup!Served /\ r.pcb = 0
    BY <1>8 DEF Setup!Free, Setup!Served, Setup!Pieces
  <2>2. Told(v)
    <3>1. acked = Setup!Pieces
      BY <1>8 DEF Setup!Finished
    <3>2. \/ ~v.crossed /\ v.told = v.ask
          \/ v.crossed /\ v.told \in {v.ask, "scan"}
      <4> HIDE DEF v, c
      <4>1. QED
        BY <1>5, <1>7
    <3> HIDE DEF v, acked
    <3>3. QED
      BY <1>7, <3>1, <3>2 DEF Told
  <2>3. v.st # "new"
    BY <1>7, <1>8
  <2> HIDE DEF r, v
  <2>4. ScansKept(s, r, c, v)
    BY <1>1, <2>1, <2>3, SameScans
  <2>5. QED
    BY <1>2, <1>6, <1>7, <2>1, <2>2, <2>4, OneSlot, Others, <1>1
<1>9. CASE ~Setup!Finished(acked)
  <2>1. acked = 1
    BY <1>4, <1>9 DEF Setup!Finished, Setup!Pieces
  <2>2. /\ r \in Setup!Served /\ r.pcb = c /\ r.reply = slot[s].reply /\ r.acked = 1 /\ r.sent = 2
        /\ r.handled = slot[s].handled
    <3>1. 1 \in 0 .. Setup!Pieces /\ 2 \in 0 .. Setup!Pieces
      BY DEF Setup!Pieces
    <3>2. r = Advanced(slot[s], 1, 2)
      BY <1>9, <2>1
    <3> HIDE DEF r
    <3>3. QED
      BY <1>2, <3>1, <3>2, AdvancedType
  <2>3. v.st = "open"
    BY <1>7, <1>9
  <2>4. r.reply # "none" /\ (r.handled \/ conn[c].crossed)
    BY <1>2, <1>4, <2>2 DEF Serves
  <2> HIDE DEF r, v, c, acked
  <2>5. Told(v) /\ Serves(r, v)
    BY <1>5, <1>7, <2>1, <2>2, <2>3, <2>4 DEF Told, Serves
  <2>6. ScansKept(s, r, c, v)
    BY <1>1, <1>7, <2>2, <2>3, SameScans DEF c
  <2>7. QED
    BY <1>1, <1>2, <1>6, <1>7, <2>2, <2>5, <2>6, OneSlot, Others DEF c
<1>10. QED
  BY <1>8, <1>9

\* A connection is closed or lost, inside its own scan or not.
LEMMA DropStep ==
  ASSUME WebInv, NEW s \in Setup!Slots, Setup!Drop(s)
  PROVE  WebInv'
<1> DEFINE c == slot[s].pcb
<1>1. c # 0 /\ inside' = inside /\ Becomes(s, Setup!Free, c, Setup!Over)
  BY DEF Setup!Drop, Setup!Closed, Setup!scans, Becomes
<1>2. c \in Setup!Conns /\ \A t \in Setup!Slots : t # s => slot[t].pcb # c
  BY <1>1, Holding, Others
<1>3. Setup!Free \in Setup!Served /\ Setup!Free.pcb = 0
  BY DEF Setup!Free, Setup!Served, Setup!Pieces
<1>4. ScansKept(s, Setup!Free, c, Setup!Over)
  BY <1>1, <1>3, OverType, SameScans
<1>5. Told(Setup!Over)
  BY OverType DEF Told
<1>6. QED
  BY <1>1, <1>2, <1>3, <1>4, <1>5, OverType, OneSlot

\* A phone goes without a word, or has read what it was served.
LEMMA LeavesStep ==
  ASSUME WebInv, NEW c \in Setup!Conns, Setup!Leaves(c) \/ Setup!Reads(c)
  PROVE  WebInv'
<1>1. UNCHANGED <<slot, inside>> /\ conn[c] \in Setup!Visitors
  BY DEF Setup!Leaves, Setup!Reads, Setup!scans, WebInv, WebType
<1>2. CASE Setup!Leaves(c)
  <2> DEFINE v == [conn[c] EXCEPT !.st = "left"]
  <2>1. conn' = [conn EXCEPT ![c] = v]
    BY <1>2 DEF Setup!Leaves
  <2>2. v \in Setup!Visitors /\ v.st = "left" /\ v.ask = conn[c].ask /\ v.told = conn[c].told /\ v.crossed = conn[c].crossed
    BY <1>1 DEF Setup!Visitors
  <2> HIDE DEF v
  <2>3. Told(v)
    BY <2>2, AllAreTold DEF Told
  <2>4. QED
    BY <1>1, <2>1, <2>2, <2>3, OnlyConn
<1>3. CASE Setup!Reads(c)
  <2>1. conn' = [conn EXCEPT ![c] = Setup!Over] /\ conn[c].st = "served"
    BY <1>3 DEF Setup!Reads
  <2>2. \A t \in Setup!Slots : slot[t].pcb # c
    BY <2>1, Holding DEF Serves, Setup!Conns
  <2>3. QED
    BY <1>1, <2>1, <2>2, OverType, OnlyConn DEF Told
<1>4. QED
  BY <1>2, <1>3

-------------------------------------------------------------------------------
(* Requests and scans *)

\* A slot whose request has just come in full.
LEMMA AskedSlot ==
  ASSUME WebInv, NEW s \in Setup!Slots, NEW what, Setup!Asked(s, what)
  PROVE  /\ slot[s].pcb # 0 /\ slot[s].pcb \in Setup!Conns
         /\ slot[s] \in Setup!Served /\ conn[slot[s].pcb] \in Setup!Visitors
         /\ ~slot[s].handled /\ Serves(slot[s], conn[slot[s].pcb])
         /\ conn[slot[s].pcb].ask = what /\ conn[slot[s].pcb].st = "open"
<1>1. /\ slot[s].pcb # 0 /\ ~slot[s].handled
      /\ conn[slot[s].pcb].ask = what /\ conn[slot[s].pcb].st = "open"
  BY DEF Setup!Asked
<1>2. /\ slot[s].pcb \in Setup!Conns /\ slot[s] \in Setup!Served
      /\ conn[slot[s].pcb] \in Setup!Visitors /\ Serves(slot[s], conn[slot[s].pcb])
  BY <1>1, Holding
<1>3. QED
  BY <1>1, <1>2

LEMMA RespondingIs ==
  ASSUME NEW s, NEW what
  PROVE  Setup!Responding(s, what) = [slot EXCEPT ![s] = Answering(slot[s], what)]
BY DEF Setup!Responding, Answering

\* A slot is given the answer to what its connection asked.
LEMMA AnsweredStep ==
  ASSUME WebInv, NEW s \in Setup!Slots, NEW what \in Setup!Asks, slot[s].pcb # 0,
         conn[slot[s].pcb].ask = what, conn' = conn,
         slot' = [slot EXCEPT ![s] = Answering(slot[s], what)],
         ScansKept(s, Answering(slot[s], what), slot[s].pcb, conn[slot[s].pcb])
  PROVE  WebInv'
<1> DEFINE c == slot[s].pcb
           r == Answering(slot[s], what)
<1>1. /\ c \in Setup!Conns /\ slot[s] \in Setup!Served /\ conn[c] \in Setup!Visitors
      /\ Serves(slot[s], conn[c])
  BY Holding
<1>2. /\ r \in Setup!Served /\ r.pcb = c /\ r.handled /\ r.reply = what /\ r.sent = 1
      /\ r.acked = 0
  BY <1>1, AnsweringType
<1>3. slot' = [slot EXCEPT ![s] = r] /\ ScansKept(s, r, c, conn[c])
  OBVIOUS
<1>4. conn' = [conn EXCEPT ![c] = conn[c]]
  BY <1>1 DEF WebInv, WebType
<1>5. Told(conn[c])
  BY <1>1, AllAreTold
<1>6. \A t \in Setup!Slots : t # s => slot[t].pcb # c
  BY Others
<1>7. conn[c].ask = what
  OBVIOUS
<1> HIDE DEF r, c
<1>8. Serves(r, conn[c])
  BY <1>1, <1>2, <1>7 DEF Serves, Setup!Asks, Setup!Keys
<1>9. Becomes(s, r, c, conn[c])
  BY <1>3, <1>4 DEF Becomes
<1>10. QED
  BY <1>1, <1>2, <1>3, <1>5, <1>6, <1>8, <1>9, OneSlot

LEMMA AnswerStep ==
  ASSUME WebInv, NEW s \in Setup!Slots, NEW what \in Setup!Asks,
         Setup!Asked(s, what), Setup!Answer(s, what), inside' = inside
  PROVE  WebInv'
<1> DEFINE c == slot[s].pcb
           r == Answering(slot[s], what)
<1>1. /\ c # 0 /\ conn[c].ask = what /\ conn[c].st = "open" /\ slot[s] \in Setup!Served
  BY AskedSlot
<1>2. slot' = [slot EXCEPT ![s] = r] /\ conn' = conn
  BY RespondingIs DEF Setup!Answer
<1>3. r.pcb = c /\ r.handled
  BY <1>1, AnsweringType
<1> HIDE DEF r, c
<1>4. ScansKept(s, r, c, conn[c])
  BY <1>1, <1>3, SameScans DEF c
<1>5. QED
  BY <1>1, <1>2, <1>4, AnsweredStep DEF r, c

\* A scan begins inside the request that asked for it.
LEMMA ScanStep ==
  ASSUME WebInv, NEW s \in Setup!Slots, Setup!Scan(s)
  PROVE  WebInv'
<1> DEFINE c == slot[s].pcb
           r == [slot[s] EXCEPT !.handled = TRUE]
           e == [slot |-> s, over |-> FALSE, asker |-> c]
<1>1. /\ Setup!Asked(s, "scan") /\ slot' = [slot EXCEPT ![s].handled = TRUE]
      /\ inside' = Append(inside, e) /\ conn' = conn
  BY DEF Setup!Scan
<1>2. /\ c # 0 /\ c \in Setup!Conns /\ slot[s] \in Setup!Served /\ conn[c] \in Setup!Visitors
      /\ Serves(slot[s], conn[c]) /\ conn[c].ask = "scan" /\ conn[c].st = "open"
  BY <1>1, AskedSlot
<1>3. /\ r \in Setup!Served /\ r.pcb = c /\ r.handled /\ r.reply = slot[s].reply
      /\ r.sent = slot[s].sent /\ r.acked = slot[s].acked
  BY <1>2 DEF Setup!Served
<1>4. slot' = [slot EXCEPT ![s] = r] /\ conn' = [conn EXCEPT ![c] = conn[c]]
  BY <1>1, <1>2 DEF WebInv, WebType
<1>5. Told(conn[c])
  BY <1>2, AllAreTold
<1>6. \A t \in Setup!Slots : t # s => slot[t].pcb # c
  BY <1>2, Others
<1>7. e \in Setup!Underway /\ e.slot = s /\ e.asker = c
  BY <1>2 DEF Setup!Underway
<1> HIDE DEF e
<1>8. /\ inside' \in Seq(Setup!Underway)
      /\ \A i \in DOMAIN inside' : (i \in DOMAIN inside /\ inside'[i] = inside[i]) \/ inside'[i] = e
  BY <1>1, <1>7 DEF WebInv, WebType
<1> HIDE DEF r, c
<1>9. \A i \in DOMAIN inside' :
        \/ \E j \in DOMAIN inside : inside[j].slot = inside'[i].slot /\ inside[j].asker = inside'[i].asker
        \/ inside'[i].slot = s /\ inside'[i].asker = c
  BY <1>7, <1>8
<1>10. ScansKept(s, r, c, conn[c])
  BY <1>2, <1>3, <1>8, <1>9 DEF ScansKept
<1>11. Serves(r, conn[c])
  BY <1>2, <1>3 DEF Serves
<1>12. Becomes(s, r, c, conn[c])
  BY <1>4 DEF Becomes
<1>13. QED
  BY <1>2, <1>3, <1>5, <1>6, <1>10, <1>11, <1>12, OneSlot

\* A scan's time is up; it stays where it is.
LEMMA TimesOutStep ==
  ASSUME WebInv, NEW i \in DOMAIN inside, Setup!TimesOut(i)
  PROVE  WebInv'
<1> DEFINE x == [inside[i] EXCEPT !.over = TRUE]
<1>1. inside' = [inside EXCEPT ![i] = x] /\ slot' = slot /\ conn' = conn
  BY DEF Setup!TimesOut, Setup!web
<1>2. inside[i] \in Setup!Underway
  BY ElementType DEF WebInv, WebType
<1>3. x \in Setup!Underway /\ x.slot = inside[i].slot /\ x.asker = inside[i].asker
  BY <1>2 DEF Setup!Underway
<1> HIDE DEF x
<1>4. /\ inside' \in Seq(Setup!Underway)
      /\ DOMAIN inside' = DOMAIN inside
      /\ \A j \in DOMAIN inside : /\ inside'[j].slot = inside[j].slot
                                  /\ inside'[j].asker = inside[j].asker
  BY <1>1, <1>3 DEF WebInv, WebType
<1>5. WebType' /\ SlotInv' /\ OwnerInv' /\ AnswersFit'
  BY <1>1, <1>4 DEF WebInv, WebType, SlotInv, OwnerInv, AnswersFit, Setup!AnswersFit
<1>6. ScanInv'
  BY <1>1, <1>4 DEF WebInv, ScanInv
<1>7. QED
  BY <1>5, <1>6 DEF WebInv

LEMMA AllButLast ==
  ASSUME NEW S, NEW q \in Seq(S), NEW n \in Nat, n = Len(q), n > 0
  PROVE  /\ SubSeq(q, 1, n - 1) \in Seq(S) /\ DOMAIN SubSeq(q, 1, n - 1) = 1 .. n - 1
         /\ \A i \in 1 .. n - 1 : SubSeq(q, 1, n - 1)[i] = q[i]
<1>1. \A i \in 1 .. n - 1 : q[i] \in S /\ q[1 + i - 1] = q[i]
  OBVIOUS
<1>2. n - 1 \in Int /\ (n - 1) - 1 + 1 = n - 1
  OBVIOUS
<1>3. /\ SubSeq(q, 1, n - 1) \in Seq(S)
      /\ Len(SubSeq(q, 1, n - 1)) = IF 1 <= n - 1 THEN (n - 1) - 1 + 1 ELSE 0
      /\ \A i \in 1 .. (n - 1) - 1 + 1 : SubSeq(q, 1, n - 1)[i] = q[1 + i - 1]
  BY <1>1, <1>2, SubSeqProperties
<1>4. Len(SubSeq(q, 1, n - 1)) = n - 1
  BY <1>3
<1>5. QED
  BY <1>1, <1>2, <1>3, <1>4

\* A slot that is given the scan's answer, whatever it was about.
Resent(r) == [r EXCEPT !.reply = "scan", !.sent = 1, !.acked = 0]

LEMMA ResentType ==
  ASSUME NEW r \in Setup!Served
  PROVE  /\ Resent(r) \in Setup!Served
         /\ Resent(r).pcb = r.pcb /\ Resent(r).handled = r.handled
         /\ Resent(r).reply = "scan" /\ Resent(r).sent = 1 /\ Resent(r).acked = 0
<1>1. 1 \in 0 .. Setup!Pieces /\ 0 \in 0 .. Setup!Pieces
  BY DEF Setup!Pieces
<1>2. Resent(r) \in Setup!Served
  BY <1>1 DEF Resent, Setup!Served, Setup!Asks
<1>3. QED
  BY <1>2 DEF Resent, Setup!Served

\* A connection in whose slot another's scan returns.
Crossed(v) == [v EXCEPT !.crossed = TRUE]

LEMMA CrossedType ==
  ASSUME NEW v \in Setup!Visitors
  PROVE  /\ Crossed(v) \in Setup!Visitors /\ Crossed(v).crossed
         /\ Crossed(v).st = v.st /\ Crossed(v).ask = v.ask /\ Crossed(v).told = v.told
BY DEF Crossed, Setup!Visitors

\* The innermost scan returns: to nobody, to the connection that asked for it, or
\* to the one that has its slot now.
LEMMA ScanReturnsStep ==
  ASSUME WebInv, Setup!ScanReturns
  PROVE  WebInv'
<1> DEFINE n == Len(inside)
           s == inside[n].slot
           a == inside[n].asker
           c == slot[s].pcb
           r == Resent(slot[s])
           v == IF c = a THEN conn[c] ELSE Crossed(conn[c])
<1>1. /\ inside # <<>> /\ inside' = SubSeq(inside, 1, n - 1)
      /\ slot' = IF c = 0 THEN slot ELSE [slot EXCEPT ![s] = r]
      /\ conn' = IF c \in {0, a} THEN conn ELSE [conn EXCEPT ![c] = Crossed(conn[c])]
  BY DEF Setup!ScanReturns, Setup!Front, Setup!Last, Resent, Crossed
<1>2. inside \in Seq(Setup!Underway)
  BY DEF WebInv, WebType
<1>3. n \in Nat /\ n > 0 /\ DOMAIN inside = 1 .. n /\ n \in DOMAIN inside
  BY <1>1, <1>2
<1>4. /\ inside' \in Seq(Setup!Underway) /\ DOMAIN inside' = 1 .. n - 1
      /\ \A i \in 1 .. n - 1 : inside'[i] = inside[i]
  BY <1>1, <1>2, <1>3, AllButLast
<1>5. \A i \in DOMAIN inside' : i \in DOMAIN inside /\ inside'[i] = inside[i]
  BY <1>3, <1>4
<1>6. s \in Setup!Slots /\ a \in Setup!Conns /\ Asker(a, conn[a], slot[s])
  BY <1>3, ScansHaveSlots DEF WebInv, ScanInv
<1> HIDE DEF n, s, a
<1>7. CASE c = 0
  <2>1. slot' = slot /\ conn' = conn
    BY <1>1, <1>7
  <2>2. ScanInv'
    BY <1>5, <2>1 DEF WebInv, ScanInv
  <2>3. WebType' /\ SlotInv' /\ OwnerInv' /\ AnswersFit'
    BY <1>4, <2>1 DEF WebInv, WebType, SlotInv, OwnerInv, AnswersFit, Setup!AnswersFit
  <2>4. QED
    BY <2>2, <2>3 DEF WebInv
<1>8. CASE c # 0
  <2>1. /\ c \in Setup!Conns /\ slot[s] \in Setup!Served /\ conn[c] \in Setup!Visitors
        /\ Serves(slot[s], conn[c])
    BY <1>6, <1>8, Holding
  <2>2. /\ r \in Setup!Served /\ r.pcb = c /\ r.handled = slot[s].handled
        /\ r.reply = "scan" /\ r.sent = 1 /\ r.acked = 0
    BY <2>1, ResentType
  <2>3. /\ v \in Setup!Visitors /\ v.st = conn[c].st /\ v.ask = conn[c].ask
        /\ v.told = conn[c].told
        /\ (c = a /\ v.crossed = conn[c].crossed) \/ (c # a /\ v.crossed)
    BY <2>1, CrossedType
  <2>4. conn = [conn EXCEPT ![c] = conn[c]]
    BY <2>1 DEF WebInv, WebType
  <2>5. slot' = [slot EXCEPT ![s] = r] /\ conn' = [conn EXCEPT ![c] = v]
    BY <1>1, <1>8, <2>4
  <2>6. conn[c].st \in {"open", "left"} /\ Told(conn[c])
    BY <2>1, AllAreTold DEF Serves
  <2>7. c = a => slot[s].handled /\ conn[c].ask = "scan"
    BY <1>6 DEF Asker
  <2>8. \A t \in Setup!Slots : t # s => slot[t].pcb # c
    BY <1>6, <1>8, Others
  <2>9. \A i \in DOMAIN inside :
          inside[i].slot = s /\ inside[i].asker = c => slot[s].handled /\ conn[c].ask = "scan"
    BY DEF WebInv, ScanInv, Asker
  <2> HIDE DEF r, v, c
  <2>10. Serves(r, v)
    BY <2>2, <2>3, <2>6, <2>7 DEF Serves
  <2>11. Told(v)
    BY <2>3, <2>6 DEF Told
  <2>12. ScansKept(s, r, c, v)
    BY <1>4, <1>5, <2>2, <2>3, <2>6, <2>9 DEF ScansKept
  <2>13. QED
    BY <1>6, <2>1, <2>2, <2>3, <2>5, <2>8, <2>10, <2>11, <2>12, OneSlot DEF Becomes
<1>9. QED
  BY <1>7, <1>8

\* The device restarts.
LEMMA GoesStep ==
  ASSUME WebInv, Setup!Goes
  PROVE  WebInv'
<1>1. /\ slot' = [s \in Setup!Slots |-> Setup!Free] /\ inside' = <<>>
      /\ conn' = [c \in Setup!Conns |-> IF conn[c].st = "new" THEN conn[c] ELSE Setup!Over]
  BY DEF Setup!Goes
<1>2. Setup!Free \in Setup!Served /\ Setup!Free.pcb = 0
  BY DEF Setup!Free, Setup!Served, Setup!Pieces
<1>3. WebType'
  BY <1>1, <1>2, OverType DEF WebInv, WebType
<1>4. SlotInv' /\ OwnerInv'
  BY <1>1, <1>2 DEF SlotInv, OwnerInv
<1>5. ScanInv'
  BY <1>1 DEF ScanInv
<1>6. AnswersFit'
  BY <1>1, OverType DEF WebInv, AnswersFit, Setup!AnswersFit
<1>7. QED
  BY <1>3, <1>4, <1>5, <1>6 DEF WebInv
-------------------------------------------------------------------------------
(* The attempt and what comes of it *)

JoinSide == JoinType /\ JoinInv

joinVars == <<air, accepts, link, addr, faults, up, join, joinKey, dialled, stage, saved, reboot,
              proven>>

LEMMA JoinKept ==
  ASSUME JoinSide, UNCHANGED joinVars, active' \in BOOLEAN
  PROVE  JoinSide'
BY DEF JoinSide, joinVars, JoinType, JoinInv, Setup!RadioTypeOK

\* What serves connections and scans leaves the attempt as it is.
LEMMA ServingStep ==
  ASSUME JoinSide,
         \/ \E c \in Setup!Conns : Setup!Accept(c) \/ Setup!Leaves(c) \/ Setup!Reads(c)
         \/ \E s \in Setup!Slots : \/ Setup!GetPage(s) \/ Setup!Scan(s) \/ Setup!GetJoin(s)
                                   \/ Setup!Sent(s) \/ Setup!Drop(s)
         \/ Setup!Completes \/ (\E i \in Setup!Slots : Setup!TimesOut(i)) \/ Setup!ScanReturns
  PROVE  JoinSide'
<1> USE DEF joinVars, Setup!radio, Setup!joining, Setup!scans
<1>1. active \in BOOLEAN
  BY DEF JoinSide, JoinType
<1>2. CASE \E c \in Setup!Conns : Setup!Accept(c) \/ Setup!Leaves(c) \/ Setup!Reads(c)
  BY <1>1, <1>2, JoinKept DEF Setup!Accept, Setup!Leaves, Setup!Reads
<1>3. ASSUME NEW s \in Setup!Slots,
             Setup!GetPage(s) \/ Setup!Scan(s) \/ Setup!GetJoin(s) \/ Setup!Sent(s) \/ Setup!Drop(s)
      PROVE  JoinSide'
  <2>1. UNCHANGED joinVars /\ active' \in {active, TRUE}
    BY <1>3 DEF Setup!GetPage, Setup!Scan, Setup!GetJoin, Setup!Sent, Setup!Drop
  <2>2. QED
    BY <1>1, <2>1, JoinKept
<1>4. CASE Setup!Completes \/ (\E i \in Setup!Slots : Setup!TimesOut(i)) \/ Setup!ScanReturns
  <2>1. UNCHANGED joinVars /\ active' \in {active, FALSE}
    BY <1>4 DEF Setup!Completes, Setup!TimesOut, Setup!ScanReturns, Setup!InScan
  <2>2. QED
    BY <1>1, <2>1, JoinKept
<1>5. QED
  BY <1>2, <1>3, <1>4

\* What phones post: an attempt only when there is none, settings, a commit.
LEMMA PostsStep ==
  ASSUME JoinSide, NEW s \in Setup!Slots,
         \/ \E key \in Setup!Keys : Setup!PostJoin(s, key)
         \/ Setup!PostConfig(s)
         \/ Setup!PostCommit(s)
  PROVE  JoinSide'
<1> USE DEF JoinSide, JoinType, JoinInv, Setup!RadioTypeOK, Setup!radio, Setup!joining, Setup!scans
<1>1. ASSUME NEW key \in Setup!Keys, Setup!PostJoin(s, key)
      PROVE  JoinSide'
  <2>1. /\ UNCHANGED <<air, accepts, link, addr, faults, up, dialled, stage, saved, reboot, proven,
                      active>>
        /\ \/ UNCHANGED <<join, joinKey>>
           \/ join # "running" /\ join' = "pending" /\ joinKey' = key
    BY <1>1 DEF Setup!PostJoin, Setup!Busy
  <2>2. key # "none" /\ key \in Setup!Keys
    BY DEF Setup!Keys
  <2>3. JoinType'
    BY <2>1, <2>2
  <2>4. JoinInv'
    BY <2>1, <2>2
  <2>5. QED
    BY <2>3, <2>4
<1>2. CASE Setup!PostConfig(s)
  <2>1. /\ UNCHANGED <<air, accepts, link, addr, faults, up, join, joinKey, dialled, saved, reboot,
                      proven, active>>
        /\ stage' \in [wifi : Setup!Keys \cup {"none"}, dirty : BOOLEAN]
        /\ stage'.wifi = stage.wifi
    BY <1>2 DEF Setup!PostConfig
  <2>2. QED
    BY <2>1
<1>3. CASE Setup!PostCommit(s)
  <2>1. /\ UNCHANGED <<air, accepts, link, addr, up, join, joinKey, dialled, proven, active>>
        /\ faults' \in 0 .. SetupFaults
    BY <1>3, SetupAssumption DEF Setup!PostCommit, Setup!ConstantsOK
  <2>2. /\ reboot' \in BOOLEAN
        /\ stage' \in [wifi : Setup!Keys \cup {"none"}, dirty : BOOLEAN]
        /\ stage'.wifi = stage.wifi /\ saved' \in {saved, stage.wifi}
    BY <1>3 DEF Setup!PostCommit
  <2>3. stage.wifi \in Setup!Keys \cup {"none"}
    OBVIOUS
  <2>4. JoinType'
    BY <2>1, <2>2, <2>3
  <2>5. JoinInv'
    BY <2>1, <2>2
  <2>6. QED
    BY <2>4, <2>5
<1>4. QED
  BY <1>1, <1>2, <1>3

\* The main loop's part.
LEMMA AttemptStep ==
  ASSUME JoinSide,
         \/ Setup!JoinStarts \/ Setup!JoinCannotStart \/ Setup!JoinSucceeds \/ Setup!JoinFails
         \/ Setup!JoinExpires
  PROVE  JoinSide'
<1> USE DEF JoinSide, JoinType, JoinInv, Setup!RadioTypeOK, Setup!radio, Setup!scans
<1>1. CASE Setup!JoinStarts
  <2>1. link' = "join" /\ addr' = FALSE /\ UNCHANGED <<air, accepts>>
    BY <1>1 DEF Setup!JoinStarts, Setup!Dial
  <2>2. QED
    BY <1>1, <2>1 DEF Setup!JoinStarts, Setup!Links, Setup!Refusals, Setup!Results
<1>2. CASE Setup!JoinCannotStart
  BY <1>2, SetupAssumption DEF Setup!JoinCannotStart, Setup!Results, Setup!ConstantsOK
<1>3. CASE Setup!JoinSucceeds
  BY <1>3 DEF Setup!JoinSucceeds, Setup!JoinFinish, Setup!Leave, Setup!Results, Setup!Links
<1>4. CASE Setup!JoinFails
  BY <1>4 DEF Setup!JoinFails, Setup!JoinFinish, Setup!Leave, Setup!Results, Setup!Links,
              Setup!Refusals
<1>5. CASE Setup!JoinExpires
  BY <1>5 DEF Setup!JoinExpires, Setup!JoinFinish, Setup!Leave, Setup!Results, Setup!Links
<1>6. QED
  BY <1>1, <1>2, <1>3, <1>4, <1>5

\* The device restarts, is up again, and the radio does what it does.
LEMMA RestartStep ==
  ASSUME JoinSide, Setup!Reboots \/ Setup!PowerCut \/ Setup!Begins
  PROVE  JoinSide'
<1> USE DEF JoinSide, JoinType, JoinInv, Setup!RadioTypeOK, Setup!radio, Setup!joining, Setup!scans
<1>1. CASE Setup!Reboots
  BY <1>1 DEF Setup!Reboots, Setup!Goes, Setup!Links
<1>2. CASE Setup!PowerCut
  <2>1. SetupFaults \in Nat
    BY SetupAssumption DEF Setup!ConstantsOK
  <2>2. faults' \in 0 .. SetupFaults /\ Setup!Goes
    BY <1>2, <2>1 DEF Setup!PowerCut
  <2>3. QED
    BY <2>2 DEF Setup!Goes, Setup!Links
<1>3. CASE Setup!Begins
  BY <1>3 DEF Setup!Begins
<1>4. QED
  BY <1>1, <1>2, <1>3

LEMMA SurroundStep ==
  ASSUME JoinSide, Setup!Around
  PROVE  JoinSide'
<1>1. /\ UNCHANGED <<up, join, joinKey, dialled, stage, saved, reboot, proven, active>>
      /\ Setup!Surroundings("wpa2", dialled = "right")
  BY DEF Setup!Around, Setup!setup, Setup!joining, Setup!scans, Setup!web
<1>2. SetupFaults \in Nat
  BY SetupAssumption DEF Setup!ConstantsOK
<1>3. /\ air \in BOOLEAN /\ accepts \subseteq Setup!Modes /\ link \in Setup!Links
      /\ addr \in BOOLEAN /\ faults \in 0 .. SetupFaults /\ (addr => link = "up")
  BY DEF JoinSide, JoinType, JoinInv, Setup!RadioTypeOK
<1>4. /\ air' \in BOOLEAN /\ accepts' = accepts /\ link' \in Setup!Links /\ addr' \in BOOLEAN
      /\ faults' \in 0 .. SetupFaults /\ (addr' => link' = "up")
      /\ (link = "down" => link' = "down")
  <2> USE DEF Setup!Links, Setup!Refusals
  <2>1. CASE Setup!Associates("wpa2", dialled = "right")
    BY <1>3, <2>1 DEF Setup!Associates
  <2>2. CASE Setup!Refuses("wpa2", dialled = "right")
    BY <1>3, <2>2 DEF Setup!Refuses
  <2>3. CASE Setup!Leased
    BY <1>3, <2>3 DEF Setup!Leased
  <2> faults < SetupFaults => faults + 1 \in 0 .. SetupFaults
    BY <1>2, <1>3
  <2>4. CASE Setup!AddressGoes
    BY <1>3, <2>4 DEF Setup!AddressGoes
  <2>5. CASE Setup!LinkBreaks
    BY <1>3, <2>5 DEF Setup!LinkBreaks
  <2>6. CASE Setup!AirChanges
    <3>1. accepts' = accepts /\ air' \in BOOLEAN
      BY <2>6 DEF Setup!AirChanges
    <3>2. CASE UNCHANGED <<faults, link, addr>>
      BY <1>3, <3>1, <3>2
    <3>3. CASE /\ faults < SetupFaults /\ faults' = faults + 1 /\ addr' = FALSE
               /\ link' = IF link \in {"noip", "up"} THEN "down" ELSE link
      <4>1. faults' \in 0 .. SetupFaults /\ addr' = FALSE /\ link' \in {link, "down"}
        BY <3>3
      <4>2. QED
        BY <1>3, <3>1, <4>1
    <3>4. QED
      BY <2>6, <3>2, <3>3 DEF Setup!AirChanges
  <2>7. QED
    BY <1>1, <2>1, <2>2, <2>3, <2>4, <2>5, <2>6 DEF Setup!Surroundings
<1>5. Setup!RadioTypeOK'
  BY <1>3, <1>4 DEF Setup!RadioTypeOK
<1>6. QED
  BY <1>1, <1>4, <1>5 DEF JoinSide, JoinType, JoinInv

-------------------------------------------------------------------------------
(* The device *)

LEMMA WebStep ==
  ASSUME WebInv, Setup!Next
  PROVE  WebInv'
<1>1. ASSUME NEW c \in Setup!Conns, Setup!Accept(c) \/ Setup!Leaves(c) \/ Setup!Reads(c)
      PROVE  WebInv'
  BY <1>1, AcceptStep, LeavesStep
<1>2. ASSUME NEW s \in Setup!Slots, Setup!Sent(s) \/ Setup!Drop(s) \/ Setup!Scan(s)
      PROVE  WebInv'
  BY <1>2, SentStep, DropStep, ScanStep
<1>3. ASSUME NEW s \in Setup!Slots,
             \/ Setup!GetPage(s) \/ (\E key \in Setup!Keys : Setup!PostJoin(s, key))
             \/ Setup!GetJoin(s) \/ Setup!PostConfig(s) \/ Setup!PostCommit(s)
      PROVE  WebInv'
  <2>1. PICK what \in Setup!Asks : Setup!Asked(s, what) /\ Setup!Answer(s, what)
    BY <1>3 DEF Setup!GetPage, Setup!PostJoin, Setup!GetJoin, Setup!PostConfig, Setup!PostCommit,
                Setup!Asks
  <2>2. inside' = inside
    BY <1>3 DEF Setup!GetPage, Setup!PostJoin, Setup!GetJoin, Setup!PostConfig, Setup!PostCommit,
                Setup!scans
  <2>3. QED
    BY <2>1, <2>2, AnswerStep
<1>4. CASE Setup!ScanDeadline
  BY <1>4, TimesOutStep DEF Setup!ScanDeadline, Setup!TimesOut
<1>5. CASE Setup!ScanReturns
  BY <1>5, ScanReturnsStep
<1>6. CASE Setup!Reboots \/ Setup!PowerCut
  BY <1>6, GoesStep DEF Setup!Reboots, Setup!PowerCut
<1>7. CASE \/ Setup!Completes \/ Setup!JoinStarts \/ Setup!JoinCannotStart \/ Setup!JoinSucceeds
           \/ Setup!JoinFails \/ Setup!JoinExpires \/ Setup!Begins \/ Setup!Around
  <2>1. UNCHANGED <<slot, conn, inside>>
    BY <1>7 DEF Setup!Completes, Setup!JoinStarts, Setup!JoinCannotStart, Setup!JoinSucceeds,
                Setup!JoinFails, Setup!JoinExpires, Setup!JoinFinish, Setup!Begins, Setup!Around,
                Setup!setup, Setup!web, Setup!scans
  <2>2. QED
    BY <2>1, WebUntouched
<1>8. CASE Setup!Web
  BY <1>1, <1>2, <1>3, <1>8 DEF Setup!Web, Setup!Request, Setup!PeerCloses, Setup!IdleDeadline,
                                Setup!Idle
<1>9. QED
  BY <1>4, <1>5, <1>6, <1>7, <1>8 DEF Setup!Next, Setup!Scanner, Setup!Tasks

LEMMA JoinSideStep ==
  ASSUME JoinSide, Setup!Next
  PROVE  JoinSide'
<1>1. CASE Setup!Web
  <2>1. CASE \E c \in Setup!Conns : Setup!Accept(c) \/ Setup!Leaves(c) \/ Setup!Reads(c)
    BY <2>1, ServingStep
  <2>2. ASSUME NEW s \in Setup!Slots, Setup!Request(s)
        PROVE  JoinSide'
    BY <2>2, ServingStep, PostsStep DEF Setup!Request
  <2>3. CASE \E s \in Setup!Slots : Setup!Sent(s) \/ Setup!Drop(s)
    BY <2>3, ServingStep
  <2>4. QED
    BY <1>1, <2>1, <2>2, <2>3 DEF Setup!Web, Setup!PeerCloses, Setup!IdleDeadline, Setup!Idle
<1>2. CASE Setup!Scanner
  BY <1>2, ServingStep DEF Setup!Scanner, Setup!ScanDeadline
<1>3. CASE Setup!Tasks
  BY <1>3, AttemptStep, RestartStep DEF Setup!Tasks
<1>4. CASE Setup!PowerCut \/ Setup!Begins \/ Setup!Around
  BY <1>4, RestartStep, SurroundStep
<1>5. QED
  BY <1>1, <1>2, <1>3, <1>4 DEF Setup!Next

\* In setup the join is where a restart leaves it; after it, what the portal
\* proved is what it was.
StationAtRest == Rest /\ auth = "auto" /\ psk \in {"right", "wrong"} /\ clock = FALSE

DeviceInv ==
  /\ phase \in {"setup", "station"}
  /\ phase = "setup" => JoinSide /\ StationAtRest
  /\ phase = "station" => IInv /\ NetworkWasProven

\* What phones were told when the portal went stays told.
ServedInv ==
  /\ phase = "setup" => WebInv
  /\ phase = "station" => AnswersFit

LEMMA RestsTyped ==
  ASSUME ConstantsOK, Rest
  PROVE  /\ timer \in Deadlines /\ backoff \in MinBackoff .. MaxBackoff /\ late \in 0 .. MaxPump
         /\ state = "idle" /\ attempt \in 0 .. 2 /\ addrLost = FALSE /\ lastError = "none"
         /\ sntp = FALSE /\ warned = FALSE /\ since = 0 /\ bare = 0
BY DEF Rest, Deadlines, ConstantsOK

LEMMA FromTheBoxJoins == FromTheBox => DeviceInv
<1> SUFFICES ASSUME FromTheBox PROVE DeviceInv
  OBVIOUS
<1> USE DEF FromTheBox, Setup!Init, Setup!Started
<1>1. Networks \subseteq SUBSET Setup!Modes /\ SetupFaults \in Nat
  BY SetupAssumption DEF Setup!ConstantsOK
<1>2. faults \in 0 .. SetupFaults
  BY <1>1
<1>3. accepts \subseteq Setup!Modes
  BY <1>1
<1>4. Setup!RadioTypeOK
  BY <1>2, <1>3 DEF Setup!RadioTypeOK, Setup!Links
<1>5. JoinType
  BY <1>4 DEF JoinType, Setup!Results, Setup!Keys
<1>6. JoinInv
  BY DEF JoinInv
<1>7. QED
  BY <1>5, <1>6 DEF DeviceInv, JoinSide, StationAtRest

LEMMA FromTheBoxServes == FromTheBox => ServedInv
<1> SUFFICES ASSUME FromTheBox PROVE ServedInv
  OBVIOUS
<1> USE DEF FromTheBox, Setup!Init, Setup!Started
<1>1. PICK visit \in Visits : conn = [c \in Setup!Conns |-> Setup!Unopened(visit[c])]
  OBVIOUS
<1>2. visit \in [Setup!Conns -> Setup!Asks]
  BY SetupAssumption DEF Setup!ConstantsOK
<1>3. \A c \in Setup!Conns : /\ Setup!Unopened(visit[c]) \in Setup!Visitors
                             /\ Setup!Unopened(visit[c]).told = "none"
                             /\ Setup!Unopened(visit[c]).st = "new"
  BY <1>2 DEF Setup!Unopened, Setup!Visitors, Setup!Pieces
<1>4. Setup!Free \in Setup!Served /\ Setup!Free.pcb = 0
  BY DEF Setup!Free, Setup!Served, Setup!Pieces
<1>5. WebType
  BY <1>1, <1>3, <1>4 DEF WebType
<1>6. SlotInv /\ OwnerInv /\ ScanInv
  BY <1>4 DEF SlotInv, OwnerInv, ScanInv
<1>7. AnswersFit
  BY <1>1, <1>3 DEF AnswersFit, Setup!AnswersFit
<1>8. QED
  BY <1>5, <1>6, <1>7 DEF ServedInv, WebInv

LEMMA BootStep == DeviceInv /\ Boot => DeviceInv'
<1> SUFFICES ASSUME DeviceInv, Boot PROVE DeviceInv'
  OBVIOUS
<1>1. /\ phase' = "station" /\ JoinSide /\ Rest /\ auth = "auto" /\ clock = FALSE
      /\ saved # "none" /\ psk' = saved /\ faults' = 0
      /\ UNCHANGED <<air, accepts, link, addr, saved, proven>>
      /\ UNCHANGED <<auth, clock, state, attempt, backoff, timer, addrLost, lastError, sntp, warned,
                     late, since, bare>>
  BY DEF DeviceInv, StationAtRest, Boot, radio, history
<1>2. ConstantsOK
  BY StationAssumption
<1>3. RadioTypeOK'
  <2>1. /\ air \in BOOLEAN /\ accepts \subseteq Modes /\ link \in Links /\ addr \in BOOLEAN
    BY <1>1 DEF JoinSide, JoinType, Setup!RadioTypeOK, Setup!Links, Setup!Refusals, Links, Refusals,
                Setup!Modes, Modes
  <2>2. faults' \in 0 .. MaxFaults
    BY <1>1, <1>2 DEF ConstantsOK
  <2>3. QED
    BY <1>1, <2>1, <2>2 DEF RadioTypeOK
<1>4. saved \in {"right", "wrong"}
  BY <1>1 DEF JoinSide, JoinType, Setup!Keys
<1>5. /\ timer \in Deadlines /\ backoff \in MinBackoff .. MaxBackoff /\ late \in 0 .. MaxPump
      /\ state = "idle" /\ attempt \in 0 .. 2 /\ addrLost = FALSE /\ lastError = "none"
      /\ sntp = FALSE /\ warned = FALSE /\ since = 0 /\ bare = 0
  BY <1>1, <1>2, RestsTyped
<1>6. TypeOK'
  BY <1>1, <1>3, <1>4, <1>5 DEF TypeOK
<1>7. (AttemptInv /\ AddressInv)'
  BY <1>1, <1>5 DEF AttemptInv, AddressInv
<1>8. NetworkWasProven'
  BY <1>1 DEF JoinSide, JoinInv, NetworkWasProven, Setup!NetworkWasProven
<1>9. QED
  BY <1>1, <1>6, <1>7, <1>8 DEF DeviceInv, IInv

LEMMA DeviceStep == DeviceInv /\ [Goes]_device => DeviceInv'
<1> SUFFICES ASSUME DeviceInv, [Goes]_device PROVE DeviceInv'
  OBVIOUS
<1> USE DEF inSetup, inStation, settings, history
<1>1. CASE InSetup(Setup!Next)
  <2>1. phase = "setup" /\ phase' = "setup" /\ Setup!Next /\ UNCHANGED inStation
    BY <1>1 DEF InSetup
  <2>2. JoinSide'
    BY <2>1, JoinSideStep DEF DeviceInv
  <2>3. StationAtRest'
    BY <2>1 DEF DeviceInv, StationAtRest, Rest
  <2>4. QED
    BY <2>1, <2>2, <2>3 DEF DeviceInv
<1>2. CASE Boot
  BY <1>2, BootStep
<1>3. CASE InStation(Next)
  <2>1. phase = "station" /\ phase' = "station" /\ Next /\ UNCHANGED <<saved, proven>>
    BY <1>3 DEF InStation
  <2>2. IInv'
    BY <2>1, StepInv, StationAssumption DEF DeviceInv
  <2>3. NetworkWasProven'
    BY <2>1 DEF DeviceInv, NetworkWasProven, Setup!NetworkWasProven
  <2>4. QED
    BY <2>1, <2>2, <2>3 DEF DeviceInv
<1>4. CASE UNCHANGED device
  <2>1. phase' = phase /\ UNCHANGED joinVars /\ active' = active /\ UNCHANGED inStation
    BY <1>4 DEF device, radio, joinVars
  <2>2. UNCHANGED vars
    BY <1>4 DEF device, vars
  <2>3. JoinSide => JoinSide'
    BY <2>1, JoinKept DEF JoinSide, JoinType
  <2>4. StationAtRest => StationAtRest'
    BY <2>1 DEF StationAtRest, Rest
  <2>5. IInv => IInv'
    BY <2>2, StepInv, StationAssumption
  <2>6. NetworkWasProven => NetworkWasProven'
    BY <2>1 DEF NetworkWasProven, Setup!NetworkWasProven, joinVars
  <2>7. QED
    BY <2>1, <2>3, <2>4, <2>5, <2>6 DEF DeviceInv
<1>5. QED
  BY <1>1, <1>2, <1>3, <1>4 DEF Goes

LEMMA ServedStep == DeviceInv /\ ServedInv /\ [Goes]_device => ServedInv'
<1> SUFFICES ASSUME DeviceInv, ServedInv, [Goes]_device PROVE ServedInv'
  OBVIOUS
<1>1. CASE InSetup(Setup!Next)
  BY <1>1, WebStep DEF InSetup, ServedInv
<1>2. CASE Boot
  <2>1. /\ phase = "setup" /\ phase' = "station" /\ WebInv
        /\ conn' = [c \in DOMAIN conn |-> Setup!Over]
    BY <1>2 DEF Boot, ServedInv
  <2>2. DOMAIN conn = Setup!Conns
    BY <2>1 DEF WebInv, WebType
  <2>3. AnswersFit'
    BY <2>1, <2>2, OverType DEF AnswersFit, Setup!AnswersFit
  <2>4. QED
    BY <2>1, <2>3 DEF ServedInv
<1>3. CASE InStation(Next)
  BY <1>3 DEF InStation, ServedInv, inSetup, AnswersFit, Setup!AnswersFit
<1>4. CASE UNCHANGED device
  <2>1. phase' = phase /\ UNCHANGED <<slot, conn, inside>>
    BY <1>4 DEF device, inSetup
  <2>2. WebInv => WebInv'
    BY <2>1, WebUntouched
  <2>3. AnswersFit => AnswersFit'
    BY <2>1 DEF AnswersFit, Setup!AnswersFit
  <2>4. QED
    BY <2>1, <2>2, <2>3 DEF ServedInv, DeviceInv
<1>5. QED
  BY <1>1, <1>2, <1>3, <1>4 DEF Goes

LEMMA DeviceHolds == DeviceSpec => []DeviceInv
BY FromTheBoxJoins, DeviceStep, PTL DEF DeviceSpec

LEMMA ServedHolds == DeviceSpec => []ServedInv
<1>1. FromTheBox => DeviceInv /\ ServedInv
  BY FromTheBoxJoins, FromTheBoxServes
<1>2. DeviceInv /\ ServedInv /\ [Goes]_device => (DeviceInv /\ ServedInv)'
  BY DeviceStep, ServedStep
<1>3. QED
  BY <1>1, <1>2, PTL DEF DeviceSpec

-------------------------------------------------------------------------------
\* While the portal serves, its variables have their types; once the device is
\* on its network, the join's have (httpd.c, provisioning.c, net.c).
THEOREM DeviceTypes == DeviceSpec => [](IF phase = "setup" THEN Setup!TypeOK ELSE TypeOK)
<1>1. DeviceInv /\ ServedInv => IF phase = "setup" THEN Setup!TypeOK ELSE TypeOK
  BY SetupTypes DEF DeviceInv, ServedInv, JoinSide, SetupInv, IInv
<1>2. QED
  BY <1>1, DeviceHolds, ServedHolds, PTL

\* What a phone is told is the answer to what it asked, and in good order it is
\* told all of it, for every number of slots, of phones and of scans inside
\* scans, whoever is lost meanwhile; save one in whose slot another's scan has
\* returned, which is told of that scan at worst (httpd.c).
THEOREM AnswersFitEver == DeviceSpec => []AnswersFit
<1>1. DeviceInv /\ ServedInv => AnswersFit
  BY DEF DeviceInv, ServedInv, WebInv
<1>2. QED
  BY <1>1, DeviceHolds, ServedHolds, PTL

\* A network in flash has given this device an address: whatever phones post
\* while an attempt runs, before a commit and after it, and whoever of them is
\* lost meanwhile (provisioning.c).
THEOREM OnlyProvenNetworks == DeviceSpec => []NetworkWasProven
<1>1. DeviceInv => NetworkWasProven
  BY DEF DeviceInv, JoinSide, JoinInv, NetworkWasProven, Setup!NetworkWasProven
<1>2. QED
  BY <1>1, DeviceHolds, PTL

\* A device that phones set up stalls in its attempts no more than one that
\* was configured otherwise (net.c).
THEOREM DeviceNeverStalls == DeviceSpec => []NothingStalls
<1>1. IInv => NothingStalls
  BY StationAssumption DEF IInv, AttemptInv, AddressInv, TypeOK, Deadlines, NothingStalls,
                          ConstantsOK
<1>2. StationAtRest => NothingStalls
  BY StationAssumption DEF StationAtRest, Rest, NothingStalls, ConstantsOK
<1>3. DeviceInv => NothingStalls
  BY <1>1, <1>2 DEF DeviceInv
<1>4. QED
  BY <1>3, DeviceHolds, PTL

\* Nor does it have the device join again on a link that is up before the grace
\* of a lost address is over (net.c).
THEOREM DeviceGraceIsWhole == DeviceSpec => GraceIsWhole
<1>1. DeviceInv /\ [Goes]_device => [GivenUp => GraceDone]_vars
  <2> SUFFICES ASSUME DeviceInv, [Goes]_device, GivenUp PROVE GraceDone
    OBVIOUS
  <2>1. state = "joined" /\ state' = "failed"
    BY DEF GivenUp
  <2>2. InStation(Next)
    BY <2>1 DEF Goes, InSetup, Boot, device, inStation
  <2>3. phase = "station" /\ Next
    BY <2>2 DEF InStation
  <2>4. IInv
    BY <2>3 DEF DeviceInv
  <2>5. QED
    BY <2>3, <2>4, GraceStep, StationAssumption
<1>2. QED
  BY <1>1, DeviceHolds, PTL DEF DeviceSpec, GraceIsWhole, GraceDone

===============================================================================
