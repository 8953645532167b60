--------------------------------- MODULE Plug ---------------------------------
(***************************************************************************)
(* The plug driver (firmware/src/plug/plug.c) and the HTTP client under it *)
(* (net/httpc.c): one operation at a time against a smart plug that is     *)
(* known by its MAC and looked for at an address that may be out of date.  *)
(*                                                                         *)
(* rw_plug_task() is the main loop's; each of its branches is an action.   *)
(* The one call that waits is rw_lan_sweep() inside resolve_by_mac(): it   *)
(* pumps the network stack, so the relay's connection may close, and with  *)
(* it rw_plug_cancel() run, before it returns.  The plug, the others on    *)
(* the segment and lwIP's ARP table are the environment.                   *)
(***************************************************************************)
EXTENDS Naturals, FiniteSets

CONSTANTS
  Addresses,     \* the host addresses of the segment
  Gone,          \* where a plug is that is on none of them
  RetryMax,      \* PLUG_RETRY_MAX
  MaxFaults,     \* bound: exchanges lost or refused, pools empty, switches tripped
  MaxMoves       \* bound: changes of the plug's address

ASSUME RetryAssumption == RetryMax \in Nat
ASSUME BoundsAssumption == MaxFaults \in Nat /\ MaxMoves \in Nat
ASSUME AddressAssumption == Gone \notin Addresses

Sets == {"on", "off", "cycle"}
Ops == Sets \cup {"status", "fw_check", "fw_update"}
Phases == {"IDLE", "PROBE", "ACT", "WAIT", "ACT2", "VERIFY", "WIFI",
           "FW_INFO", "FW_LATEST", "FW_UPDATE"}
Replies == {"target", "stranger", "nonsense", "refused", "on", "off", "ok"}

VARIABLES
  op, phase,           \* the operation (action, is_status, ...) and s.phase
  ip,                  \* s.ip
  addrConfirmed, macSeen, sweepRan, resolvedOnce,
  retries, afterWait,  \* s.retries, s.after_wait
  cb,                  \* s.cb # NULL
  st,                  \* s.st.on, held while PHASE_WIFI runs
  outcome,             \* what finish() last reported
  sweeping,            \* rw_plug_task() is inside rw_lan_sweep()
  http,                \* rw_httpc_state()
  reply,               \* what the other end has answered to the request in the air
  where, gen, power,   \* the plug: its address, its generation, its channel
  arp, learned,        \* addresses under its MAC in lwIP's table; in arplearn's
  faults, moves,       \* the bounds' remainders
  \* what happened in this operation, for the properties:
  heard,               \* how often the caller was called back
  cancelled,           \* it was cancelled
  cut, restored,       \* its off was carried out, or acknowledged; its on was carried out
  since,               \* the channel's states since it began or last switched it
  met,                 \* where the plug identified itself
  around, moved,       \* the plug was on the segment; it moved
  swept                \* it was swept for, and the row was its own, or an older entry's

driver == <<op, phase, ip, addrConfirmed, macSeen, sweepRan, resolvedOnce, retries, afterWait, cb, st>>
request == <<http, reply>>
plug == <<where, gen, power>>
segment == <<arp, learned>>
budget == <<faults, moves>>
history == <<cut, restored, since, met, around, swept, moved>>
vars == <<driver, outcome, sweeping, request, plug, segment, budget, heard, cancelled, history>>

NoOutcome == [ok |-> FALSE, err |-> "none", on |-> FALSE, presence |-> "unknown"]

Outcomes == [ok : BOOLEAN, err : {"none", "plug_unreachable", "plug_unsupported"},
             on : BOOLEAN, presence : {"unknown", "mute", "absent"}]

\* Every variable has its type: phase and operation are those of plug.c, the
\* retries stay within PLUG_RETRY_MAX and the caller hears of an outcome once.
TypeOK ==
  /\ op \in Ops /\ phase \in Phases /\ ip \in Addresses
  /\ addrConfirmed \in BOOLEAN /\ macSeen \in BOOLEAN
  /\ sweepRan \in BOOLEAN /\ resolvedOnce \in BOOLEAN
  /\ cb \in BOOLEAN /\ st \in BOOLEAN /\ sweeping \in BOOLEAN
  /\ retries \in 0 .. RetryMax /\ afterWait \in {"PROBE", "ACT2", "VERIFY"}
  /\ outcome \in Outcomes
  /\ http \in {"idle", "active", "failed", "done"} /\ reply \in Replies \cup {"none"}
  /\ where \in Addresses \cup {Gone} /\ gen \in {1, 2} /\ power \in BOOLEAN
  /\ arp \subseteq Addresses /\ learned \in Addresses \cup {Gone}
  /\ faults \in 0 .. MaxFaults /\ moves \in 0 .. MaxMoves
  /\ heard \in 0 .. 1 /\ cancelled \in BOOLEAN
  /\ cut \in {"no", "made", "acknowledged"} /\ restored \in BOOLEAN
  /\ since \subseteq BOOLEAN /\ met \subseteq Addresses
  /\ around \in BOOLEAN /\ swept \in {"no", "live", "stale"} /\ moved \in BOOLEAN

Init ==
  /\ phase = "IDLE" /\ op = "status" /\ cb = FALSE /\ st = FALSE /\ ip \in Addresses
  /\ addrConfirmed = FALSE /\ macSeen = FALSE /\ sweepRan = FALSE /\ resolvedOnce = FALSE
  /\ retries = 0 /\ afterWait = "PROBE" /\ outcome = NoOutcome /\ sweeping = FALSE
  /\ http = "idle" /\ reply = "none"
  /\ where \in Addresses \cup {Gone} /\ gen \in {1, 2} /\ power = TRUE
  /\ arp = {} /\ learned \in Addresses \cup {Gone}
  /\ faults = MaxFaults /\ moves = MaxMoves
  /\ heard = 0 /\ cancelled = FALSE /\ cut = "no" /\ restored = FALSE /\ swept = "no" /\ moved = FALSE
  /\ around = (where # Gone) /\ since = {TRUE} /\ met = {}

Fault == faults > 0 /\ faults' = faults - 1

-------------------------------------------------------------------------------
(***************************************************************************)
(* Ending, starting and retrying a leg.                                    *)
(***************************************************************************)

Presence(err) ==
  IF err # "plug_unreachable" THEN "unknown"
  ELSE IF macSeen' THEN "mute" ELSE IF sweepRan' THEN "absent" ELSE "unknown"

Finish(ok, err, on) ==
  /\ phase' = "IDLE" /\ http' = "idle" /\ reply' = "none"
  /\ outcome' = [ok |-> ok, err |-> err, on |-> on, presence |-> Presence(err)]
  /\ UNCHANGED <<retries, afterWait>>

\* rw_httpc_start(): an exchange begins with nothing read.
ExchangeBegins == http' = "active" /\ reply' = "none"

SendRequest(leg) ==
  /\ phase' = leg /\ ExchangeBegins
  /\ UNCHANGED <<retries, afterWait, outcome>>

\* Mutated form: the attempt is not counted.
ScheduleRetry_Uncounted(leg) ==
  /\ retries' = retries /\ afterWait' = leg
  /\ phase' = "WAIT" /\ http' = "idle" /\ reply' = "none"
  /\ UNCHANGED outcome

ScheduleRetry(leg) ==
  /\ retries' = retries + 1 /\ afterWait' = leg
  /\ phase' = "WAIT" /\ http' = "idle" /\ reply' = "none"
  /\ UNCHANGED outcome

\* Mutated form: only the confirming read is retried.
PastTheCut_ReadOnly(leg) == op = "cycle" /\ leg = "VERIFY"

PastTheCut(leg) == op = "cycle" /\ leg \in {"ACT2", "VERIFY"}

RetryOrFinish(leg, err) ==
  IF PastTheCut(leg) /\ retries < RetryMax
    THEN ScheduleRetry(leg)
    ELSE Finish(FALSE, err, FALSE)

\* A leg begins, or finds lwIP's pool of four pcbs empty.
RunLeg(leg) ==
  \/ SendRequest(leg) /\ UNCHANGED faults
  \/ Fault /\ RetryOrFinish(leg, "plug_unreachable")

\* Every end of an operation but a cancelled one calls back.
CallBack == heard' = heard + (IF phase' = "IDLE" /\ cb THEN 1 ELSE 0)

\* rw_plug_set_start(), rw_plug_status_start() and the two of the firmware.
Start(o, a) ==
  /\ phase = "IDLE" /\ ~sweeping
  /\ op' = o /\ ip' = a /\ cb' = TRUE /\ st' = FALSE
  /\ addrConfirmed' = FALSE /\ macSeen' = FALSE /\ sweepRan' = FALSE /\ resolvedOnce' = FALSE
  /\ \/ /\ phase' = "PROBE" /\ ExchangeBegins /\ heard' = 0
        /\ outcome' = NoOutcome /\ UNCHANGED faults
     \/ /\ Fault /\ phase' = "IDLE" /\ http' = "idle" /\ reply' = "none" /\ heard' = 1
        /\ outcome' = [NoOutcome EXCEPT !.err = "plug_unreachable"]
  /\ retries' = 0 /\ afterWait' = "PROBE"
  /\ cancelled' = FALSE /\ cut' = "no" /\ restored' = FALSE /\ since' = {power} /\ met' = {}
  /\ around' = (where # Gone) /\ swept' = "no" /\ moved' = FALSE
  /\ UNCHANGED <<sweeping, plug, segment, moves>>

-------------------------------------------------------------------------------
(***************************************************************************)
(* rw_plug_task().                                                         *)
(***************************************************************************)

Over == http \in {"failed", "done"}

\* plug/shelly.c, on the response in hand.  rw_shelly_http_split() and the
\* parsers refuse what is not the answer that was asked for,
Unreadable == reply = "refused"

\* rw_shelly_identify() accepts the identity of any Shelly plug,
Identifies == reply \in {"target", "stranger"}

\* rw_shelly_parse_status() reads the channel's state,
ReadsOn == reply = "on"

\* rw_shelly_parse_set() finds a state in generation 1's answer alone,
HasState == gen = 1

\* and generation 2 tells its version and what is newer in two answers.
InTwoAnswers == gen = 2

Failed == http = "failed" \/ Unreadable
Why == IF http = "failed" THEN "plug_unreachable" ELSE "plug_unsupported"

Task(ph) == phase = ph /\ ~sweeping /\ Over
Aside == CallBack /\ UNCHANGED <<op, ip, cb, plug, segment, moves, cancelled>>
Standing == UNCHANGED <<addrConfirmed, macSeen, sweepRan, resolvedOnce, st>>
NoHistory == UNCHANGED history

Leg == CASE op = "fw_check" -> "FW_INFO" [] op = "fw_update" -> "FW_UPDATE" [] OTHER -> "ACT"

\* Mutated form: any plug will do.
Identified_Any ==
  /\ Task("PROBE") /\ http = "done" /\ Identifies
  /\ addrConfirmed' = TRUE /\ macSeen' = TRUE /\ UNCHANGED <<sweepRan, resolvedOnce, st, sweeping>>
  /\ RunLeg(Leg)
  /\ Aside /\ NoHistory

\* probe_done(): the plug itself answered.
Identified ==
  /\ Task("PROBE") /\ http = "done" /\ reply = "target"
  /\ addrConfirmed' = TRUE /\ macSeen' = TRUE /\ UNCHANGED <<sweepRan, resolvedOnce, st, sweeping>>
  /\ RunLeg(Leg)
  /\ Aside /\ NoHistory

\* Mutated form: the table counts as having seen the plug.
ResolvedFromCache_Counts ==
  /\ Task("PROBE") /\ reply # "target" /\ ~resolvedOnce
  /\ learned # Gone /\ learned # ip
  /\ resolvedOnce' = TRUE /\ ip' = learned /\ macSeen' = TRUE
  /\ UNCHANGED <<addrConfirmed, sweepRan>>
  /\ RunLeg("PROBE")
  /\ CallBack /\ NoHistory
  /\ UNCHANGED <<op, cb, st, plug, segment, moves, cancelled, sweeping>>

\* probe_done(): silence or another; resolve_by_mac() finds an address in arplearn's table.
ResolvedFromCache ==
  /\ Task("PROBE") /\ reply # "target" /\ ~resolvedOnce
  /\ learned # Gone /\ learned # ip
  /\ resolvedOnce' = TRUE /\ ip' = learned
  /\ UNCHANGED <<addrConfirmed, macSeen, sweepRan>>
  /\ RunLeg("PROBE")
  /\ CallBack /\ NoHistory
  /\ UNCHANGED <<op, cb, st, plug, segment, moves, cancelled, sweeping>>

\* Mutated form: the one lookup is not noted.
SweepBegins_Again ==
  /\ Task("PROBE") /\ reply # "target" /\ ~resolvedOnce
  /\ learned = Gone \/ learned = ip
  /\ sweeping' = TRUE
  /\ http' = "idle" /\ reply' = "none"
  /\ UNCHANGED <<phase, retries, afterWait, outcome, addrConfirmed, macSeen, sweepRan, resolvedOnce, st, faults>>
  /\ Aside /\ NoHistory

\* The same, but there is nothing new in that table: the sweep begins.
SweepBegins ==
  /\ Task("PROBE") /\ reply # "target" /\ ~resolvedOnce
  /\ learned = Gone \/ learned = ip
  /\ resolvedOnce' = TRUE /\ sweeping' = TRUE
  /\ http' = "idle" /\ reply' = "none"
  /\ UNCHANGED <<phase, retries, afterWait, outcome, addrConfirmed, macSeen, sweepRan, st, faults>>
  /\ Aside /\ NoHistory

\* drain(): under the plug's MAC lwIP's table holds its answer to the sweep, and
\* what it held before, of an address the plug may have left.
Drained == arp \cup ({where} \ {Gone})

\* The sweep ends in one row for the MAC: known() keeps the first of them.  A
\* plug on the segment may be missed.
SweepFinds(a) ==
  /\ sweeping /\ sweeping' = FALSE
  /\ a \in Drained
  /\ sweepRan' = TRUE /\ macSeen' = TRUE /\ ip' = a
  /\ swept' = IF a = where THEN "live" ELSE "stale"
  /\ arp' \in {arp \cup {a}, Drained}
  /\ RunLeg("PROBE")
  /\ CallBack
  /\ UNCHANGED <<addrConfirmed, resolvedOnce, op, cb, st, plug, learned, moves, cancelled>>
  /\ UNCHANGED <<cut, restored, since, met, around, moved>>

SweepMisses ==
  /\ sweeping /\ sweeping' = FALSE
  /\ \/ where = Gone /\ arp = {} /\ UNCHANGED faults
     \/ Fault
  /\ \E joined \in BOOLEAN :
       sweepRan' = joined /\ swept' = IF joined THEN "live" ELSE swept
  /\ UNCHANGED <<addrConfirmed, macSeen, resolvedOnce, st>>
  /\ Finish(FALSE, "plug_unreachable", FALSE)
  /\ Aside /\ UNCHANGED <<cut, restored, since, met, around, moved>>

\* probe_done(): out of moves.
NotFound ==
  /\ Task("PROBE") /\ reply # "target" /\ resolvedOnce
  /\ Standing
  /\ Finish(FALSE, IF addrConfirmed /\ Identifies THEN "plug_unsupported"
                                                ELSE "plug_unreachable", FALSE)
  /\ UNCHANGED <<sweeping, faults>> /\ Aside /\ NoHistory

\* act_done(): the exchange failed, or its body does not parse.
ActFails(leg) ==
  /\ Task(leg) /\ Failed /\ Standing
  /\ RetryOrFinish(leg, Why)
  /\ UNCHANGED <<sweeping, faults>> /\ Aside /\ NoHistory

\* act_done(): a switch's state was read, to confirm a set or for plug_status.
Confirmed ==
  /\ Task("VERIFY") /\ ~Failed /\ Standing
  /\ Finish(TRUE, "none", ReadsOn)
  /\ UNCHANGED <<sweeping, faults>> /\ Aside /\ NoHistory

\* Generation 2 keeps the signal strength elsewhere; not to get it costs nothing.
StatusRead ==
  /\ Task("ACT") /\ ~Failed /\ op = "status"
  /\ UNCHANGED <<addrConfirmed, macSeen, sweepRan, resolvedOnce>>
  /\ IF gen = 2
       THEN /\ st' = ReadsOn
            /\ \/ SendRequest("WIFI") /\ UNCHANGED faults
               \/ Fault /\ Finish(TRUE, "none", ReadsOn)
       ELSE Finish(TRUE, "none", ReadsOn) /\ UNCHANGED <<st, faults>>
  /\ UNCHANGED sweeping /\ Aside /\ NoHistory

\* act_done(): the cycle's off is acknowledged, and the dwell begins.
CutDone ==
  /\ Task("ACT") /\ ~Failed /\ op = "cycle" /\ Standing
  /\ phase' = "WAIT" /\ afterWait' = "ACT2" /\ UNCHANGED <<retries, outcome, http, reply>>
  /\ cut' = "acknowledged" /\ UNCHANGED <<restored, since, met, around, swept, moved>>
  /\ UNCHANGED <<sweeping, faults>> /\ Aside

\* Mutated form: what the reply says is the answer, whatever the generation.
SetDone_Echoes(leg) ==
  /\ Task(leg) /\ ~Failed /\ Standing
  /\ leg = "ACT2" \/ op \in {"on", "off"}
  /\ Finish(TRUE, "none", ReadsOn)
  /\ UNCHANGED <<sweeping, faults>> /\ Aside /\ NoHistory

\* act_done(): a set is accepted.  Generation 1 has said what it led to.
SetDone(leg) ==
  /\ Task(leg) /\ ~Failed /\ Standing
  /\ leg = "ACT2" \/ op \in {"on", "off"}
  /\ IF HasState THEN Finish(TRUE, "none", ReadsOn) /\ UNCHANGED faults
                 ELSE RunLeg("VERIFY")
  /\ UNCHANGED sweeping /\ Aside /\ NoHistory

\* The dwell, or the gap before a retry, is over.
WaitDone ==
  /\ phase = "WAIT" /\ ~sweeping /\ Standing
  /\ RunLeg(afterWait)
  /\ UNCHANGED sweeping /\ Aside /\ NoHistory

\* wifi_done(): well or badly, the status succeeds.  Its state is the one in s.st.
WifiDone ==
  /\ Task("WIFI") /\ Standing
  /\ Finish(TRUE, "none", st)
  /\ UNCHANGED <<sweeping, faults>> /\ Aside /\ NoHistory

\* fw_done()
FirmwareDone(leg) ==
  /\ Task(leg) /\ Standing
  /\ IF Failed THEN Finish(FALSE, Why, FALSE) /\ UNCHANGED faults
     ELSE IF leg = "FW_INFO" /\ InTwoAnswers THEN RunLeg("FW_LATEST")
     ELSE Finish(TRUE, "none", FALSE) /\ UNCHANGED faults
  /\ UNCHANGED sweeping /\ Aside /\ NoHistory

-------------------------------------------------------------------------------
(***************************************************************************)
(* rw_plug_cancel(), from on_close() of the connection the operation       *)
(* belongs to; it may run inside the sweep.                                *)
(***************************************************************************)

\* Mutated form: a cycle is abandoned like anything else.
Cancel_Abandons ==
  /\ cb /\ phase # "IDLE"
  /\ cb' = FALSE /\ cancelled' = TRUE
  /\ phase' = "IDLE" /\ http' = "idle" /\ reply' = "none"
  /\ UNCHANGED <<op, ip, addrConfirmed, macSeen, sweepRan, resolvedOnce, retries, afterWait, st>>
  /\ UNCHANGED <<outcome, sweeping, plug, segment, budget, heard, history>>

Cancel ==
  /\ cb /\ phase # "IDLE"
  /\ cb' = FALSE /\ cancelled' = TRUE
  /\ IF op = "cycle" /\ phase # "PROBE"
       THEN UNCHANGED <<phase, request>>
       ELSE phase' = "IDLE" /\ http' = "idle" /\ reply' = "none"
  /\ UNCHANGED <<op, ip, addrConfirmed, macSeen, sweepRan, resolvedOnce, retries, afterWait, st>>
  /\ UNCHANGED <<outcome, sweeping, plug, segment, budget, heard, history>>

-------------------------------------------------------------------------------
(***************************************************************************)
(* The plug, the segment and the exchange in the air.                      *)
(***************************************************************************)

\* What is asked of the other end: rw_shelly_req_identify(), _set() or _status(),
\* or what says nothing of a channel.
Asking ==
  CASE phase = "PROBE" -> "who"
    [] phase \in {"ACT", "ACT2", "VERIFY"} -> "channel"
    [] OTHER -> "about"

Reading(on) == IF on THEN "on" ELSE "off"
Switches == op \in Sets /\ phase \in {"ACT", "ACT2"}
Ordered == op = "on" \/ phase = "ACT2"

\* The plug carries the request out.  To a set, generation 1 answers with the
\* channel's new state and generation 2 with the one before.
PlugAnswers ==
  /\ http = "active" /\ reply = "none" /\ ip = where
  /\ power' = IF Switches THEN Ordered ELSE power
  /\ since' = IF Switches THEN {Ordered} ELSE since
  /\ cut' = IF op = "cycle" /\ phase = "ACT" THEN "made" ELSE cut
  /\ restored' = (restored \/ phase = "ACT2")
  /\ arp' = arp \cup {ip}
  /\ reply' = CASE Asking = "who" -> "target"
                [] Asking = "channel" -> Reading(IF gen = 1 THEN power' ELSE power)
                [] Asking = "about" -> "ok"
  /\ UNCHANGED <<driver, outcome, sweeping, http, where, gen, learned, budget>>
  /\ UNCHANGED <<heard, cancelled, met, around, swept, moved>>

\* The plug answers with an HTTP error, or with what this driver cannot read.
PlugRefuses ==
  /\ http = "active" /\ reply = "none" /\ ip = where /\ Fault
  /\ reply' = "refused" /\ arp' = arp \cup {ip}
  /\ UNCHANGED <<driver, outcome, sweeping, http, plug, learned, moves, heard, cancelled, history>>

\* Another device answers: another plug, or something that is none.
OtherAnswers ==
  /\ http = "active" /\ reply = "none" /\ ip # where
  /\ reply' \in IF Asking = "who" THEN {"stranger", "nonsense"} ELSE {"on", "off", "refused"}
  /\ UNCHANGED <<driver, outcome, sweeping, http, plug, segment, budget, heard, cancelled, history>>

Delivered ==
  /\ http = "active" /\ reply # "none" /\ http' = "done"
  /\ met' = IF reply = "target" THEN met \cup {ip} ELSE met
  /\ UNCHANGED <<driver, outcome, sweeping, reply, plug, segment, budget, heard, cancelled>>
  /\ UNCHANGED <<cut, restored, since, around, swept, moved>>

\* The deadline, a reset, or a body that is too long.  Without a fault it is
\* only silence that ends so.
Lost ==
  /\ http = "active" /\ http' = "failed" /\ reply' = "none"
  /\ \/ ip # where /\ reply = "none" /\ UNCHANGED faults
     \/ Fault
  /\ UNCHANGED <<driver, outcome, sweeping, plug, segment, moves, heard, cancelled, history>>

\* Overload protection, or a hand, switches the channel off.
Trips ==
  /\ power /\ Fault
  /\ power' = FALSE /\ since' = since \cup {FALSE}
  /\ UNCHANGED <<driver, outcome, sweeping, request, where, gen, segment, moves, heard, cancelled>>
  /\ UNCHANGED <<cut, restored, met, around, swept, moved>>

\* Another lease, or another network: the table goes on naming the old address.
PlugMoves(a) ==
  /\ moves > 0 /\ moves' = moves - 1 /\ a # where /\ where' = a
  /\ around' = (around \/ a # Gone) /\ moved' = TRUE
  /\ UNCHANGED <<driver, outcome, sweeping, request, gen, power, segment, faults, heard, cancelled>>
  /\ UNCHANGED <<cut, restored, since, met, swept>>

\* rw_arp_learn_tick() copies lwIP's table; its entries do not age.
Learns(a) ==
  /\ a \in arp /\ a # learned /\ learned' = a /\ ~sweeping
  /\ UNCHANGED <<driver, outcome, sweeping, request, plug, arp, budget, heard, cancelled, history>>

\* lwIP's entries do age.
ArpExpires(a) ==
  /\ a \in arp /\ arp' = arp \ {a}
  /\ UNCHANGED <<driver, outcome, sweeping, request, plug, learned, budget, heard, cancelled, history>>

-------------------------------------------------------------------------------
TaskStep ==
  \/ Identified \/ ResolvedFromCache \/ SweepBegins \/ NotFound
  \/ (\E leg \in {"ACT", "ACT2", "VERIFY"} : ActFails(leg))
  \/ Confirmed \/ StatusRead \/ CutDone
  \/ (\E leg \in {"ACT", "ACT2"} : SetDone(leg))
  \/ WaitDone \/ WifiDone
  \/ (\E leg \in {"FW_INFO", "FW_LATEST", "FW_UPDATE"} : FirmwareDone(leg))

SweepEnds == (\E a \in Addresses : SweepFinds(a)) \/ SweepMisses

Exchange == PlugAnswers \/ PlugRefuses \/ OtherAnswers \/ Delivered \/ Lost

Surroundings ==
  \/ Trips
  \/ \E a \in Addresses \cup {Gone} : PlugMoves(a)
  \/ \E a \in Addresses : Learns(a) \/ ArpExpires(a)

Next ==
  \/ (\E o \in Ops, a \in Addresses : Start(o, a))
  \/ TaskStep \/ SweepEnds \/ Cancel \/ Exchange \/ Surroundings

Spec == Init /\ [][Next]_vars

\* The main loop runs, a sweep ends by its budget and an exchange by its deadline.
FairSpec == Spec /\ WF_vars(TaskStep) /\ WF_vars(SweepEnds) /\ WF_vars(Exchange)

-------------------------------------------------------------------------------
(***************************************************************************)
(* Properties.                                                             *)
(***************************************************************************)

Ends == phase # "IDLE" /\ phase' = "IDLE"

\* Every request beyond the first goes to an address at which the plug of that
\* MAC has identified itself in this very operation (PROTOCOL.md, plug_set: a
\* reassigned lease is detected, never driven).
DrivesOnlyTheNamed ==
  phase \notin {"IDLE", "PROBE"} => ip \in met

\* A cycle whose off the plug has acknowledged does not end, cancelled or not,
\* before its on has been carried out or its retries are spent.
CutIsRestored ==
  [][Ends /\ cut = "acknowledged" => restored' \/ retries = RetryMax \/ moved]_vars

\* The same of a cycle whose off was carried out, acknowledged or not
\* (PROTOCOL.md, plug_result: a cycle that has cut power MUST retry the restore).
NoCutIsForgotten ==
  [][Ends /\ cut # "no" => restored' \/ retries = RetryMax \/ moved]_vars

\* A success reports a state the channel really had after it was last switched,
\* and never the state before (PROTOCOL.md, plug_result: observed, never assumed).
ObservedNotAssumed ==
  [][Ends /\ outcome'.ok /\ ~cancelled' /\ op \in Sets \cup {"status"} /\ ~moved
       => outcome'.on \in since]_vars

\* plug.h, plug_done: one outcome for each operation, none for a cancelled one.
OneOutcome ==
  /\ phase = "IDLE" /\ ~cancelled /\ cb => heard = 1
  /\ phase # "IDLE" => heard = 0
  /\ cancelled => heard = 0

\* mute is said of a plug that was on the segment in this attempt, or whose row
\* in the sweep was an entry older than the sweep; absent of one that a sweep of
\* this attempt looked for and that never identified itself.
VerdictEarned ==
  [][Ends /\ ~cancelled' =>
       /\ outcome'.presence = "mute" => around \/ swept' = "stale"
       /\ outcome'.presence = "absent" => swept' = "live" /\ met = {}]_vars

\* The same of mute without the exception (PROTOCOL.md, plug_result: a cached
\* ARP entry must not count as seen, passive history is not presence).  The code
\* does not have it.
MuteWasSeen ==
  [][Ends /\ ~cancelled' /\ outcome'.presence = "mute" => around]_vars

\* What proto.c is written to: the five variables of PlugDriver, read off plug.c's.
Stage ==
  CASE phase = "IDLE" -> "idle"
    [] phase = "PROBE" -> IF resolvedOnce THEN "found" ELSE "probe"
    [] OTHER -> IF op = "cycle" THEN "cut" ELSE "act"

Promise == INSTANCE PlugDriver WITH
  stage <- Stage, cycle <- (op = "cycle"), caller <- cb, sweeping <- sweeping, heard <- heard

\* The driver keeps its promise to the relay session (plug.h): one operation at a
\* time, one call back, a cycle past its probe that outlives its cancellation.
KeepsItsPromise == Promise!DriverSpec

\* Every operation ends, so rw_plug_busy() does not stay true.
OperationEnds == phase # "IDLE" ~> phase = "IDLE"

\* With no more faults than retries, a cut is followed by the on, whether the
\* connection holds or not, unless the plug has moved meanwhile.
PowerComesBack == cut = "acknowledged" ~> restored \/ moved

===============================================================================
