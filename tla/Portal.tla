-------------------------------- MODULE Portal --------------------------------
(***************************************************************************)
(* Setup mode (firmware/src/provisioning): the captive portal's HTTP       *)
(* server with its few connection slots (httpd.c), the API behind it and   *)
(* the test join (provisioning.c), and the network scan it runs            *)
(* (net/scan.c).                                                           *)
(*                                                                         *)
(* The HTTP server lives in lwIP's callbacks, the join in the main loop.   *)
(* A scan runs inside the callback that asked for it and pumps the stack,  *)
(* so other connections are served inside it (`inside` is the stack of     *)
(* scans under way) and the main loop waits.  The server keeps the slot of *)
(* a scan and not its connection, which may be lost before the scan ends:  *)
(* `asker` and `crossed` keep it for the properties.                       *)
(***************************************************************************)
EXTENDS Radio, Sequences, SequencesExt

CONSTANTS
  MaxSlots,    \* RW_HTTPD_MAX_CONNS
  MaxConns,    \* bound: connections opened in one run
  Visits,      \* bound: what the connections of one run ask, in the order they are made
  Networks     \* bound: the handshakes the access points of one run take

VARIABLES
  up,         \* s_active
  join,       \* s_join
  joinKey,    \* s_join_ssid, s_join_psk
  dialled,    \* what the driver was last given
  stage,      \* s_stage: the network, and whether anything is dirty
  saved,      \* the network in flash, and in *s_live
  reboot,     \* s_reboot_pending
  slot,       \* s_conns
  conn,       \* the phones' side of each connection
  inside,     \* the scans under way, innermost last
  active,     \* cyw43_wifi_scan_active
  proven      \* history: the networks that gave an address

web == <<slot, conn>>
scans == <<inside, active>>
joining == <<join, joinKey, dialled>>
setup == <<up, joining, stage, saved, reboot, web, scans, proven>>
vars == <<radio, faults, setup>>

Keys    == {"right", "wrong"}      \* a network and a password, posted to /api/join
Asks    == Keys \cup {"page", "scan", "poll", "config", "commit"}
Slots   == 1 .. MaxSlots
Conns   == 1 .. MaxConns
Pieces  == 2                       \* an answer is a head and a body
Results == {"ok", "badauth", "notfound", "timeout"}

Free == [pcb |-> 0, handled |-> FALSE, reply |-> "none", sent |-> 0, acked |-> 0]
Unopened(what) == [st |-> "new", ask |-> what, told |-> "none", got |-> 0,
                   crossed |-> FALSE]
Over == [st |-> "over", ask |-> "none", told |-> "none", got |-> 0, crossed |-> FALSE]

Served == [pcb : Conns \cup {0}, handled : BOOLEAN, reply : Asks \cup {"none"},
           sent : 0 .. Pieces, acked : 0 .. Pieces]
Visitors == [st : {"new", "open", "left", "served", "over"}, ask : Asks \cup {"none"},
             told : Asks \cup {"none"}, got : 0 .. Pieces, crossed : BOOLEAN]
Underway == [slot : Slots, over : BOOLEAN, asker : Conns]

\* What the constants are assumed to be; FirstBoot assumes it of its own.
ConstantsOK ==
  /\ MaxSlots \in Nat \ {0} /\ MaxConns \in Nat /\ MaxFaults \in Nat
  /\ Networks \subseteq SUBSET Modes /\ Visits \subseteq [Conns -> Asks]

TypeOK ==
  /\ RadioTypeOK
  /\ up \in BOOLEAN /\ reboot \in BOOLEAN
  /\ join \in Results \cup {"idle", "pending", "running"}
  /\ {joinKey, dialled, saved} \subseteq Keys \cup {"none"}
  /\ stage \in [wifi : Keys \cup {"none"}, dirty : BOOLEAN]
  /\ slot \in [Slots -> Served]
  /\ conn \in [Conns -> Visitors]
  /\ inside \in Seq(Underway)
  /\ active \in BOOLEAN
  /\ proven \subseteq Keys

-------------------------------------------------------------------------------
(* Helpers *)

\* lwIP's callbacks run: from the main loop's poll, or from the pump of the
\* innermost scan while it still waits.
Callbacks == up /\ (inside # <<>> => active /\ ~Last(inside).over)

\* The main loop's tasks run.
Loop == up /\ inside = <<>>

\* conn_alloc: the first free slot, cleared.
FreeSlots == {s \in Slots : slot[s].pcb = 0}
FirstFree(s) == s \in FreeSlots /\ \A t \in FreeSlots : s <= t
Allocated(c) == [Free EXCEPT !.pcb = c]

\* conn_close and on_err; what is left in the slot conn_alloc clears.
Closed(s) == [slot EXCEPT ![s] = Free]

\* on_recv with the last of a request, one to each connection.
Asked(s, what) ==
  /\ Callbacks
  /\ slot[s].pcb # 0 /\ ~slot[s].handled
  /\ conn[slot[s].pcb].st = "open" /\ conn[slot[s].pcb].ask = what

\* respond, and the first pump: one piece at a time goes to lwIP.
Responding(s, what) ==
  [slot EXCEPT ![s] = [@ EXCEPT !.handled = TRUE, !.reply = what, !.sent = 1, !.acked = 0]]

Answer(s, what) == slot' = Responding(s, what) /\ UNCHANGED conn

\* pump: when the slot is closed. Mutated: when lwIP has taken the last piece.
Finished_Submitted(acked) == acked + 1 = Pieces
Finished(acked) == acked = Pieces

-------------------------------------------------------------------------------
\* rw_provisioning_start on a device that has no network.
Started ==
  /\ up = TRUE /\ reboot = FALSE
  /\ join = "idle" /\ joinKey = "none" /\ dialled = "none"
  /\ stage = [wifi |-> "none", dirty |-> FALSE]
  /\ slot = [s \in Slots |-> Free]
  /\ inside = <<>> /\ active = FALSE
  /\ link = "down" /\ addr = FALSE

Init ==
  /\ Started
  /\ air = TRUE /\ accepts \in Networks /\ faults = 0
  /\ saved = "none" /\ proven = {}
  /\ \E visit \in Visits : conn = [c \in Conns |-> Unopened(visit[c])]

-------------------------------------------------------------------------------
(* Connections: httpd.c *)

\* on_accept: a slot, or a refusal at once.
Accept(c) ==
  /\ Callbacks
  /\ conn[c].st = "new" /\ \A d \in Conns : d < c => conn[d].st # "new"
  /\ \/ /\ FreeSlots = {}
        /\ conn' = [conn EXCEPT ![c] = Over]
        /\ UNCHANGED slot
     \/ \E s \in Slots : /\ FirstFree(s)
                         /\ slot' = [slot EXCEPT ![s] = Allocated(c)]
                         /\ conn' = [conn EXCEPT ![c].st = "open"]
  /\ UNCHANGED <<radio, faults, up, joining, stage, saved, reboot, scans, proven>>

\* on_sent, and pump: the next piece goes, and the slot is closed when the phone
\* has acknowledged the last one, not when lwIP has taken it.
Sent(s) ==
  LET c == slot[s].pcb  acked == slot[s].acked + 1 IN
  /\ Callbacks
  /\ c # 0 /\ conn[c].st = "open" /\ slot[s].acked < slot[s].sent
  /\ slot' = IF Finished(acked)
               THEN Closed(s)
               ELSE [slot EXCEPT ![s].acked = acked, ![s].sent = acked + 1]
  /\ conn' = [conn EXCEPT ![c].told = slot[s].reply, ![c].got = acked,
                          ![c].st = IF Finished(acked) THEN "served" ELSE @]
  /\ UNCHANGED <<radio, faults, up, joining, stage, saved, reboot, scans, proven>>

Drop(s) ==
  /\ Callbacks
  /\ slot[s].pcb # 0
  /\ slot' = Closed(s)
  /\ conn' = [conn EXCEPT ![slot[s].pcb] = Over]
  /\ UNCHANGED <<radio, faults, up, joining, stage, saved, reboot, scans, proven>>

\* The phone closes or resets: on_recv without data, on_err.
PeerCloses(s) == slot[s].pcb # 0 /\ conn[slot[s].pcb].st = "open" /\ Drop(s)

\* on_poll: nothing has moved for RW_HTTPD_IDLE_TIMEOUT_MS.
IdleLimit_None(s) == FALSE
IdleLimit(s) == slot[s].pcb # 0
Idle(s) == IdleLimit(s) /\ Drop(s)

\* The phone loses the hotspot, without a word.
Leaves(c) ==
  /\ up /\ conn[c].st = "open"
  /\ conn' = [conn EXCEPT ![c].st = "left"]
  /\ UNCHANGED <<radio, faults, up, joining, stage, saved, reboot, slot, scans, proven>>

\* It has read what it was served.
Reads(c) ==
  /\ conn[c].st = "served"
  /\ conn' = [conn EXCEPT ![c] = Over]
  /\ UNCHANGED <<radio, faults, up, joining, stage, saved, reboot, slot, scans, proven>>

-------------------------------------------------------------------------------
(* The API: handle_request, and provisioning.c *)

\* The page, the stub, a probe, a redirect, an error: nothing is kept of them.
GetPage(s) ==
  /\ Asked(s, "page") /\ Answer(s, "page")
  /\ UNCHANGED <<radio, faults, up, joining, stage, saved, reboot, scans, proven>>

\* rw_portal_api_scan, rw_scan_run: it begins, and waits.
Scan(s) ==
  /\ Asked(s, "scan")
  /\ slot' = [slot EXCEPT ![s].handled = TRUE]
  /\ inside' = Append(inside, [slot |-> s, over |-> FALSE, asker |-> slot[s].pcb])
  /\ active' = TRUE
  /\ UNCHANGED <<radio, faults, up, joining, stage, saved, reboot, conn, proven>>

\* rw_portal_api_join_start: refused while an attempt is under way.
Busy_Never == FALSE
Busy == join \in {"pending", "running"}
PostJoin(s, key) ==
  /\ Asked(s, key) /\ Answer(s, key)
  /\ IF Busy THEN UNCHANGED <<join, joinKey>> ELSE join' = "pending" /\ joinKey' = key
  /\ UNCHANGED <<radio, faults, up, dialled, stage, saved, reboot, scans, proven>>

\* rw_portal_api_join_status: the stored result, whoever asks.
GetJoin(s) ==
  /\ Asked(s, "poll") /\ Answer(s, "poll")
  /\ UNCHANGED <<radio, faults, up, joining, stage, saved, reboot, scans, proven>>

\* rw_portal_api_config: a relay or an account, or neither is any good.
PostConfig(s) ==
  /\ Asked(s, "config") /\ Answer(s, "config")
  /\ stage' \in {stage, [stage EXCEPT !.dirty = TRUE]}
  /\ UNCHANGED <<radio, faults, up, joining, saved, reboot, scans, proven>>

\* rw_stage_validate
Valid == stage.dirty /\ stage.wifi # "none"

\* rw_portal_api_commit: the flash takes it, or not.
PostCommit(s) ==
  /\ Asked(s, "commit") /\ Answer(s, "commit")
  /\ \/ /\ Valid
        /\ saved' = stage.wifi /\ stage' = [stage EXCEPT !.dirty = FALSE] /\ reboot' = TRUE
        /\ UNCHANGED faults
     \/ Valid /\ faults < MaxFaults /\ faults' = faults + 1 /\ UNCHANGED <<saved, stage, reboot>>
     \/ ~Valid /\ UNCHANGED <<faults, saved, stage, reboot>>
  /\ UNCHANGED <<radio, up, joining, scans, proven>>

Request(s) ==
  \/ GetPage(s) \/ Scan(s) \/ (\E key \in Keys : PostJoin(s, key))
  \/ GetJoin(s) \/ PostConfig(s) \/ PostCommit(s)

-------------------------------------------------------------------------------
(* Scans: net/scan.c and the driver *)

InScan == UNCHANGED <<radio, faults, up, joining, stage, saved, reboot, proven>>

\* The driver reports the end of the scan, which it cannot while it joins.
Completes ==
  /\ up /\ active /\ join # "running"
  /\ active' = FALSE
  /\ UNCHANGED <<web, inside>> /\ InScan

\* RW_SCAN_TIMEOUT_MS has passed since the scan at depth i began, and since those
\* around it did.
TimesOut(i) ==
  /\ up /\ i \in DOMAIN inside /\ ~inside[i].over
  /\ \A j \in 1 .. i - 1 : inside[j].over
  /\ inside' = [inside EXCEPT ![i].over = TRUE]
  /\ UNCHANGED <<web, active>> /\ InScan

\* The innermost scan is over: the driver's flag is cleared, the answer goes to
\* whoever has the slot, and the next scan out finds the flag cleared.
ScanReturns ==
  LET scan == Last(inside)  c == slot[scan.slot].pcb IN
  /\ up /\ inside # <<>>
  /\ scan.over \/ ~active
  /\ inside' = Front(inside)
  /\ active' = FALSE
  /\ slot' = IF c = 0 THEN slot
             ELSE [slot EXCEPT ![scan.slot] = [@ EXCEPT !.reply = "scan", !.sent = 1, !.acked = 0]]
  /\ conn' = IF c \in {0, scan.asker} THEN conn ELSE [conn EXCEPT ![c].crossed = TRUE]
  /\ InScan

-------------------------------------------------------------------------------
(* The main loop: rw_provisioning_task *)

\* join_task, pending: the driver is given the attempt.
JoinStarts ==
  /\ Loop /\ join = "pending"
  /\ join' = "running"
  /\ Dial
  /\ dialled' = IF link' = "join" THEN joinKey ELSE dialled
  /\ UNCHANGED <<faults, up, joinKey, stage, saved, reboot, web, scans, proven>>

\* It will not have it. The station interface is not taken down again.
JoinCannotStart ==
  /\ Loop /\ join = "pending" /\ faults < MaxFaults
  /\ join' = "timeout" /\ faults' = faults + 1
  /\ UNCHANGED <<radio, up, joinKey, dialled, stage, saved, reboot, web, scans, proven>>

\* join_finish: the answer is stored and the radio handed back.
JoinFinish(result) ==
  /\ join' = result
  /\ Leave
  /\ UNCHANGED <<faults, up, joinKey, dialled, saved, reboot, web, scans>>

\* An address: only now is the network staged.
JoinSucceeds ==
  /\ Loop /\ join = "running" /\ link = "up"
  /\ stage' = [wifi |-> joinKey, dirty |-> TRUE]
  /\ proven' = proven \cup {dialled}
  /\ JoinFinish("ok")

JoinFails ==
  /\ Loop /\ join = "running" /\ link \in Refusals
  /\ JoinFinish(CASE link = "badauth" -> "badauth" [] link = "nonet" -> "notfound"
                  [] link = "fail" -> "timeout")
  /\ UNCHANGED <<stage, proven>>

\* JOIN_TIMEOUT_MS, looked at when the status says nothing.
Undecided_NotYetLinked == {"down"}
Undecided == {"down", "join", "noip"}
JoinExpires ==
  /\ Loop /\ join = "running" /\ link \in Undecided
  /\ JoinFinish("timeout")
  /\ UNCHANGED <<stage, proven>>

\* The hotspot goes and the device restarts, COMMIT_REBOOT_MS after the commit
\* or because the power was cut. What was not saved is gone.
Goes ==
  /\ up' = FALSE /\ reboot' = FALSE
  /\ join' = "idle" /\ joinKey' = "none" /\ dialled' = "none"
  /\ stage' = [wifi |-> "none", dirty |-> FALSE]
  /\ slot' = [s \in Slots |-> Free]
  /\ conn' = [c \in Conns |-> IF conn[c].st = "new" THEN conn[c] ELSE Over]
  /\ inside' = <<>> /\ active' = FALSE
  /\ link' = "down" /\ addr' = FALSE
  /\ UNCHANGED <<air, accepts, saved, proven>>

Reboots == Loop /\ reboot /\ Goes /\ UNCHANGED faults
PowerCut == up /\ faults < MaxFaults /\ Goes /\ faults' = faults + 1

\* rw_provisioning_start, after a restart that found no network.
Begins ==
  /\ ~up /\ saved = "none"
  /\ up' = TRUE
  /\ UNCHANGED <<radio, faults, joining, stage, saved, reboot, web, scans, proven>>

-------------------------------------------------------------------------------
\* The test join offers WPA2, whatever the network asks for.
Around ==
  /\ up
  /\ Surroundings("wpa2", dialled = "right")
  /\ UNCHANGED setup

IdleDeadline == \E s \in Slots : Idle(s)
ScanDeadline == \E i \in Slots : TimesOut(i)

Web ==
  \/ \E c \in Conns : Accept(c)
  \/ \E c \in Conns : Leaves(c) \/ Reads(c)
  \/ \E s \in Slots : Request(s) \/ Sent(s) \/ PeerCloses(s)
  \/ IdleDeadline

Scanner == Completes \/ ScanDeadline \/ ScanReturns

Tasks == JoinStarts \/ JoinCannotStart \/ JoinSucceeds \/ JoinFails \/ JoinExpires \/ Reboots

Next == Web \/ Scanner \/ Tasks \/ PowerCut \/ Begins \/ Around

\* The loop runs; deadlines are reached; a scan that is over returns.
Fairness ==
  /\ WF_vars(Begins) /\ WF_vars(ScanReturns) /\ WF_vars(Tasks)
  /\ WF_vars(ScanDeadline) /\ SF_vars(IdleDeadline)

Spec == Init /\ [][Next]_vars /\ Fairness

-------------------------------------------------------------------------------
(* Properties *)

\* What a phone is told is the answer to what it asked, and it is closed on in
\* good order only when it has the whole of it, though slots are used again at
\* once and requests of others are handled inside its own; save one whose slot
\* was another's whose scan had not returned, and that one hears of the scan.
AnswersFit ==
  \A c \in Conns :
    IF conn[c].crossed THEN conn[c].told \in {"none", conn[c].ask, "scan"}
    ELSE /\ conn[c].told \in {"none", conn[c].ask}
         /\ conn[c].st = "served" => conn[c].told = conn[c].ask /\ conn[c].got = Pieces

\* scan.c, rw_scan_run: nothing can start a second scan while one is running.  The
\* code does not have it.
OneScanAtATime == Len(inside) <= 1

\* The network in flash is one that has given this device an address: what one
\* phone posts cannot take the place of what another phone's attempt proves.
NetworkWasProven == saved # "none" => saved \in proven

\* Every attempt comes to a result that a phone can ask for, and the radio is
\* the hotspot's again, whatever the driver reports and whoever scans.
AttemptsSettle == (join \in {"pending", "running"}) ~> (join \notin {"pending", "running"})

\* Phones that went without a word do not keep their slots.
Held == {s \in Slots : slot[s].pcb # 0 /\ conn[slot[s].pcb].st = "left"}
SlotsComeFree == (Held # {}) ~> (Held = {})

===============================================================================
