----------------------------- MODULE RelayCommands -----------------------------
(***************************************************************************)
(* The commands of a READY session (firmware/src/proto/proto.c): a frame   *)
(* is taken in by the network's callback, queued one deep, carried out by  *)
(* the main loop, and answered there or from the callback of the probe     *)
(* (proto/probe.c) or of the plug driver (PlugDriver).                     *)
(*                                                                         *)
(* There is one thread.  A wake, a scan, a scan for plugs and the sweep of *)
(* a plug operation pump the network stack while they are on it: frames    *)
(* arrive and the connection closes in the middle of run_pending() or of   *)
(* rw_plug_task(), but nothing else of the main loop runs.                 *)
(*                                                                         *)
(* How a session becomes READY is in RelayLink, what an offer leads to in  *)
(* OtaUpdate, what a plug operation does in Plug.  A command refused at    *)
(* its frame is answered there and leaves no trace, and is not modelled.   *)
(***************************************************************************)
EXTENDS PlugDriver

CONSTANTS
  Ids,          \* the req_ids of a connection's commands
  NoId,         \* the empty req_id
  Asked         \* bound: the types of command the relay sends

ASSUME IdAssumption == NoId \notin Ids

PlugKinds == {"plug_set", "plug_status", "plug_fw_check", "plug_fw_update"}
Pumping == {"wake", "scan", "plug_scan"}
Kinds == PlugKinds \cup Pumping \cup {"status", "probe", "ota_offer"}

\* The commands that name a machine or a plug.
Aimed == PlugKinds \cup {"wake", "probe"}

ASSUME AskedAssumption == Asked \subseteq Kinds

VARIABLES
  link,        \* the session: ready; closing, READY still but its socket is not; down
  kind, reqId, \* the command that waits or runs: s.kind, s.req_id
  onStack,     \* the command whose run_pending() is pumping the stack
  mac, offer,  \* whose parameters s.mac and its kin, and s.offer, hold
  probing,     \* the probe runs
  probeOwned, probeReq,
  plugOwned, plugReq, plugKind,
  receiving,   \* s.ota.receiving
  reboot,      \* s.reboot_pending
  open,        \* the relay's side: what was accepted on this connection and not answered
  stray,       \* an answer was sent that fits none of these
  \* what later probes have done to an earlier one, for the properties:
  overtaken,   \* the req_ids of this connection whose probe a later one disowned
  disowned     \* the probe that runs is such a one

queue == <<kind, reqId>>
fields == <<mac, offer>>
probe == <<probing, probeOwned, probeReq>>
plugCommand == <<plugOwned, plugReq, plugKind>>
update == <<receiving, reboot>>
replies == <<open, stray>>
history == <<overtaken, disowned>>
vars == <<link, queue, onStack, fields, probe, plugCommand, plugDriver, update, replies, history>>

TypeOK ==
  /\ link \in {"ready", "closing", "down"}
  /\ kind \in Kinds \cup {"none"} /\ onStack \in Pumping \cup {"none"}
  /\ {reqId, mac, offer, probeReq, plugReq} \subseteq Ids \cup {NoId}
  /\ plugKind \in PlugKinds \cup {"none"} /\ (plugOwned => plugKind # "none")
  /\ probing \in BOOLEAN /\ probeOwned \in BOOLEAN /\ plugOwned \in BOOLEAN
  /\ receiving \in BOOLEAN /\ reboot \in BOOLEAN
  /\ open \subseteq Ids \X Kinds /\ stray \in BOOLEAN
  /\ overtaken \subseteq Ids /\ disowned \in BOOLEAN
  /\ DriverTypeOK

Init ==
  /\ link = "down" /\ kind = "none" /\ reqId = NoId /\ onStack = "none"
  /\ mac = NoId /\ offer = NoId
  /\ probing = FALSE /\ probeOwned = FALSE /\ probeReq = NoId
  /\ plugOwned = FALSE /\ plugReq = NoId /\ plugKind = "none"
  /\ receiving = FALSE /\ reboot = FALSE
  /\ open = {} /\ stray = FALSE /\ overtaken = {} /\ disowned = FALSE
  /\ DriverInit

\* Nothing pumps: the main loop is between two calls.
MainLoop == onStack = "none" /\ ~sweeping

\* The relay still waits for an answer to i.
Outstanding(i) == \E k \in Kinds : <<i, k>> \in open

Judge(i, k) == stray' = IF <<i, k>> \in open THEN stray ELSE TRUE

\* A result frame, the last of its command.  It needs the socket to be open.
Answer(i, k) ==
  IF link = "ready"
    THEN open' = open \ {<<i, k>>} /\ Judge(i, k)
    ELSE UNCHANGED replies

\* A result frame that others follow.
Progress(i, k) ==
  /\ IF link = "ready" THEN Judge(i, k) ELSE UNCHANGED stray
  /\ UNCHANGED open

-------------------------------------------------------------------------------
(***************************************************************************)
(* A frame arrives: on_text() and the handler of its type.                 *)
(***************************************************************************)

\* Mutated form: the command that waits or runs is not looked at.
MayQueue_Always(k) ==
  /\ k \in PlugKinds \cup {"plug_scan"} => ~plugOwned /\ ~DriverBusy
  /\ k = "ota_offer" => ~receiving

\* Mutated form: a plug command asks the queue only.
MayQueue_QueueOnly(k) ==
  /\ kind = "none"
  /\ k = "ota_offer" => ~receiving

\* The gate of handle_plug_set(), handle_plug_status() and handle_plug_fw(), and
\* of the frame that asks for a scan: no operation runs.  Their other refusals
\* change nothing.
PlugIsFree == ~plugOwned /\ ~DriverBusy

\* What is not answered with busy.
MayQueue(k) ==
  /\ kind = "none"
  /\ k \in PlugKinds \cup {"plug_scan"} => PlugIsFree
  /\ k = "ota_offer" => ~receiving

Takes(i, k) ==
  /\ MayQueue(k)
  /\ kind' = k /\ reqId' = i /\ open' = open \cup {<<i, k>>}
  /\ mac' = IF k \in Aimed THEN i ELSE mac
  /\ offer' = IF k = "ota_offer" THEN i ELSE offer

\* The relay gives each command a req_id that none of the others outstanding has.
Arrives(i, k) ==
  /\ link # "down"
  /\ ~Outstanding(i)
  /\ Takes(i, k)
  /\ UNCHANGED <<link, onStack, probe, plugCommand, plugDriver, update, stray, history>>

-------------------------------------------------------------------------------
(***************************************************************************)
(* run_pending(), from rw_relay_task() while the session is READY.         *)
(***************************************************************************)

Runs(ks) == MainLoop /\ link # "down" /\ kind \in ks

Dequeue == kind' = "none" /\ UNCHANGED reqId

RunStatus ==
  /\ Runs({"status"}) /\ Dequeue
  /\ Answer(reqId, "status")
  /\ UNCHANGED <<link, onStack, fields, probe, plugCommand, plugDriver, update, history>>

\* rw_wol_send(), rw_lan_scan() or rw_plug_scan() is called,
PumpBegins ==
  /\ Runs(Pumping)
  /\ onStack' = kind
  /\ UNCHANGED <<link, queue, fields, probe, plugCommand, plugDriver, update, replies, history>>

\* and returns.  The connection may have closed meanwhile, and the queue with it.
PumpEnds ==
  /\ onStack # "none" /\ onStack' = "none"
  /\ Answer(reqId, onStack) /\ Dequeue
  /\ UNCHANGED <<link, fields, probe, plugCommand, plugDriver, update, history>>

\* A probe is started, and says waiting at once; or one is running already, whose
\* req_id and owner are overwritten before rw_probe_start() refuses.
RunProbe ==
  /\ Runs({"probe"}) /\ Dequeue
  /\ probeReq' = reqId /\ probing' = TRUE
  /\ probeOwned' = ~probing /\ disowned' = probing
  /\ IF probing THEN Answer(reqId, "probe") ELSE Progress(reqId, "probe")
  /\ overtaken' = IF probing /\ probeOwned THEN overtaken \cup {probeReq} ELSE overtaken
  /\ UNCHANGED <<link, onStack, fields, plugCommand, plugDriver, update>>

\* Mutated form: plug_owned is set once the start has returned.
RunPlug_OwnedLate ==
  /\ Runs(PlugKinds) /\ Dequeue
  /\ plugReq' = reqId /\ plugKind' = kind /\ plugOwned' = TRUE
  /\ \E c \in BOOLEAN : DriverStarts(c) \/ DriverStartFails(c)
  /\ UNCHANGED <<link, onStack, fields, probe, update, replies, history>>

\* A plug operation is started.  If the first leg finds no pcb, plug_done() has
\* run before the start returns.
RunPlug ==
  /\ Runs(PlugKinds) /\ Dequeue
  /\ plugReq' = reqId /\ plugKind' = kind
  /\ \E c \in BOOLEAN :
       /\ c => kind = "plug_set"
       /\ IF DriverBusy
            THEN plugOwned' = FALSE /\ Answer(reqId, kind) /\ UNCHANGED plugDriver
            ELSE \/ DriverStarts(c) /\ plugOwned' = TRUE /\ UNCHANGED replies
                 \/ DriverStartFails(c) /\ plugOwned' = FALSE /\ Answer(reqId, kind)
  /\ UNCHANGED <<link, onStack, fields, probe, update, history>>

\* run_ota_begin(): the slot is cleared and the offer accepted, unless the flash
\* or the socket refuses.
RunOta ==
  /\ Runs({"ota_offer"}) /\ Dequeue
  /\ receiving' \in IF link = "ready" THEN BOOLEAN ELSE {FALSE}
  /\ Answer(offer, "ota_offer")
  /\ UNCHANGED <<link, onStack, fields, probe, plugCommand, plugDriver, reboot, history>>

-------------------------------------------------------------------------------
(***************************************************************************)
(* What runs on after run_pending(): the probe, the plug operation and the *)
(* update.                                                                 *)
(***************************************************************************)

\* rw_probe_task(): the machine is up, or the time is.
ProbeEnds ==
  /\ MainLoop /\ probing /\ probing' = FALSE /\ disowned' = FALSE
  /\ IF probeOwned /\ link # "down"
       THEN probeOwned' = FALSE /\ Answer(probeReq, "probe")
       ELSE UNCHANGED <<probeOwned, replies>>
  /\ UNCHANGED <<link, queue, onStack, fields, probeReq, plugCommand, plugDriver, update, overtaken>>

\* plug_done()
PlugDone ==
  IF plugOwned /\ link # "down"
    THEN plugOwned' = FALSE /\ Answer(plugReq, plugKind)
    ELSE UNCHANGED <<plugOwned, replies>>

\* rw_plug_task(), while the operation goes on,
PlugGoesOn ==
  /\ onStack = "none"
  /\ DriverWorks \/ DriverSweeps \/ DriverFinds
  /\ UNCHANGED <<link, queue, onStack, fields, probe, plugCommand, update, replies, history>>

\* and when it ends.
PlugEnds ==
  /\ onStack = "none"
  /\ DriverEnds
  /\ IF caller THEN PlugDone ELSE UNCHANGED <<plugOwned, replies>>
  /\ UNCHANGED <<link, queue, onStack, fields, probe, plugReq, plugKind, update, history>>

\* on_binary(): the image is complete and staged, or the update is abandoned.
OtaEnds ==
  /\ receiving /\ receiving' = FALSE
  /\ reboot' \in BOOLEAN
  /\ UNCHANGED <<link, queue, onStack, fields, probe, plugCommand, plugDriver, replies, history>>

-------------------------------------------------------------------------------
(***************************************************************************)
(* The connection closes and returns, the device restarts.                 *)
(***************************************************************************)

\* One of the two sides closes; frames still arrive.
CloseBegins ==
  /\ link = "ready" /\ link' = "closing"
  /\ UNCHANGED <<queue, onStack, fields, probe, plugCommand, plugDriver, update, replies, history>>

ProbeCancelled ==
  /\ probeOwned' = FALSE /\ UNCHANGED probeReq
  /\ IF probeOwned THEN probing' = FALSE ELSE UNCHANGED probing

\* Mutated form: the plug operation is left to itself.
PlugCancelled_Kept == plugOwned' = FALSE /\ UNCHANGED <<plugReq, plugKind, plugDriver>>

PlugCancelled ==
  /\ plugOwned' = FALSE /\ UNCHANGED <<plugReq, plugKind>>
  /\ IF plugOwned THEN DriverCancels ELSE UNCHANGED plugDriver

\* Mutated form: the queue is left as it is.
OnClose_KeepsQueue ==
  /\ UNCHANGED queue
  /\ ProbeCancelled /\ PlugCancelled
  /\ receiving' = FALSE /\ UNCHANGED reboot

\* on_close()
OnClose ==
  /\ Dequeue
  /\ ProbeCancelled /\ PlugCancelled
  /\ receiving' = FALSE /\ UNCHANGED reboot

\* The relay expects nothing more on a connection that is gone.
Closes ==
  /\ link # "down" /\ link' = "down"
  /\ OnClose
  /\ open' = {} /\ overtaken' = {}
  /\ UNCHANGED <<onStack, fields, stray, disowned>>

\* The session is READY again.  It is rw_relay_task() that connects.
Connects ==
  /\ MainLoop /\ link = "down" /\ ~reboot /\ link' = "ready"
  /\ UNCHANGED <<queue, onStack, fields, probe, plugCommand, plugDriver, update, replies, history>>

\* rw_relay_task() restarts the device into the staged image.
RestartIntoStaged ==
  /\ MainLoop /\ reboot
  /\ link' = "down" /\ kind' = "none" /\ reqId' = NoId
  /\ mac' = NoId /\ offer' = NoId
  /\ probing' = FALSE /\ probeOwned' = FALSE /\ probeReq' = NoId
  /\ plugOwned' = FALSE /\ plugReq' = NoId /\ plugKind' = "none"
  /\ receiving' = FALSE /\ reboot' = FALSE
  /\ open' = {} /\ overtaken' = {} /\ disowned' = FALSE /\ UNCHANGED <<onStack, stray>>
  /\ stage' = "idle" /\ cycle' = FALSE /\ caller' = FALSE /\ sweeping' = FALSE /\ heard' = 0

-------------------------------------------------------------------------------
RunPending == RunStatus \/ PumpBegins \/ RunProbe \/ RunPlug \/ RunOta

Next ==
  \/ \E i \in Ids, k \in Asked : Arrives(i, k)
  \/ RunPending \/ PumpEnds
  \/ ProbeEnds \/ PlugGoesOn \/ PlugEnds \/ OtaEnds
  \/ CloseBegins \/ Closes \/ Connects \/ RestartIntoStaged

Spec == Init /\ [][Next]_vars

\* A pump returns, and a connection that closes is closed by a timer.  What the
\* main loop calls in every round it gets to however often a command pumps: the
\* queue, the probe, which has a deadline, the plug operation, which ends as Plug
\* shows, and the restart.
FairSpec ==
  /\ Spec
  /\ WF_vars(PumpEnds) /\ WF_vars(link = "closing" /\ Closes)
  /\ SF_vars(RunPending) /\ SF_vars(ProbeEnds) /\ SF_vars(PlugEnds)
  /\ SF_vars(RestartIntoStaged)

-------------------------------------------------------------------------------
(***************************************************************************)
(* Properties.                                                             *)
(***************************************************************************)

\* Every result frame goes out on the connection its command came in on, carries
\* the req_id and the type of that command, and is its only last one (queue():
\* two at once would mean two answers carrying one req_id).
AnswersFit == ~stray

\* The command that waits or runs has its own parameters, not those of a command
\* that was refused after it.
RunsItsOwn ==
  /\ kind \in Aimed => mac = reqId
  /\ kind = "ota_offer" => offer = reqId

Queued(i, k) == kind = k /\ reqId = i
Probed(i) == probing /\ probeOwned /\ probeReq = i
Plugged(i, k) == plugOwned /\ plugReq = i /\ plugKind = k /\ caller /\ DriverBusy

\* A command is queued or running, or its probe or its plug operation is and
\* knows it.
HasItsAnswerer(i, k) ==
  \/ Queued(i, k)
  \/ k = "probe" /\ Probed(i)
  \/ k \in PlugKinds /\ Plugged(i, k)

\* Of every command accepted on an open connection something will answer, save a
\* probe that another overtook while it ran (run_pending()).
NobodyIsForgotten ==
  link = "ready" =>
    \A i \in Ids, k \in Kinds : <<i, k>> \in open =>
      HasItsAnswerer(i, k) \/ (k = "probe" /\ i \in overtaken)

\* The same without the exception (PROTOCOL.md, probe: a final probe_result at
\* resolution or timeout; probe.h: a second probe is refused with busy).  The code
\* does not have it.
EveryoneIsRemembered ==
  link = "ready" =>
    \A i \in Ids, k \in Kinds : <<i, k>> \in open => HasItsAnswerer(i, k)

\* A plug command found the driver free when its frame came in and finds it free
\* when it is started, so the busy of run_pending() is never needed.
QueuedPlugFindsItFree ==
  kind \in PlugKinds \cup {"plug_scan"} => ~plugOwned /\ ~DriverBusy /\ ~sweeping

\* A probe or a plug operation that would answer belongs to the connection that
\* is there (on_close()), and a probe runs on without its command only when
\* another overtook it.
OrphansAreMute ==
  /\ probeOwned => probing /\ link # "down"
  /\ probing => probeOwned \/ disowned
  /\ DriverBusy /\ caller => plugOwned /\ link # "down"

\* No probe is left of a connection that is gone (on_close(): anything in flight
\* belonged to a req_id on a connection that no longer exists).  The code does not
\* have it.
ProbesEndWithTheLink == link = "down" => ~probing

\* Every command accepted is answered, or its connection closes, save a probe
\* that another overtook.
EveryCommandEnds ==
  \A i \in Ids : Outstanding(i) ~> ~Outstanding(i) \/ i \in overtaken

===============================================================================
