# A verification of roosterwake

roosterwake is a Wake-on-LAN dongle: a Pico W that keeps one WebSocket session to a relay,
and sends magic packets, probes hosts and switches smart plugs when the relay asks. The
repository holds the firmware (C), the boot loader, a reference relay (JavaScript) and the
tools that make configuration images. This directory holds TLA+ modules that model parts of
it, the TLC configurations that check them on small instances, and proofs that TLAPS checks.

## 1. The system

### 1.1 How the device runs

Everything on the device runs on one thread. `main()` (firmware/src/main.c:384) is a loop:
poll lwIP and the radio driver, whose callbacks run right there, feed the watchdog, look at
the BOOTSEL button, serve one line of the USB console, then run the tasks of the network, the
ARP table, the relay session, the setup portal and the stuck-link detector. Nothing preempts
anything, with one exception that makes most of the hard cases: `rw_sys_pump_ms()` (sys.c:95)
polls the driver again from inside a command that waits, so a callback, `on_close` included,
may run between two steps of a handler that is still on the stack. The other sources of
interleaving are the power supply, the Wi-Fi, the relay and the person at the console.

### 1.2 Components

| component | state it keeps | operations | talks to |
|---|---|---|---|
| OTA state record (ota/state.c, ota_flash.c) | sequence, active and fallback slot, boots left, confirmed; two flash sectors | load, save, on_boot, stage, confirm | loader, OTA application side |
| OTA application side (ota/ota.c, ota_write.c) | the record in RAM, the image writer | begin, chunk, end, abort, stage, confirm | relay session, console, flash |
| Boot loader (loader/main.c) | none | read the record, spend a boot or revert, enter a slot | record, both slots |
| Relay session (proto/proto.c) | session state, retry and ping timers, one pending request, ownership of the probe and the plug, OTA transfer | on_open, on_text, on_binary, on_close, relay_task | WebSocket client, probe, plug, OTA, configuration |
| WebSocket client (ws/ws.c, ws_frame.c, ws_handshake.c) | connection state, frame parser, receive buffer, ping and close deadlines | open, poll, close, abort, the lwIP callbacks | lwIP/TLS, relay session |
| Network join (net/net.c) | IDLE, JOINING, JOINED, FAILED, the rung of the ladder of handshakes, back-off, four deadlines, the last error, whether the clock has been asked for | start, task | radio driver, DHCP, SNTP |
| Stuck-link detector (diag/stuck.c) | armed, linked since, unlinked since | update | main loop, relay session, uninitialised RAM across a reboot |
| Plug driver (plug/plug.c, shelly.c, net/httpc.c) | phase, retries, target, callback | set, cycle, status, firmware check and update, cancel | HTTP client, probe, ARP table |
| Probe (proto/probe.c), ARP learning (net/arplearn.c) | target, deadline, last poll; address table | start, task, cancel; learn, look up | lwIP ARP, relay session, plug |
| Wake (wol/wol.c) | none | send bursts, pumping between them | lwIP UDP |
| Configuration (config/config.c, config_flash.c) | the stored record in two slots, the device identity | load, save, factory reset | everything |
| Setup portal (provisioning/*, net/scan.c) | hotspot, DHCP and DNS servers, the HTTP server's connection slots, one test join, the staged settings | accept and serve a connection, scan, join, status, config, commit, start, task | radio, configuration |
| USB console (usbcfg/*) | staged configuration, line buffer, reboot pending | the commands | configuration, OTA, network |
| LED (led/led.c) | pattern, phase | set, task | relay and network state |
| LAN scan (net/lanscan.c, mdns.c, nbns.c), JSON, URL, SHA/HMAC, TLS glue | caches, parser state | scan, parse, format | relay session, portal |
| Reference relay (relay-reference/server.js) | connection per socket, device records, pending requests | upgrade, hello, auth, supersede, wake, timeouts, idle sweep | devices, HTTP clients |
| mkconfig (tools/mkconfig), firmware/tools | none | encode a configuration image, make an update image | files |

### 1.3 What is hard, and what makes each part correct

* **OTA.** A power cut may fall between any two flash operations, in the loader too; a sector
  may not take a write; an image may crash, hang or never connect. Correct: the loader can
  always come back to an image that has reached the relay; an unproven image gets a bounded
  number of boots; the running slot is never written; the two sectors behave as one record.
* **Relay session.** Frames may arrive in any order and in any state, the connection may
  close inside a handler, several requests may be outstanding, and a probe may be asked for
  while another runs. Correct: nothing is executed
  before the relay has authenticated itself; a request is answered at most once and only on
  the session it came from; a session that dies is always replaced.
* **Stuck-link detector.** A 32-bit millisecond clock that wraps, with 0 as a sentinel.
  Correct: it restarts the device only after fifteen minutes without a link that had been
  held for a minute.
* **Plug driver.** A power cycle must not end with the power off; the operation can be
  cancelled between any two steps. Correct: once power is cut, it is restored or the failure
  is reported.
* **Configuration.** Two slots, power cuts, a sector that does not verify, two staging buffers that
  are copies of what was live at boot, and a relay session that changes the live configuration.
  Correct: a save is all or nothing; the device runs on what it would boot with; a factory reset
  keeps the token and nothing else; what the relay session has settled is not undone by a COMMIT.
* **Network join.** Time-outs, back-off, a ladder of handshakes, and an association that keeps its
  link and loses its address. Correct: no attempt and no association without an address outlasts
  its deadlines, however the driver's status moves and whatever command keeps the loop; an error
  does not outlive its cause; a network that takes one handshake only is reached in the end.
* **Setup portal.** Several phones at once on a few slots; a scan runs inside the callback that asked
  for it and pumps the stack, so that other requests are handled inside it; one radio is hotspot and
  station. Correct: an answer reaches whoever asked, whole; what is saved is a network that gave the
  device an address; every attempt comes to a result; a phone that is gone keeps no slot.
* **Reference relay.** A newer connection supersedes an older one while requests are pending
  on it and its close event is still to come. Correct: every request is answered once, and a
  device's record never names a dead connection for good.

## 2. The plan

The most important behaviour first: what leaves a device unreachable (updates, then the link),
then what leaves a machine without power (plugs), then what answers the relay (commands), then
what the rest of the device stands on.

| order | module | what | state |
|---|---|---|---|
| 1 | OtaState, OtaTrial, OtaUpdate | the update, from the offer to the confirmed image | modelled, checked, proved |
| 2 | Stuck | the detector that restarts a device without a link | modelled, checked, proved |
| 3 | RelayLink | the session and its socket | modelled, checked, proved |
| 4 | PlugDriver, Plug | the abstract and the detailed plug driver | modelled, checked, refinement proved |
| 5 | RelayCommands | the commands of a READY session, over PlugDriver | modelled, checked, proved |
| 6 | Config | the two slots of the configuration, the factory reset, the console's and the portal's staging and COMMIT | modelled, checked, proved |
| 7 | Radio, NetJoin | the join, its time limits, its back-off and its ladder, over the radio it shares with the portal | modelled, checked, proved |
| 8 | Portal, FirstBoot | setup mode, and the device that goes from setup mode to its network | modelled, checked, proved |
| 9 | RelayServer | the reference relay: sockets, registration, supersession, pending requests | modelled, checked, proved |

Abstract specifications: OtaTrial (one record that changes in one step) and PlugDriver (what
proto.c may rely on); that a configuration is a register which a save changes in one step is
stated as the action property `SaveIsAtomic`. What is left, in this order: the leases of the portal's
DHCP server; plug_scan's sweep for all plugs.

## 3. How the modules fit

```
OtaTrial  <--implements--  OtaUpdate --extends--> OtaState
PlugDriver <--implements-- Plug
PlugDriver <--extends----- RelayCommands
Radio      <--extends----- NetJoin, Portal
NetJoin    <--extends----- FirstBoot --instantiates--> Portal
RelayLink, Stuck, Config, RelayServer   stand alone
```

Each component's module has the specification and its properties, `MC<module>` is what TLC
runs, and `<module>_proofs` has the theorems. NetJoin and Portal are run inside FirstBoot and proved
about in `FirstBoot_proofs`; OtaState's lemmas are in `OtaUpdate_proofs`. Definitions whose comment begins *Mutated form*
are plausible mistakes of the code; nothing in a specification uses them, and each one put in
the place of the definition after it breaks a property, which shows that the property has
something to say about the code. PROJECT.json gives, for every definition that models code, the
lines it models.

Composition is by contract. RelayCommands needs of a plug operation only what PlugDriver says;
Plug is shown to implement PlugDriver (`KeepsItsPromise`, checked by the run `plug` and proved
in `Plug_proofs`), and its `OperationEnds` is the fairness RelayCommands assumes of `PlugEnds`.
RelayCommands starts where RelayLink's session is READY: `Connects` is RelayLink's way to READY,
`CloseBegins` and `Closes` are its ways from it. RelayLink takes a save as one step that may fail or
be cut off, which is what `SaveIsAtomic` says of Config; Config's `Enrolled` and `Adopted` are what
RelayLink's handshake does to the configuration. FirstBoot composes Portal and NetJoin outright: both act on
the variables of Radio, main() chooses one of them at each boot, and the network saved in flash is all
that passes from the one to the other. Config's `PortalSet`, `PortalCommit` and `PortalRestart` are what
Portal's `PostConfig`, `JoinSucceeds`, `PostCommit` and `Reboots` do to the stored configuration. RelayLink and
Stuck see of NetJoin a network that is there or not. RelayServer is the other end of RelayLink's socket as
a relay sees it; it and RelayLink are not composed: each takes any behaviour of the other's side.
OtaUpdate has the rest of what RelayCommands'
`RunOta` and `OtaEnds` begin and end.

## 4. The modules and the code

### 4.1 OtaState, OtaUpdate, OtaTrial

`OtaState` is ota/state.c: records, their sequence numbers modulo `SeqMod`, `Pick`, `OnBoot`,
`Stage`, `Confirm`. `OtaUpdate` is what uses it. Its `copy` is the two sectors, `save` the
rw_ota_flash_save() in progress: one action per flash operation, so that a power cut or a failed
write falls between any two. `pc` says which program runs (loader, application, ROM), `ram` is the
record as that program last read or wrote it, `image` what each slot holds. The digest of an image,
the pages of the writer and the signature are abstracted to a slot being blank, torn, or an image
that works, crashes, or runs on without ever reaching the relay. `proven` and `tries` are history:
which slots hold an image that has reached the relay, and how often an unproven one was entered.

`OtaTrial` is the promise: a record that changes in one step, always with a proven slot to come
back to. `KeepsPromise` maps its record to `InForce`, the one the next load is to find.

The sectors are rewritten in a fixed order, A first, and a cut between the two leaves A the only
current copy for the next save to erase. Nothing is assumed about that: `fellBack` records that a cut or
a refusal fell on such a save with A erased (`OnlyCopyErased`), which takes two of them, and what is lost
then is lost. `LoaderHasProvenImage`, `RecordNeverGoesBack` and the promise (`void` in OtaTrial) hold up
to that step and say what it leaves, the second copy; `NeverNeedsCable` holds after it too; and the run
`ota_stale_second` shows the loader without a working image to go back to (section 7).

OTA_SELFTEST and OTA_STAGE do not ask rw_ota_on_trial(). Typed on trial they may destroy the image to
come back to, or put the slot on trial in its place; `meddled` records it, and the properties promise
nothing after it but `NeverNeedsCable`. There is one assumption, a formula with a name,
`CopiesComparable`: fewer than half the counter's range of saves are cut short in a row.

What a refused write may cost is part of the properties. A loader whose write is refused enters the image
all the same (loader/main.c), so each refusal may cost one entry more than the budget has
(`TrialBudget`). An application whose second sector refuses a save keeps the older record in RAM, so that
its next save uses the number of the first again (`RecordNeverGoesBack`). And a confirmation that is
refused is not tried again before the next hello_ack, which nothing says must come, so `TrialEnds`
promises nothing after a refusal. An image to come back to it must not cost, and does not.

### 4.2 Stuck

diag/stuck.c with its counter that wraps at `Wrap`, the sentinel 0 and the nudge to 1, main.c's
`stuck_task`, the record in RAM that survives a restart (sys.c) and the hello that reports it.
`linkFor`, `outFor` and `proved` are the same story told in time that does not wrap, and the
properties compare the two. On the millisecond of the wrap the nudge puts the start of an outage in
the future, and an armed device that is without its link just then restarts at once. The model does
it; `OnlyTheStuckRestart` has that millisecond (`LostAtTheWrap`) as its exception, and
`NoRestartAtTheWrap`, the same without it, fails (section 7).

### 4.3 RelayLink

ws/ws.c and the half of proto.c that connects, authenticates, enrols, offers the owner's
address, keeps alive, closes and backs off. One action per callback of lwIP or branch of
rw_relay_task(), with everything it calls: `HelloAck` is handle_hello_ack() with the save it asks
for, `Teardown` calls on_close(). The back-off is counted in units of the shortest; `owed` is
what the attempts since the last READY call for. The relay follows PROTOCOL.md and says next what
`due` holds; `record` is what it has of the device: its token, another's, or nothing.

`peer` tells the relay from a stranger, whom a device reaches only if it does not validate the
certificate of the built-in relay (`home`). A stranger says any frame of the handshake at any time
(`StrangerSpeaks`), on_text() being as ready for a hello_ack or a challenge in one state as in
another, and closes with any code in any state (`PeerCloses`). Only a proof it cannot make up: one
that nobody who holds the token has computed for the nonces in force. `provable` says whether somebody has;
s.expected_proof_s is not cleared between connections, so the proof of an earlier one still verifies.

`Commit` is cmd_commit() without a restart: `Saved` may change the relay and the token, the ENROLLED flag
stays, and what the relay has of the new token is anything. So an enrolled flag does not mean that the
relay knows the device, and the model claims no such thing; `ComesBack` is about devices that their relay
would accept (`Welcome`), whatever made them so. `CommitRestarts` is the other branch, in one step, and
`Forget` a relay that drops or reassigns its record. A factory reset is in Config.

`poolEmpty` is chosen once: whether lwIP may have no pcb when an address arrives (then the attempt hangs,
section 7, and `SessionHasSocket` and `ComesBack` promise nothing). The relay in this repository
implements neither `enrol` nor code 4002, so those two are modelled from PROTOCOL.md and what proto.c does with them.

### 4.4 Plug and PlugDriver

plug.c with httpc.c under it. `phase`, `retries`, `afterWait` and the rest are the driver's; each
branch of rw_plug_task() is an action. resolve_by_mac() is split where it pumps the stack
(`SweepBegins`, then `SweepFinds` or `SweepMisses`), because rw_plug_cancel() may run in between.
The plug (its address, generation and channel), the others on the segment and lwIP's ARP table
are the environment. A reply's body is what plug/shelly.c makes of it: `Unreadable`, `Identifies`,
`ReadsOn`, `HasState` and `InTwoAnswers` are the verdicts of its splitter and its parsers, `Asking` is
what its requests ask for. `cut`, `restored`, `since`,
`met`, `around`, `swept` and `moved` are history.

A plug that moves while an operation is on it is excluded from `CutIsRestored`,
`ObservedNotAssumed` and `PowerComesBack` (`moved`): the driver looks for it only before it acts.
lwIP's table may name a plug that has left for as long as it likes, and the sweep drains such an entry
like a live one (`SweepFinds`; `swept` records which it was). `VerdictEarned` has the stale row as the one
way to a wrong *mute*; `MuteWasSeen` is the same without it and fails (section 7). A command that the plug carries out after
its exchange was given up, time in the dwell, a restart of the device, and the scan for all plugs
(rw_plug_scan()) are not modelled.

`PlugDriver` is what proto.c sees of it: five variables, of which `sweeping` is the one a reader of
plug.h would miss.

### 4.5 RelayCommands

The queue of one (`kind`, `reqId`), the parameters that ride beside it, run_pending(), the probe,
the plug command's completion, the end of an update, and on_close(). `onStack` is a command that
pumps: PumpBegins and PumpEnds are the two ends of rw_wol_send(), rw_lan_scan() and rw_plug_scan(),
and between them only callbacks run. `open` and `stray` are the relay's side: what it was promised
an answer to, and whether an answer came that fits nothing.

A command that is refused at its frame (busy, no_link, a bad parameter) is answered on the spot and
changes nothing, and is left out; so is `status`, which is dropped without an answer when the queue
is taken. `Answer` is a send on an open socket; a full send buffer is not modelled. The order in
which one round of rw_relay_task() visits its parts is relaxed to any order.

A probe may be asked for while another runs. The second takes the first one's req_id and, refused, its
owner (`RunProbe`); the history variables `overtaken` and `disowned` name the probe that lost its answer and
the one that lost its owner. `NobodyIsForgotten`, `EveryCommandEnds` and `OrphansAreMute` make an exception of
those two and of nothing else; `EveryoneIsRemembered` and `ProbesEndWithTheLink` make none, and fail
(section 7).

### 4.6 Config

config.c, config_flash.c and everything that writes the configuration. `flash` is what each of the two
sectors decodes to, `job` the write under way: a save is an erase and a program, a factory reset two
erases, a proof that nothing reads, and a save, and the power may go between any two. A flash helper
that reports a failure has done its work or not (`NotVerified`, `EraseRefused`), except when it could
not lock the other core (`Locked`). `live`, `stage` and `portal` are s_config and the two staging
buffers, `pending` is persist_pending, `outcome` how the last write ended. The device is single
threaded, so while a `job` runs nothing else does; what its caller does with the result is `Succeed`
or `Fail`. rw_sys_reboot() spins until the watchdog bites, so a restart is the end of the turn.

Left out: the device_id, which each boot derives again; the authentication mode, a function of the
password; the flags that nothing on the device writes; a boot whose radio fails. A token that
rw_config_ensure_token() mints is any token. `Found` is what a device may come with.

### 4.7 Radio, NetJoin

`Radio` is the station side of the driver and what surrounds it: one link status, an address, an
access point that takes some handshakes, is there or not, and drops the address with the link status
following it or not. None of it is this repository's code. `NetJoin` is net.c: `rw_net_task()` looks
at one status in each turn of the main loop and takes one branch; each branch is an action. A deadline
is a count of ticks left. `Tick` may pass beyond what is due for `MaxPump` ticks only, which is what a
command that pumps may take from the loop (`late`). `since` and `bare` tell how long an attempt has
lasted and how long an address has been away, as the loop saw it, and no deadline of the code's enters
into them. `GraceIsWhole` is about every step that has a joined device join again, whichever branch takes
it (`GivenUp`): `LinkLost` does at once what `AddrExpires` does after the grace, and is right only when the
link is not up; of the status NOIP, an association without an address, see section 7. `AuthToCyw43` is the ladder; the configured handshake (`auth`) is tried alone. rw_net_init()
and the getters are left out.

### 4.8 Portal, FirstBoot

httpd.c's slots, the API of provisioning.c, scan.c and the test join. A connection asks one thing; its
answer is two pieces, a head and a body, so that the last acknowledgement differs from the last
submission. `inside` is the stack of scans under way: each runs in the callback that asked for it and
pumps, so the callbacks of the other connections, another scan's among them, run within it, while the
main loop and with it the join wait. A scan that returns clears the driver's flag, whoever's scan that
was, and answers whatever connection has its slot by then. Phones are the environment: they open,
leave without a word, close, and read. A connection that asked for a scan may be lost, or idled out,
while the scan runs; its slot is then free for the next, which the scan answers when it returns. `crossed` marks the
connection that this happened to: `AnswersFit` lets it be told of its own request or of the scan, and
everybody else of nothing but their own. A phone sends one request on a connection, and
no bytes after it. rw_provisioning_start() cannot fail half-way; the parser, the DHCP and the DNS
server are left out.

`FirstBoot` is main()'s choice: Portal until a commit has a network in flash and the device has
restarted, NetJoin from then on. The password the station has is the one the phone posted, which
`NetworkWasProven` says was right.

### 4.9 RelayServer

relay-reference/server.js for one device: `state` and `ws` are Connection.state and the socket's
readyState, which differ between a close() and its close event; a frame that comes between is handled
like any other. `registered` is DeviceRecord.conn, `request` and `on` the `pending` map of each
Connection. `live` says whether the device is still at the other end, which the relay cannot see. Each
handler runs to its end, as in one event loop. The rate limiter and the callers' authentication are
`refused`; what frames say is abstracted to an answer or to a socket that is closed on (`Rejects`).

## 5. What TLC checks

| run | question | answer |
|---|---|---|
| ota_update | with every console command, two power cuts and two refused writes anywhere: is there a proven image to come back to, any image to enter, is no unproven one tried too often, do two sectors behave as one record, does every trial end? | yes, until a second loss while the only current copy is erased, or OTA_SELFTEST or OTA_STAGE on trial; an image to enter there is always |
| ota_stale_second | does a trial that fails always go back to a slot that was working? | no: finding |
| stuck | do exactly the stuck devices restart, across the wrap, and is each restart reported once? | yes, but for one millisecond |
| relay_link | do session and socket agree, are attempts paid for, does giving up have its cause, does the device come back? | yes; giving up, of the device of the built-in relay |
| relay_link_by_hand | does a self-hosted device whose token was copied by hand connect? | no: finding |
| plug | is only the named plug driven, is an acknowledged cut restored, are answers earned, does everything end, is PlugDriver implemented? | yes, but for *mute* of a plug that only a stale entry names |
| plug_lost_off | is a cut restored whose acknowledgement was lost? | no: finding |
| relay_commands | do answers fit their commands, is nobody forgotten, does a queued plug command find the driver free, are orphans mute, does each end? | yes, but for a probe that is overtaken |
| config | is a save all or nothing, does the device run on what it would boot with, does a reset keep the token only? | yes |
| config_address_returns | does an address that was erased stay erased, where no host gives one? | no: finding |
| first_boot | do answers reach who asked, is what is saved proven, does every attempt settle and every slot come free, does no join stall, does a link that is up keep its grace, do errors pass, does the device come to the network it was set up for? | yes, but for a slot taken over from a scan and an association that reports NOIP |
| relay_server | is the registered socket the last to authenticate and the only open one, does nobody wait on another, does a lost socket close in the end? | yes |

No run lists `TypeOK`, nor `RunningSlotUntouched`, `OneOutcome`, `RunsItsOwn`, `SlotsAreNeighbours` and
`EnrolledIsKept`: a theorem proves each of them for every value of the constants.

Seven definitions state a property as the documents have it, without the exception the code needs:
`NoRestartAtTheWrap`, `StopIsDeserved`, `MuteWasSeen`, `EveryoneIsRemembered`, `ProbesEndWithTheLink`,
`OneScanAtATime` and `RebindIsWaitedOut`. No run lists them either. Put in the place of the properties of
their component's cfg (MuteWasSeen and RebindIsWaitedOut as PROPERTY, the others as INVARIANT), TLC
refutes each within seconds; section 7 says how.

### 5.1 Bounds

* **OTA.** `TrialBoots` is the device's 3. `SeqMod` 8 wraps within the behaviours and keeps the
  half-range comparison meaningful. Two cuts are what the failure of the fixed order needs, and they
  come about; a third adds no kind of state, since a cut leaves the RAM empty and two sectors. Two refused writes
  are both sectors of one save, or two saves of one trial. `tries` counts to one more than it may reach.
  1.64 million states, about a minute.
* **Stuck.** `Wrap` 16, thresholds 3 and 6, turns of 1 or 2: several wraps, every position of an
  outage relative to the wrap, and both thresholds met exactly and overshot. `Ages` exceeds the
  larger threshold, so nothing is told apart beyond it that a property tells apart.
* **RelayLink.** 191,228 states. `MaxBackoff` 5 is no power of two, so the cap cuts a doubling short, as 60 s does.
  Four faults suffice for each property's mutants and for every pair of a loss with a restart, a
  revocation and a COMMIT; what a stranger says is a fault each time.
* **Plug.** Two addresses: one that is wrong for each that is right. `RetryMax` 2 instead of 3,
  with as many faults: one retry that fails and one that does not, and the budget spent. One move, which
  leaves the old address's entry in the table or not. A million states, two minutes.
* **FirstBoot.** Three connections over two slots, so one is refused or finds a slot used again; the four
  visits put a scan beside an attempt and a commit, a wrong network before the right one, two scans
  with a poll inside them, and a page, a setting and an attempt. A commit comes on one connection, after
  which the device has a network; the fault of setup is a power cut, an attempt the driver will not
  have, a refused flash write or a change of the surroundings. The network takes WPA2 alone, so the
  ladder's first rung fails. Windows of 2 and 3 ticks are one doubling that the cap cuts short; a
  deadline of one tick is met exactly and overshot by the pump; the grace of 2 differs from both. Two
  faults lose an address and then the link or the network.
* **RelayServer.** Three sockets: one superseded, one registered, one on its way; two requests wait on
  different ones. A socket is used once, so a device that restarts takes the next.
* **RelayCommands.** Two req_ids: one command waits or pumps while another runs on, and two probes
  overlap. Of the kinds
  that the module treats alike one is asked for (`Asked`): wake for the two that pump alike,
  plug_status for the three plug commands that are no set.
* **Config.** `SeqMod` 4 is the least width at which next and previous differ, and is met by every
  record a device may come with. Two faults are a save whose retry fails too, or a failed save and one
  that follows it; four inputs are a setting, a change by the relay before or after it, a COMMIT, and one more (a second
  change, a reset, a refused command). One cut: a cut
  leaves the RAM empty and two sectors, and a device may come with any two neighbours.

CHECK_DEADLOCK is off for RelayLink, where a device that was deprovisioned stops by design, for
Config, where a device idles when the inputs the bound allows are spent, for FirstBoot, where the
portal waits for phones that have all been, and for RelayServer, which stops when it is told to.

### 5.2 Fairness

* **OTA.** The processor runs, so saves, the loader and an erase go on; a crash ends in the
  watchdog's reset; an image that works reaches the relay. No cut, offer or console command is fair.
* **RelayLink.** The main loop and its timers run (`Connecting`, `IdleExpires`, `GraceExpires`,
  `KeepaliveFails`, `RetryTimer`); a network that has no more faults comes back, and a relay answers.
  A stranger need say nothing, and one that says nothing is left by the idle timer.
* **Plug.** The main loop calls rw_plug_task(); a sweep is bounded by its own budget and an exchange
  by RW_HTTPC's deadline, whatever the plug does.
* **RelayCommands.** A pump returns and a closing connection is closed by its grace timer (weak). The
  queue, the probe, the plug operation and the restart are looked at in every round of the main loop;
  they are strongly fair because a command that pumps disables them for a while, as often as commands
  come. A probe has a deadline of its own; that a plug operation ends is `OperationEnds` of Plug.
* **FirstBoot.** The main loop runs whichever of the two it chose, deadlines are reached, and a scan that
  is over returns (weak). Three things are strongly fair, because others disable them again and again:
  lwIP's idle poll of a slot, which runs only while callbacks do; and the radio's taking in, turning
  away and addressing, since a network that is there answers now and then if not at every attempt.
  No phone need do anything, and no scan need complete: its deadline ends it. `SetUpIsJoined` assumes
  besides that the network stays in the end.
* **RelayServer.** Timers that are due fire: the handshake's, the sweeper, terminate() after close(), and
  a request's own. Nothing is assumed of the device or of the network.
* **Config.** A write that has begun goes on, and the main loop runs the relay task and the portal's
  restart. Nobody need type, no relay need answer, and the power need not come back.

## 6. What is proved

For every value of the constants that satisfies the named assumptions. Liveness is out of the
provers' reach and stays with TLC: `TrialEnds`, `ComesBack`, `OperationEnds`, `PowerComesBack`,
`EveryCommandEnds`, `AttemptsSettle`, `SlotsComeFree`, `ErrorsPass`, `SetUpIsJoined`, `NothingLingers`. Every
invariant, action property and refinement that a passing run checks is a theorem, and every module's `TypeOK` is
one: `TypeCorrect` or, of the device in set-up, `DeviceTypes`. The findings are TLC's counterexamples.

* **OtaUpdate_proofs**: `TypeCorrect`, `CableNotNeeded`, `RunningSlotSafe`, `ProvenImageToComeBackTo`,
  `Refinement`, `TrialWithinBudget` and `NeverGoesBack`, all of them from the assumptions on the constants alone.
  None of these is inductive: a proven image to
  come back to depends on what a save in progress would leave if it were cut off. The invariant
  has four parts: `SaveInv` (which of old and new record each sector holds, at each step of a save),
  `StepInv` (the record being saved is one step on from the one in force), `HomeInv` (the record in
  force comes back to a proven image, and proven images work) and `AppInv` (a confirmed application
  runs from the slot the record comes back to, and only a confirmed one touches the spare slot).
  They hold until `fellBack` or `meddled` (`Void`); `BasicInv` and `LossInv` are what holds of a device that has lost its
  record, and how it came to.
  `SequenceOrder`: for a counter of any width the comparison orders two
  records fewer than half its range apart, across the wrap.
  `TrialWithinBudget` rests on one more invariant, `BudgetInv`: the entries of an image on trial and the
  boots its record has left come to no more than `TrialBoots` and the writes refused so far, and to less
  once the next entry has been paid for; a cut between the two sectors of a save leaves it true, since the
  record in force is then already the paid one, and a refusal of either sector adds the entry it costs.
  `NeverGoesBack` rests on `SequenceInv`: the application's copy is the record in force or, after a save
  of which only the first sector took, the one just before it; so what a save writes comes next after what
  it replaces or has its number. Only ProgramFirst changes the record in force.
* **Stuck_proofs**: both directions of the detector's correctness and the
  report. The invariant's `DetectorKnows` says that the counter's differences are the real durations; they
  are because a turn is short and both thresholds are less than a wrap; they are not
  for an outage noted a millisecond late, but for that one an armed device has restarted already, and the
  others do not look.
* **RelayLink_proofs**: `Agreement`, `Paid`, `Grounds`. `SocketInv` is the agreement with
  its one exception, `PaidInv` what the next attempt will have to be paid with before and after the
  on_close() that ends the last one, `PeerInv` who is at the other end and what it can have said: a
  `hello_ack` that verifies is due only if its proof has been computed (`provable`), whoever passes it on,
  and a device of the built-in relay has nobody but that at the other end.
* **Plug_proofs**: six properties, and `PromiseIsKept`. `ShapeInv` says which operation can be in which
  phase with which answer in hand; `AimInv` that the address is one where the plug identified itself;
  `CallInv` who still waits; `CutInv` how far a cycle is; `ObservedInv` which answers tell of the
  channel. `VerdictInv` what a sweep found, an entry that is stale included. The refinement adds
  `SweptOnce`: the lookup is noted before the sweep begins, so a step never goes back to the
  abstract driver's first stage.
* **RelayCommands_proofs**: six properties. `QueueInv` (the queued command is one the relay waits for, with
  its parameters), `ProbeInv` and `PlugInv` (the same of what runs on), `SweepInv` (in a sweep the
  operation may have been cancelled, but then the link is down), `DisownedInv` (a probe that runs and has no
  owner was disowned by one that was refused).
* **Config_proofs**: six properties, and `NextWins` for a counter of any width. `SaveInv`: the record
  being written comes next after the other sector's, and its own sector is blank, older still, or holds
  the record from a first attempt; without it neither the order of the sectors nor the atomicity of the
  next erase follows. `KindInv` says what a write carries of the live configuration, `ResetInv` that a
  reset writes into A with B blank, `SetupInv` that in setup mode the flag of both copies is the same.

* **FirstBoot_proofs**, of NetJoin, assuming `ConstantsOK`: `NothingStallsEver` and `WholeGrace`, for any
  deadlines, any back-off and any pump. Neither follows from the state it names. `AttemptInv`: while an
  attempt lasts, what has passed and what DHCP's deadline has left make up the whole of the two, and the
  join's deadline comes no later; once that is reached, the excess is what the loop is late by.
  `AddressInv` is the same of an association without an address, before the loop has seen it and after,
  where the noting itself may come a pump late.
* **FirstBoot_proofs**, of the device that is set up, for any number of slots, phones and scans inside
  scans: `DeviceTypes`, `OnlyProvenNetworks`, `AnswersFitEver`, and with `DeviceNeverStalls` and
  `DeviceGraceIsWhole` that NetJoin's two properties survive the composition. `SlotInv`: a slot in use
  serves a phone that is there or has left, its reply is to what that phone asked or, if it was crossed,
  to the scan, and no more was acknowledged than was submitted; `OwnerInv`: no connection has two slots;
  `ScanInv`: a scan on the stack has its request taken as long as its asker has the slot. `JoinInv`,
  which needs nothing, says that while an attempt runs the driver was given the key the attempt is for,
  and that the keys in the stage and in flash are among the proven ones, so that a POST in the middle
  of an attempt or a power cut between two of its steps stores nothing that was not tried.
* **RelayServer_proofs**: three properties, for any number of sockets and requests. `RegisteredIsLatest` and
  `OneOpenSocket` are inductive together with `WaitInv`, which adds that nothing waits on socket 0, the
  null that `registered` is between two devices.

## 7. Disagreements met

Four have a run that TLC ends with a counterexample, and an entry under "findings" with the line quoted.

1. `relay_link_by_hand`: a device that may not enrol and never has sends no `auth` either.
2. `plug_lost_off`: a cycle whose off was carried out and whose answer was lost ends without an on.
3. `config_address_returns`: a COMMIT saves the stage taken at boot, with the owner's address that the
   relay has acknowledged and the device has erased since; only the flags are carried over.
4. `ota_stale_second`: rw_ota_flash_save() always erases sector A first; after a cut that left only A
   current, the next save's erase and a second cut bring the older record back, which relies on a slot
   that has been overwritten since.
Seven have a definition that TLC refutes in the component's own cfg (section 5):

* `NoRestartAtTheWrap` (Stuck): an armed device that is first without its link on the millisecond of the
  wrap restarts at once, since the nudge past the sentinel has the outage begin in the future
  (stuck.c:67). stuck.h:127-129 says that the comparison "keeps working across the wrap rather than
  restarting a healthy device".
* `StopIsDeserved` (RelayLink): close code 4002 stops a device for good in whatever state the handshake is
  (proto.c:1844), whoever sends it, if the device does not validate its relay's certificate. A device of the
  built-in relay does, and for it the property is checked and proved (`StoppedOnlyIfRevoked`).
* `MuteWasSeen` (Plug): the sweep takes ARP entries that are older than itself (lanscan.c:72), so a plug
  that has gone is reported *mute*. PROTOCOL.md:1823 has it that a cached entry must not count as seen.
* `EveryoneIsRemembered` (RelayCommands): a second probe takes the first one's req_id (proto.c:964), and the
  first is never resolved. PROTOCOL.md:3160 promises it a final probe_result.
* `ProbesEndWithTheLink` (RelayCommands): the second, refused, clears the owner too, and the first then
  outlives its connection.
* `OneScanAtATime` (Portal, FirstBoot): scans nest, which scan.c:110-113 rules out, because the portal serves
  other connections inside the pump of the first. The inner one clears the driver's flag, and the outer one
  then answers a list it did not wait for, and whoever has the slot by then. Ten seconds of scan meet
  ten of the idle limit.
* `RebindIsWaitedOut` (NetJoin): a JOINED device whose link status follows the lost address (net.c:280) is given
  up at once as link_lost (net.c:341); the grace of net.c:363 is for a status that stays up, and net.c:43 calls
  it "not instantaneous" of any association. There is no leave either, so a join begins on a live
  association, which net.c:326-328 is at pains to avoid elsewhere.

What is left of a property beside each of these eleven, with the exception named, is checked by a passing
run and, but for liveness, proved.

Met while modelling, and stated nowhere but here:

* OTA_SELFTEST and OTA_STAGE are not refused while an image is on trial, as OTA_UPDATE is (`meddled`).
* dns_done() drops what start_connect() returns (ws.c:541): without a free pcb the socket is closed
  again, on_close() is not called, and the session stays CONNECTING until something else stops it.
* Nothing keeps the restart into an update (proto.c:1940) out of the dwell of a plug's cycle: a device
  that restarts between the off and the on leaves the machine without power.
* The comment at net.c:30-33 gives an attempt that hangs in LINK_JOIN twenty seconds; the branch it
  falls into waits for DHCP's deadline, fifty seconds from the start.
* After a rejoin `sntp_timeout` is not raised again: the flag that says it has been is never reset
  without a clock.
* The test join offers WPA2 alone (provisioning.c:189), so a network that takes only WPA3 cannot be set
  up through the portal; and when the driver will not begin it, the station interface stays up, which
  join_finish() takes down in every other case.
* In the relay an auth frame that arrives after close() is still verified and supersedes the live
  connection (server.js:361), and a device is shown online until the close event.
* SET_WIFI with a password that is too long is refused with the SSID already copied (cmdline.c:285-294).
* "configuration unchanged", the text of `flash_error`, is not true of a factory reset that failed
  half-way, nor of a save whose last attempt timed out after it had been carried out.
* A power cut between the erase and the write of a factory reset loses the token, which
  config-format.md says a reset keeps; the comment at config_flash.c:164 accepts it.

## 8. What is not modelled

* The codecs (JSON, WebSocket framing, the upgrade, HMAC and SHA, TLS, mDNS, NetBIOS): pure functions
  with unit tests and vectors of their own. The modules use their verdicts.
* The portal's DHCP and DNS servers and the HTTP parser. The two servers answer each packet from the
  packet and, for DHCP, a small table of leases, in which a lease that was only offered counts like one
  that was taken; no other part reads that table. What the portal stages and commits is in Portal and Config.
* Wake: two loops that send packets. RelayCommands has the pump between the packets.
* plug_scan's and lan_scan's result: RelayCommands has the command, Plug the sweep for one plug; the sweep
  for all of them, its ordering and its budgets are left out.
* The LED and the log: displays of state kept elsewhere.
* A command that is refused at its frame, whose answer changes nothing, and the parameters' values.
* The console's parser and the commands that only report.
* The tools that make images and configurations: sequential programs at a desk.
* Code 4002 and `enrol` of the reference relay, which it does not implement (PROTOCOL.md has them; RelayLink
  models the device's side), its rate limiter, and GET /devices.
