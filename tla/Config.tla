-------------------------------- MODULE Config --------------------------------
(***************************************************************************)
(* The stored configuration (firmware/src/config/config.c, config_flash.c) *)
(* and everything that writes it: the console's COMMIT (usbcfg/usbcfg.c,   *)
(* cmdline.c), the portal's (provisioning/provisioning.c), the relay       *)
(* session's enrolled flag and erased address (proto/proto.c), and the     *)
(* factory reset.                                                          *)
(*                                                                         *)
(* A save goes to the sector that is not in force, under the next sequence *)
(* number; a boot loads the newer of the two that read.  The device is     *)
(* single threaded: while a write is under way only the power may step in. *)
(* The device_id is left out: it is derived at every boot and is the same  *)
(* in every record.  So are the authentication mode, which SET_WIFI        *)
(* derives from the password, and the flags nothing on the device writes.  *)
(***************************************************************************)
EXTENDS Integers

CONSTANTS Networks, Keys,    \* SSIDs, and passwords besides the empty one
          Relays, BuiltIn,   \* relay URLs, and the one that permits enrolment
          Addresses, Typed,  \* account addresses, and those a host may give
          Tokens,            \* device tokens
          None,              \* an empty field
          Found,             \* the configurations a device may come with
          SeqMod,            \* the sequence number wraps here, 2^32
          MaxInputs, MaxFaults, MaxCuts   \* bounds on what happens to the device

ASSUME SeqModAssumption == SeqMod \in Nat /\ SeqMod > 3
ASSUME FieldsAssumption ==
  /\ None \notin Networks \cup Keys \cup Addresses \cup Tokens
  /\ BuiltIn \in Relays /\ Typed \subseteq Addresses
ASSUME BoundsAssumption == MaxInputs \in Nat /\ MaxFaults \in Nat /\ MaxCuts \in Nat

VARIABLES
  power,    \* "up", or "down": without power, or waiting for the watchdog
  flash,    \* what reads from each of the two sectors
  live,     \* s_config
  stage,    \* the console's copy, with its dirty flag
  portal,   \* the portal's
  setup,    \* this boot found no network and runs the setup portal
  pending,  \* persist_pending: the relay session has changed live
  leaving,  \* the portal has committed and will restart in two seconds
  job,      \* the write under way
  outcome,  \* how the last write since the boot ended
  left      \* what remains of the bounds

vars == <<power, flash, live, stage, portal, setup, pending, leaving, job, outcome, left>>

(* ---- The record and the two sectors ------------------------------------ *)

Configs == [ssid : Networks \cup {None}, psk : Keys \cup {None}, relay : Relays,
            email : Addresses \cup {None}, token : Tokens \cup {None}, enrolled : BOOLEAN]

ASSUME FoundAssumption == Found \subseteq Configs

\* rw_config_init; an empty relay URL is the built-in one.
NewConfig == [ssid |-> None, psk |-> None, relay |-> BuiltIn, email |-> None,
              token |-> None, enrolled |-> FALSE]

Slots == {"A", "B"}

OtherSlot(s) == IF s = "A" THEN "B" ELSE "A"

\* The sequence number of a sector that does not decode: blank or half written.
NoSeq == -1

Sectors == [seq : (0 .. SeqMod - 1) \cup {NoSeq}, cfg : Configs]

Blank == [seq |-> NoSeq, cfg |-> NewConfig]

Reads(f, s) == f[s].seq # NoSeq

NextSeq(seq) == (seq + 1) % SeqMod

\* (int32_t)(a - b) > 0
Newer(a, b) == (a - b) % SeqMod \in 1 .. (SeqMod - 1) \div 2

Winner(f) ==
  IF Reads(f, "B") /\ (Reads(f, "A") => Newer(f["B"].seq, f["A"].seq)) THEN "B"
  ELSE IF Reads(f, "A") THEN "A" ELSE "none"

\* What a boot would load.
Boots(f) == IF Winner(f) = "none" THEN NewConfig ELSE f[Winner(f)].cfg

(* ---- A write, one flash operation at a time ------------------------------ *)

Kinds == {"commit", "portal", "persist", "reset"}

Phases == {"eraseB", "eraseA", "prove", "write", "program"}

Jobs == [kind : Kinds, phase : Phases, cfg : Configs, slot : Slots,
         seq : 0 .. SeqMod - 1, again : BOOLEAN]

Idle == [kind |-> "none", phase |-> "none", cfg |-> NewConfig, slot |-> "A",
         seq |-> 0, again |-> FALSE]

\* Mutated form: the slot in force is overwritten.
Target_Winner(f) == IF Winner(f) = "none" THEN "A" ELSE Winner(f)

\* "Write to the slot that is not live."
Target(f) == IF Winner(f) = "A" THEN "B" ELSE "A"

FreshSeq(f) == IF Winner(f) = "none" THEN 1 ELSE NextSeq(f[Winner(f)].seq)

SaveJob(kind, cfg) ==
  [kind |-> kind, phase |-> "write", cfg |-> cfg, slot |-> Target(flash),
   seq |-> FreshSeq(flash), again |-> TRUE]

\* The configuration a reset leaves: the token, when there is one.
Identity(cfg) == [NewConfig EXCEPT !.token = cfg.token]

Ready == power = "up" /\ job = Idle

Spend(what) == left[what] > 0 /\ left' = [left EXCEPT ![what] = @ - 1]

NeedsRestart(before, after) == before.ssid # after.ssid \/ before.psk # after.psk

\* Mutated form: the device goes on with what was staged, not with what was saved.
Apply_Staged == live' = stage.cfg /\ stage' = [cfg |-> stage.cfg, dirty |-> FALSE]

\* The end of a COMMIT: *live = to_save, stage = to_save.
Apply == live' = job.cfg /\ stage' = [cfg |-> job.cfg, dirty |-> FALSE]

\* What each caller does with success.  rw_sys_reboot does not come back.
Succeed ==
  /\ job' = Idle
  /\ outcome' = "ok"
  /\ \/ /\ job.kind = "commit"
        /\ Apply
        /\ power' = IF NeedsRestart(live, job.cfg) THEN "down" ELSE "up"
        /\ UNCHANGED <<portal, leaving>>
     \/ /\ job.kind = "portal"
        /\ live' = job.cfg
        /\ portal' = [cfg |-> job.cfg, dirty |-> FALSE]
        /\ leaving' = TRUE
        /\ UNCHANGED <<stage, power>>
     \/ /\ job.kind = "persist"
        /\ UNCHANGED <<live, stage, portal, leaving, power>>
     \/ /\ job.kind = "reset"
        /\ power' = "down"
        /\ UNCHANGED <<live, stage, portal, leaving>>

\* No caller changes anything in RAM when its write fails.
Fail ==
  /\ job' = Idle
  /\ outcome' = "failed"
  /\ UNCHANGED <<power, live, stage, portal, leaving>>

GoOn(phase) ==
  /\ job' = [job EXCEPT !.phase = phase]
  /\ UNCHANGED <<power, live, stage, portal, leaving, outcome>>

(* ---- rw_config_flash_save ------------------------------------------------ *)

Put(sector) == flash' = [flash EXCEPT ![job.slot] = sector]

EraseTarget ==
  /\ job.phase = "write"
  /\ Put(Blank)
  /\ GoOn("program")
  /\ UNCHANGED <<setup, pending, left>>

Program ==
  /\ job.phase = "program"
  /\ Put([seq |-> job.seq, cfg |-> job.cfg])
  /\ Succeed
  /\ UNCHANGED <<setup, pending, left>>

\* "Nothing was written, retrying will not help."
Locked ==
  /\ job.phase = "write"
  /\ Spend("faults")
  /\ Fail
  /\ UNCHANGED <<flash, setup, pending>>

\* A verify error gets one more attempt at the same slot.
RetryOrFail ==
  \/ /\ job.again
     /\ job' = [job EXCEPT !.phase = "write", !.again = FALSE]
     /\ UNCHANGED <<power, live, stage, portal, leaving, outcome>>
  \/ ~job.again /\ Fail

\* The read-back differs, or the helper timed out: the sector is as it was,
\* spoilt, or holds the record all the same.
NotVerified ==
  /\ Spend("faults")
  /\ \/ job.phase = "write" /\ UNCHANGED flash
     \/ /\ job.phase = "program"
        /\ Put(Blank) \/ Put([seq |-> job.seq, cfg |-> job.cfg])
  /\ RetryOrFail
  /\ UNCHANGED <<setup, pending>>

(* ---- rw_config_flash_factory_reset, rw_config_flash_erase_all ------------ *)

\* Without a token the record it would write is the new one, which is none at all.
ResetJob ==
  [kind |-> "reset", phase |-> "eraseB", cfg |-> Identity(Boots(flash)),
   slot |-> "A", seq |-> 1, again |-> TRUE]

\* From the BOOTSEL button, which ends its hold whether the erase works or not,
\* or from the console.
FactoryReset ==
  /\ Ready
  /\ Spend("inputs")
  /\ job' = ResetJob
  /\ UNCHANGED <<power, flash, live, stage, portal, setup, pending, leaving, outcome>>

Erases(phase) == IF phase = "eraseB" THEN "B" ELSE "A"

\* The helper reports success; a worn sector may keep its record all the same.
EraseSlot ==
  /\ job.phase \in {"eraseB", "eraseA"}
  /\ \/ flash' = [flash EXCEPT ![Erases(job.phase)] = Blank] /\ UNCHANGED left
     \/ Spend("faults") /\ UNCHANGED flash
  /\ GoOn(IF job.phase = "eraseB" THEN "eraseA" ELSE "prove")
  /\ UNCHANGED <<setup, pending>>

\* The helper reports a failure, whether or not the erase took place.
EraseRefused ==
  /\ job.phase \in {"eraseB", "eraseA"}
  /\ Spend("faults")
  /\ \/ flash' = [flash EXCEPT ![Erases(job.phase)] = Blank]
     \/ UNCHANGED flash
  /\ Fail
  /\ UNCHANGED <<setup, pending>>

\* Mutated form: the erase is assumed, not proved.
ProveErased_Assumes ==
  /\ job.phase = "prove"
  /\ \/ job.cfg = NewConfig /\ Succeed
     \/ /\ job.cfg # NewConfig
        /\ job' = SaveJob("reset", job.cfg)
        /\ UNCHANGED <<power, live, stage, portal, leaving, outcome>>
  /\ UNCHANGED <<flash, setup, pending, left>>

\* "Prove it rather than assume it"; then the identity is written back.
ProveErased ==
  /\ job.phase = "prove"
  /\ \/ Winner(flash) # "none" /\ Fail
     \/ Winner(flash) = "none" /\ job.cfg = NewConfig /\ Succeed
     \/ /\ Winner(flash) = "none" /\ job.cfg # NewConfig
        /\ job' = SaveJob("reset", job.cfg)
        /\ UNCHANGED <<power, live, stage, portal, leaving, outcome>>
  /\ UNCHANGED <<flash, setup, pending, left>>

FlashStep ==
  \/ EraseTarget \/ Program \/ Locked \/ NotVerified
  \/ EraseSlot \/ EraseRefused \/ ProveErased

(* ---- The console (cmdline.c, usbcfg.c) ----------------------------------- *)

Staged(cfg) == [cfg |-> cfg, dirty |-> TRUE]

\* What SET_WIFI, SET_RELAY, SET_EMAIL and SET_TOKEN, accepted, can make of a
\* staging buffer.
SetWifi(cfg) ==
  UNION {{[cfg EXCEPT !.ssid = n, !.psk = k] : k \in Keys \cup {None}} : n \in Networks}
SetRelay(cfg) == {[cfg EXCEPT !.relay = r] : r \in Relays}
SetEmail(cfg) == {[cfg EXCEPT !.email = e] : e \in Typed}
SetToken(cfg) == {[cfg EXCEPT !.token = t] : t \in Tokens}

Set ==
  /\ Ready
  /\ Spend("inputs")
  /\ \E cfg \in SetWifi(stage.cfg) \cup SetRelay(stage.cfg) \cup SetEmail(stage.cfg)
                 \cup SetToken(stage.cfg) : stage' = Staged(cfg)
  /\ UNCHANGED <<power, flash, live, portal, setup, pending, leaving, job, outcome>>

\* SET_WIFI with a password too long: the SSID is already copied when the
\* command is refused, and the dirty flag is left alone.
SetWifiRefused ==
  /\ Ready
  /\ Spend("inputs")
  /\ \E n \in Networks : stage' = [stage EXCEPT !.cfg.ssid = n]
  /\ UNCHANGED <<power, flash, live, portal, setup, pending, leaving, job, outcome>>

\* rw_stage_validate
Valid(staged) == staged.dirty /\ staged.cfg.ssid # None

\* rw_config_ensure_token: a token is minted only when there is none.
EnsureToken(cfg) ==
  IF cfg.token # None THEN {cfg} ELSE SetToken(cfg)

CarryRuntimeFlags(cfg) == [cfg EXCEPT !.enrolled = live.enrolled]

\* cmd_commit, as far as the save it starts.
Commit ==
  /\ Ready
  /\ Spend("inputs")
  /\ Valid(stage)
  /\ \E cfg \in EnsureToken(stage.cfg) : job' = SaveJob("commit", CarryRuntimeFlags(cfg))
  /\ UNCHANGED <<power, flash, live, stage, portal, setup, pending, leaving, outcome>>

(* ---- The setup portal ----------------------------------------------------- *)

\* The test join succeeded and its credentials are staged, or the form named a
\* relay or an address.
PortalSet ==
  /\ Ready /\ setup
  /\ Spend("inputs")
  /\ \E cfg \in SetWifi(portal.cfg) \cup SetRelay(portal.cfg) \cup SetEmail(portal.cfg) :
       portal' = Staged(cfg)
  /\ UNCHANGED <<power, flash, live, stage, setup, pending, leaving, job, outcome>>

\* rw_portal_api_commit, which carries no flags over.
PortalCommit ==
  /\ Ready /\ setup
  /\ Spend("inputs")
  /\ Valid(portal)
  /\ \E cfg \in EnsureToken(portal.cfg) : job' = SaveJob("portal", cfg)
  /\ UNCHANGED <<power, flash, live, stage, portal, setup, pending, leaving, outcome>>

\* rw_provisioning_task, two seconds after its commit.
PortalRestart ==
  /\ Ready /\ leaving
  /\ power' = "down"
  /\ UNCHANGED <<flash, live, stage, portal, setup, pending, leaving, job, outcome, left>>

(* ---- The relay session ------------------------------------------------------ *)

\* The answer to an enrol that may be sent: its proof verifies.
Enrolled ==
  /\ Ready /\ ~setup
  /\ Spend("inputs")
  /\ live.token # None /\ ~live.enrolled /\ live.relay = BuiltIn
  /\ live' = [live EXCEPT !.enrolled = TRUE]
  /\ pending' = TRUE
  /\ UNCHANGED <<power, flash, stage, portal, setup, leaving, job, outcome>>

\* handle_adopt_ack on a session that is READY.
Adopted ==
  /\ Ready /\ ~setup
  /\ Spend("inputs")
  /\ live.token # None /\ live.enrolled
  /\ live' = [live EXCEPT !.email = None]
  /\ pending' = TRUE
  /\ UNCHANGED <<power, flash, stage, portal, setup, leaving, job, outcome>>

\* The first lines of rw_relay_task: one attempt, on the main loop.
Persist ==
  /\ Ready /\ pending
  /\ pending' = FALSE
  /\ job' = SaveJob("persist", live)
  /\ UNCHANGED <<power, flash, live, stage, portal, setup, leaving, outcome, left>>

(* ---- Boots and power cuts ----------------------------------------------------- *)

\* main(), rw_usbcfg_init and rw_provisioning_start.
Boot ==
  /\ power = "down"
  /\ power' = "up"
  /\ live' = Boots(flash)
  /\ stage' = [cfg |-> Boots(flash), dirty |-> FALSE]
  /\ portal' = [cfg |-> Boots(flash), dirty |-> FALSE]
  /\ setup' = (Boots(flash).ssid = None)
  /\ pending' = FALSE
  /\ leaving' = FALSE
  /\ outcome' = "none"
  /\ UNCHANGED <<flash, job, left>>

PowerCut ==
  /\ power = "up"
  /\ Spend("cuts")
  /\ power' = "down"
  /\ job' = Idle
  /\ outcome' = "none"
  /\ UNCHANGED <<flash, live, stage, portal, setup, pending, leaving>>

(* ---- The specification --------------------------------------------------------- *)

\* A new device, or one that was written at least once: the record in force in
\* either slot, under any number, and perhaps the one before it in the other.
Init ==
  /\ power = "down"
  /\ \/ flash = [s \in Slots |-> Blank]
     \/ \E s \in Slots, seq \in 0 .. SeqMod - 1, cfg \in Found, before \in Found \cup {NewConfig} :
          flash = [t \in Slots |->
                     IF t = s THEN [seq |-> NextSeq(seq), cfg |-> cfg]
                     ELSE IF before = NewConfig THEN Blank ELSE [seq |-> seq, cfg |-> before]]
  /\ live = NewConfig
  /\ stage = [cfg |-> NewConfig, dirty |-> FALSE]
  /\ portal = [cfg |-> NewConfig, dirty |-> FALSE]
  /\ setup = FALSE /\ pending = FALSE /\ leaving = FALSE
  /\ job = Idle
  /\ outcome = "none"
  /\ left = [inputs |-> MaxInputs, faults |-> MaxFaults, cuts |-> MaxCuts]

Host == Set \/ SetWifiRefused \/ Commit \/ PortalSet \/ PortalCommit \/ FactoryReset

Next ==
  \/ FlashStep \/ Host \/ PortalRestart
  \/ Enrolled \/ Adopted \/ Persist
  \/ Boot \/ PowerCut

\* The main loop turns and a write that has begun goes on; nobody need type,
\* no relay need answer, and the power need not come back.
Fairness == WF_vars(FlashStep) /\ WF_vars(Persist) /\ WF_vars(PortalRestart)

Spec == Init /\ [][Next]_vars /\ Fairness

(* ---- Properties ------------------------------------------------------------------ *)

Stages == [cfg : Configs, dirty : BOOLEAN]

Budgets == [inputs : 0 .. MaxInputs, faults : 0 .. MaxFaults, cuts : 0 .. MaxCuts]

\* The type of the state: no number outgrows its field.
TypeOK ==
  /\ power \in {"up", "down"}
  /\ flash \in [Slots -> Sectors]
  /\ live \in Configs
  /\ stage \in Stages
  /\ portal \in Stages
  /\ setup \in BOOLEAN /\ pending \in BOOLEAN /\ leaving \in BOOLEAN
  /\ job \in Jobs \cup {Idle}
  /\ outcome \in {"none", "ok", "failed"}
  /\ left \in Budgets

\* Two readable sectors hold neighbouring numbers, so that which is newer is
\* never a matter of the rule for equal numbers, across the wrap, the retries,
\* cut writes and half-done resets ("Equal sequence numbers should not happen",
\* rw_config_select).
SlotsAreNeighbours ==
  Reads(flash, "A") /\ Reads(flash, "B") =>
    \/ flash["A"].seq = NextSeq(flash["B"].seq)
    \/ flash["B"].seq = NextSeq(flash["A"].seq)

\* The device runs on what it would boot with, as long as the last write did not
\* fail and the relay session has nothing left to write: no commit, portal,
\* enrolment or erased address is in RAM only, and none is in flash only.
RunsWhatItWouldBoot ==
  Ready /\ ~pending /\ outcome # "failed" => live = Boots(flash)

\* A save takes effect at once and as a whole: until its record is programmed a
\* boot loads what it loaded before, and from then on what was saved, wherever
\* the power goes or the flash fails.  A retry may take a record back that was
\* written but not verified, and what is in force then is what was before.  Only
\* a reset may leave anything else.
SaveIsAtomic ==
  [][job.kind # "reset" =>
       \/ Boots(flash') = Boots(flash)
       \/ job.phase = "program" /\ Boots(flash') = job.cfg
       \/ /\ job.phase = "write" /\ ~job.again
          /\ Boots(flash) = job.cfg /\ Boots(flash') = flash[OtherSlot(job.slot)].cfg]_vars

\* A factory reset that reports success has left nothing that a person chose in
\* either sector, and has kept the token the device ran on.
ResetKeepsOnlyIdentity ==
  [][job.kind = "reset" /\ job' = Idle /\ outcome' = "ok" =>
       /\ \A s \in Slots : flash'[s].cfg = Identity(flash'[s].cfg)
       /\ outcome # "failed" => Boots(flash').token = live.token]_vars

\* The enrolled flag a device runs with, once stored, is lost to a reset only: a COMMIT whose stage
\* was taken before the enrolment, or a portal's, does not clear it.  A retry
\* that takes back a record with the flag is about to write the same again.
EnrolledIsKept ==
  [][live.enrolled /\ Boots(flash).enrolled /\ ~Boots(flash').enrolled =>
       \/ job.kind = "reset"
       \/ job.phase = "write" /\ ~job.again /\ job.cfg.enrolled]_vars

\* An address that is no longer stored does not come back by itself: where no
\* host gives one, nothing fails and nothing is cut, it is "erased as soon as the
\* relay acknowledges it" (rw_config_t).  While a reset is under way the sectors
\* go one after the other.
ErasedAddressStaysErased ==
  [][Boots(flash).email = None /\ job.kind # "reset" => Boots(flash').email = None]_vars
===============================================================================
