------------------------------ MODULE OtaUpdate -------------------------------
(***************************************************************************)
(* The over-the-air update: the two slots, the two copies of the state     *)
(* record, the loader that picks a slot at reset, and the application that *)
(* streams an image into the spare slot, stages it, and confirms it once   *)
(* it has reached the relay.                                               *)
(*                                                                         *)
(* The device does one thing at a time.  What interleaves with it is the   *)
(* world: the power can be cut between any two flash operations, a sector  *)
(* can refuse a write, the relay session comes and goes, and somebody may  *)
(* type a diagnostic command on the USB console.                           *)
(***************************************************************************)
EXTENDS OtaState

CONSTANTS Builds,       \* how the images on offer behave once entered
          Console,      \* the diagnostic console commands somebody uses
          MaxCuts,      \* bound: power cuts in a behaviour
          MaxFaults     \* bound: sector writes that do not read back

\* "works" reaches the relay; "crashes" is reset by the watchdog; "deaf" runs
\* on and never reaches the relay.
Behaviours == {"works", "crashes", "deaf"}

Commands == {"FLASH_BENCH", "OTA_SELFTEST", "OTA_STAGE"}

ASSUME BuildsAssumption == Builds \subseteq Behaviours
ASSUME ConsoleAssumption == Console \subseteq Commands
ASSUME MaxAssumption == MaxCuts \in Nat /\ MaxFaults \in Nat

VARIABLES
  copy,      \* the two sectors of the state record, written in the order 1, 2
  image,     \* what each slot holds
  pc,        \* which program has the processor
  running,   \* the slot the application was entered in
  ram,       \* the record in RAM: the loader's, then the application's s_state
  save,      \* the rw_ota_flash_save() in progress
  writer,    \* what the image writer is doing to the spare slot
  offer,     \* an ota_offer has been queued for the main loop
  online,    \* the relay session is READY
  proven,    \* slots whose present image has reached the relay
  tries,     \* entries of the present unproven image
  cuts, faults,
  fellBack,  \* history: the record in force was lost, and not with its successor
  meddled    \* history: OTA_SELFTEST or OTA_STAGE was typed on an image on trial

vars == <<copy, image, pc, running, ram, save, writer, offer, online, proven,
          tries, cuts, faults, fellBack, meddled>>

\* A slot is blank when slot_bootable() turns it down, torn when its vectors
\* read well and the rest is not all there.
Contents == Behaviours \cup {"blank", "torn"}

Bootable(slot) == image[slot] # "blank"

Spare == OtherSlot(running)

NoSave == [op |-> "none", rec |-> Torn, was |-> Torn, sector |-> 0, erased |-> FALSE]

Saves == [op : {"boot", "confirm", "stage"}, rec : Records, was : Copies,
          sector : {1, 2}, erased : BOOLEAN]

\* What a load finds: the newer readable copy.
Loaded == Pick(copy[1], copy[2])

TypeOK ==
  /\ copy \in [{1, 2} -> Copies]
  /\ image \in [Slots -> Contents]
  /\ pc \in {"reset", "loader", "enter", "app", "restart", "rom"}
  /\ running \in Slots \cup {"none"}
  /\ ram \in Copies
  /\ save \in Saves \cup {NoSave}
  /\ writer \in {"idle", "erasing", "writing", "bench", "selftest"}
  /\ offer \in BOOLEAN
  /\ online \in BOOLEAN
  /\ proven \subseteq Slots
  /\ tries \in 0 .. TrialBoots + MaxFaults + 1
  /\ cuts \in 0 .. MaxCuts
  /\ faults \in 0 .. MaxFaults
  /\ fellBack \in BOOLEAN
  /\ meddled \in BOOLEAN

\* A device fresh from the factory: a working image in slot A, nothing in
\* slot B, no state record.
Init ==
  /\ copy = [sector \in {1, 2} |-> Torn]
  /\ image = [slot \in Slots |-> IF slot = "A" THEN "works" ELSE "blank"]
  /\ pc = "reset"
  /\ running = "none"
  /\ ram = Torn
  /\ save = NoSave
  /\ writer = "idle"
  /\ offer = FALSE
  /\ online = FALSE
  /\ proven = {"A"}
  /\ tries = 0
  /\ cuts = 0
  /\ faults = 0
  /\ fellBack = FALSE
  /\ meddled = FALSE

-------------------------------------------------------------------------------
\* Writing the record: sector 1 then sector 2, each erased, programmed and
\* read back; the first that does not read back ends the save.

BeginSave(op, rec) ==
  save' = [op |-> op, rec |-> rec, was |-> Loaded, sector |-> 1, erased |-> FALSE]

\* The second copy holds the record this save is replacing.
SecondIsCurrent == save.was = Torn \/ copy[2] = save.was

\* If the save ends here the record in force is lost with the first copy: an
\* earlier save left the second one behind, and the first is erased before it.
OnlyCopyErased == save.sector = 1 /\ save.erased /\ ~SecondIsCurrent

SaveIsCutShort == fellBack' = (fellBack \/ OnlyCopyErased)

\* Mutated form: both sectors are erased before either is programmed.
Erased_Both(sector) == [s \in DOMAIN copy |-> Torn]

Erased(sector) == [copy EXCEPT ![sector] = Torn]

EraseSector ==
  /\ save # NoSave
  /\ ~save.erased
  /\ copy' = Erased(save.sector)
  /\ save' = [save EXCEPT !.erased = TRUE]
  /\ UNCHANGED <<image, pc, running, ram, writer, offer, online, proven, tries,
                 cuts, faults, fellBack, meddled>>

\* What the caller does with the answer.  The loader ignores it; the
\* application adopts the record only if the save went well, and restarts
\* into a staged slot.
SaveReturns(ok) ==
  /\ save' = NoSave
  /\ pc' = CASE save.op = "boot" -> "enter"
             [] save.op = "stage" /\ ok -> "restart"
             [] OTHER -> pc
  /\ ram' = IF ok \/ save.op = "boot" THEN save.rec ELSE ram
  /\ UNCHANGED <<image, running, writer, offer, online, proven, tries, cuts,
                 meddled>>

ProgramFirst ==
  /\ save # NoSave
  /\ save.erased
  /\ save.sector = 1
  /\ copy' = [copy EXCEPT ![1] = save.rec]
  /\ save' = [save EXCEPT !.sector = 2, !.erased = FALSE]
  /\ UNCHANGED <<image, pc, running, ram, writer, offer, online, proven, tries,
                 cuts, faults, fellBack, meddled>>

ProgramSecond ==
  /\ save # NoSave
  /\ save.erased
  /\ save.sector = 2
  /\ copy' = [copy EXCEPT ![2] = save.rec]
  /\ SaveReturns(TRUE)
  /\ UNCHANGED <<faults, fellBack>>

ProgramFails ==
  /\ save # NoSave
  /\ save.erased
  /\ faults < MaxFaults
  /\ faults' = faults + 1
  /\ SaveReturns(FALSE)
  /\ SaveIsCutShort
  /\ UNCHANGED copy

-------------------------------------------------------------------------------
\* The loader.

LoaderReads ==
  /\ pc = "reset"
  /\ \/ /\ Loaded = Torn
        /\ ram' = Default("A")
        /\ pc' = "enter"
        /\ UNCHANGED save
     \/ /\ Loaded # Torn
        /\ Loaded.confirmed
        /\ ram' = Loaded
        /\ pc' = "enter"
        /\ UNCHANGED save
     \/ /\ Loaded # Torn
        /\ ~Loaded.confirmed
        /\ ram' = OnBoot(Loaded)
        /\ pc' = "loader"
        /\ BeginSave("boot", OnBoot(Loaded))
  /\ UNCHANGED <<copy, image, running, writer, offer, online, proven, tries,
                 cuts, faults, fellBack, meddled>>

\* Jump to the recorded slot, to the other one if that holds nothing, to the
\* ROM's USB drive if neither does.  The application then reads the record
\* afresh; without one it takes the slot it runs from for confirmed.
EnterSlot ==
  /\ pc = "enter"
  /\ LET slot == IF Bootable(ram.active) THEN ram.active ELSE OtherSlot(ram.active)
     IN IF Bootable(slot)
        THEN /\ pc' = "app"
             /\ running' = slot
             /\ ram' = IF Loaded = Torn THEN Default(slot) ELSE Loaded
             /\ tries' = IF slot \in proven \/ tries > TrialBoots + MaxFaults THEN tries
                         ELSE tries + 1
        ELSE /\ pc' = "rom"
             /\ UNCHANGED <<running, ram, tries>>
  /\ UNCHANGED <<copy, image, save, writer, offer, online, proven, cuts, faults,
                 fellBack, meddled>>

\* Everything that was only in RAM is gone.
Reset ==
  /\ pc' = "reset"
  /\ running' = "none"
  /\ ram' = Torn
  /\ save' = NoSave
  /\ writer' = "idle"
  /\ offer' = FALSE
  /\ online' = FALSE
  /\ UNCHANGED <<copy, image, proven, tries, meddled>>

\* Fewer than half the counter's range of records separate the two copies: a
\* second sector is not left behind by 2^31 saves that were all cut short.
CopiesComparable ==
  copy[1] # Torn /\ copy[2] # Torn => (copy[1].seq - copy[2].seq) % SeqMod < SeqMod \div 2

\* The power goes, at any moment, in the middle of a save or an erase too.
PowerCut ==
  /\ pc \notin {"reset", "rom"}
  /\ cuts < MaxCuts
  /\ CopiesComparable
  /\ cuts' = cuts + 1
  /\ Reset
  /\ SaveIsCutShort
  /\ UNCHANGED faults

\* The main loop is free: no save, erase or console command holds it.
AppFree == pc = "app" /\ save = NoSave /\ writer \in {"idle", "writing"}

\* The watchdog resets an image that crashes; a torn one fares no better.
CrashAndReset ==
  /\ AppFree
  /\ image[running] \notin {"works", "deaf"}
  /\ Reset
  /\ UNCHANGED <<cuts, faults, fellBack>>

\* Every other restart of a running application: the console's REBOOT, the
\* stuck-link restart, a configuration change.
AppRestarts ==
  /\ AppFree
  /\ image[running] \in {"works", "deaf"}
  /\ Reset
  /\ UNCHANGED <<cuts, faults, fellBack>>

\* rw_sys_reboot() after a stage: it spins until the watchdog fires.
RestartIntoStaged ==
  /\ pc = "restart"
  /\ Reset
  /\ UNCHANGED <<cuts, faults, fellBack>>

-------------------------------------------------------------------------------
\* The application.

\* Mutated form: the confirmation trusts the record about which slot is running.
Confirmed_ByRecord == Confirm(ram)

\* Anchored to the running slot whatever the record says.
Confirmed == [Confirm(ram) EXCEPT !.active = running, !.fallback = running]

Staged(slot) == Stage([ram EXCEPT !.active = running, !.confirmed = TRUE], slot)

\* Mutated form: a trial is taken for over with its last boot spent.
OnTrial_BootsLeft == ram.trial > 0

\* rw_ota_on_trial(): this image still owes a confirmation.
OnTrial == ~ram.confirmed

\* hello_ack verified: the image has done what a broken one cannot.
HelloAck ==
  /\ AppFree
  /\ image[running] = "works"
  /\ ~online
  /\ online' = TRUE
  /\ proven' = proven \cup {running}
  /\ tries' = IF running \in proven THEN tries ELSE 0
  /\ IF OnTrial THEN BeginSave("confirm", Confirmed) ELSE UNCHANGED save
  /\ UNCHANGED <<copy, image, pc, running, ram, writer, offer, cuts, faults,
                 fellBack, meddled>>

\* on_close: the queued offer is dropped and a transfer abandoned.
Disconnect ==
  /\ AppFree
  /\ online
  /\ online' = FALSE
  /\ offer' = FALSE
  /\ writer' = "idle"
  /\ UNCHANGED <<copy, image, pc, running, ram, save, proven, tries, cuts,
                 faults, fellBack, meddled>>

\* Mutated form: an offer is taken while the running image is unproven.
OfferRefused_NotOnTrial == writer = "writing" \/ offer

\* "busy" or "on_trial".
OfferRefused == writer = "writing" \/ offer \/ OnTrial

OtaOffer ==
  /\ AppFree
  /\ online
  /\ ~OfferRefused
  /\ offer' = TRUE
  /\ UNCHANGED <<copy, image, pc, running, ram, save, writer, online, proven,
                 tries, cuts, faults, fellBack, meddled>>

\* What the spare slot held is no longer to be relied on.
Overwrite(slot) ==
  /\ image' = [image EXCEPT ![slot] = "torn"]
  /\ proven' = proven \ {slot}

\* Mutated form: the slot the record names, not the one that is not running.
SpareToWrite_Recorded == OtherSlot(ram.active)

SpareToWrite == Spare

\* run_ota_begin: the erase starts.
OtaBegin ==
  /\ AppFree
  /\ offer
  /\ online
  /\ writer = "idle"
  /\ offer' = FALSE
  /\ writer' = "erasing"
  /\ Overwrite(SpareToWrite)
  /\ tries' = IF SpareToWrite \in proven THEN 0 ELSE tries
  /\ UNCHANGED <<copy, pc, running, ram, save, online, cuts, faults, fellBack,
                 meddled>>

\* The slot is clear.  A transfer then waits for the payload; FLASH_BENCH is
\* done; OTA_SELFTEST has filled the slot with an image linked for the other
\* one, which the loader turns down like an empty slot.
SpareCleared ==
  /\ writer \in {"erasing", "bench", "selftest"}
  /\ image' = [image EXCEPT ![SpareToWrite] = "blank"]
  /\ writer' = IF writer = "erasing" THEN "writing" ELSE "idle"
  /\ UNCHANGED <<copy, pc, running, ram, save, offer, online, proven, tries,
                 cuts, faults, fellBack, meddled>>

\* A binary frame of a payload that is not complete yet.
PayloadArrives ==
  /\ AppFree
  /\ writer = "writing"
  /\ image[SpareToWrite] = "blank"
  /\ image' = [image EXCEPT ![SpareToWrite] = "torn"]
  /\ UNCHANGED <<copy, pc, running, ram, save, writer, offer, online, proven,
                 tries, cuts, faults, fellBack, meddled>>

\* ota_abandon: too long, a page that did not take, a digest that differs.
TransferFails ==
  /\ AppFree
  /\ writer = "writing"
  /\ writer' = "idle"
  /\ UNCHANGED <<copy, image, pc, running, ram, save, offer, online, proven,
                 tries, cuts, faults, fellBack, meddled>>

\* rw_ota_write_end(): the last page is padded and written, and the digest is
\* that of the offer.
WriteEnds ==
  /\ writer = "writing"
  /\ image[SpareToWrite] = "torn"
  /\ \E build \in Builds : image' = [image EXCEPT ![SpareToWrite] = build]

\* The last frame: the digest agrees and the slot is staged.
TransferCompletes ==
  /\ AppFree
  /\ WriteEnds
  /\ writer' = "idle"
  /\ tries' = 0
  /\ BeginSave("stage", Staged(SpareToWrite))
  /\ UNCHANGED <<copy, pc, running, ram, offer, online, proven, cuts, faults,
                 fellBack, meddled>>

-------------------------------------------------------------------------------
\* The diagnostic commands of the USB console that touch the spare slot.  Only
\* FLASH_BENCH is refused on trial.

ConsoleTyped(command) ==
  /\ AppFree
  /\ image[running] \in {"works", "deaf"}
  /\ command \in Console

FlashBench ==
  /\ ConsoleTyped("FLASH_BENCH")
  /\ writer = "idle"
  /\ ~OnTrial
  /\ writer' = "bench"
  /\ Overwrite(Spare)
  /\ tries' = IF Spare \in proven THEN 0 ELSE tries
  /\ UNCHANGED <<copy, pc, running, ram, save, offer, online, cuts, faults,
                 fellBack, meddled>>

OtaSelftest ==
  /\ ConsoleTyped("OTA_SELFTEST")
  /\ writer = "idle"
  /\ writer' = "selftest"
  /\ Overwrite(Spare)
  /\ tries' = IF Spare \in proven THEN 0 ELSE tries
  /\ meddled' = (meddled \/ OnTrial)
  /\ UNCHANGED <<copy, pc, running, ram, save, offer, online, cuts, faults,
                 fellBack>>

OtaStage ==
  /\ ConsoleTyped("OTA_STAGE")
  /\ tries' = 0
  /\ BeginSave("stage", Staged(Spare))
  /\ meddled' = (meddled \/ OnTrial)
  /\ UNCHANGED <<copy, image, pc, running, ram, writer, offer, online, proven,
                 cuts, faults, fellBack>>

-------------------------------------------------------------------------------

SaveSteps == EraseSector \/ ProgramFirst \/ ProgramSecond

LoaderSteps == LoaderReads \/ EnterSlot

Next ==
  \/ SaveSteps \/ ProgramFails
  \/ LoaderSteps
  \/ PowerCut \/ CrashAndReset \/ AppRestarts \/ RestartIntoStaged
  \/ HelloAck \/ Disconnect
  \/ OtaOffer \/ OtaBegin \/ SpareCleared \/ PayloadArrives
  \/ TransferFails \/ TransferCompletes
  \/ FlashBench \/ OtaSelftest \/ OtaStage

Spec == Init /\ [][Next]_vars

\* The processor keeps running, a crash ends in a reset, and an image that
\* works does reach the relay.  Nothing obliges the power to be cut, a
\* session to end, or anybody to offer an image.
Fairness ==
  /\ WF_vars(SaveSteps)
  /\ WF_vars(LoaderSteps)
  /\ WF_vars(CrashAndReset)
  /\ WF_vars(RestartIntoStaged)
  /\ WF_vars(SpareCleared)
  /\ WF_vars(HelloAck)

FairSpec == Spec /\ Fairness

-------------------------------------------------------------------------------
\* The record in force: what the next load is to find, a save in progress
\* counting once its first sector is programmed.
InForce ==
  IF save = NoSave THEN Loaded ELSE IF save.sector = 1 THEN save.was ELSE save.rec

\* The slots the record in force relies on to come back to.
ReliedOn(r) ==
  IF r = Torn THEN {"A"} ELSE IF r.confirmed THEN {r.active} ELSE {r.fallback}

\* Every slot the next load relies on holds a working image that has reached the
\* relay: the record's active slot once confirmed, its fallback during a trial,
\* slot A without a record (rw_ota_state_on_boot, loader main).
HomeIsProven == \A slot \in ReliedOn(Loaded) : slot \in proven /\ image[slot] = "works"

\* Whenever the loader takes over it has a proven image to come back to,
\* wherever cuts and refusals fell, until the record in force has been lost or
\* somebody has typed OTA_SELFTEST or OTA_STAGE on trial; and no single cut or
\* refusal loses it.  It takes one that leaves the second copy behind and another
\* while the next save has the first one erased
\* (rw_ota_flash_save, rw_ota_flash_load, rw_ota_state_on_boot, cmd_ota_selftest).
LoaderHasProvenImage ==
  pc = "reset" => HomeIsProven \/ (fellBack /\ cuts + faults > 1) \/ meddled

\* As state.h says it, of every trial that fails: the loader goes back to a slot
\* that was working.  The code does not keep it: the sectors are rewritten in a
\* fixed order, whichever of them is current (rw_ota_flash_save).
GoesBackToAWorkingSlot == pc = "reset" => HomeIsProven

\* An image that has not reached the relay is entered at most TrialBoots times,
\* and once more for each write that was refused, which the loader does not look
\* at; a device that has lost its record, or was told to stage on trial, no
\* longer counts (rw_ota_state_on_boot spends a boot before the loader jumps).
TrialBudget == tries <= TrialBoots + faults \/ fellBack \/ meddled

\* The loader always finds something to enter, and the device never ends up
\* waiting for a cable in the ROM's USB drive (loader main).
NeverNeedsCable == pc # "rom"

\* The slot the application runs from is never erased or programmed
\* (rw_ota_write_begin, rw_ota_spare_slot).
RunningSlotUntouched ==
  [][running # "none" /\ running' = running => image'[running] = image[running]]_vars

\* A record once in force stays until the next one in sequence takes its place,
\* whatever the power and the wrap of the counter do, up to the step that loses
\* it; and that step, the second loss at least, leaves what the second copy
\* held.  An application whose save was half refused goes on with the record of
\* before, and its next save may use the same number again.  Nothing is said of a
\* device on which OTA_SELFTEST or OTA_STAGE was typed on trial
\* (rw_ota_flash_save, rw_ota_flash_load, rw_ota_state_pick, rw_ota_stage).
RecordNeverGoesBack ==
  [][InForce # Torn /\ InForce' # InForce /\ ~fellBack /\ ~meddled =>
       IF fellBack' THEN InForce' = copy[2] /\ cuts' + faults' > 1
       ELSE /\ InForce' # Torn
            /\ \/ InForce'.seq = NextSeq(InForce.seq)
               \/ faults > 0 /\ InForce'.seq = InForce.seq]_vars

\* The record without its counter, as the abstract specification has it.
Bare(r) == [active |-> r.active, fallback |-> r.fallback, trial |-> r.trial,
            confirmed |-> r.confirmed]

Promise == INSTANCE OtaTrial WITH reg <- Bare(InForce), void <- fellBack \/ meddled

\* Two sectors, two programs and the power cuts between them keep the promise
\* of one record changed in one step, with a proven image to come back to, until
\* the record is lost or somebody types OTA_SELFTEST or OTA_STAGE on trial
\* (state.c, ota_flash.c, ota.c, loader main).
KeepsPromise == Promise!Spec

\* Every trial ends, if no write is refused: the image confirms itself, or the
\* loader goes back to the fallback, or the record was lost and none is left, or
\* somebody stages again on trial, which starts it anew
\* (state.h, rw_ota_state_on_boot).
TrialEnds ==
  (InForce # Torn /\ ~InForce.confirmed) ~>
    \/ InForce # Torn /\ InForce.confirmed
    \/ InForce = Torn /\ fellBack
    \/ faults > 0
    \/ meddled
===============================================================================
