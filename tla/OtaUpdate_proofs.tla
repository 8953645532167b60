--------------------------- MODULE OtaUpdate_proofs ---------------------------
(***************************************************************************)
(* Proofs about OtaUpdate, for every number of trial boots, power cuts and *)
(* failed writes, and whichever console commands are typed.  What the      *)
(* record promises holds until it has been lost (fellBack), or somebody    *)
(* has typed on trial one of the two commands that are not refused there   *)
(* (meddled).                                                              *)
(***************************************************************************)
EXTENDS OtaUpdate, TLAPS

-------------------------------------------------------------------------------
(* The operators on the state record (OtaState) *)

\* Torn is not a record: it names no slot.
LEMMA TornIsNoRecord == Torn \notin Records
BY DEF Torn, Records, Slots

\* The counter stays within its width.
LEMMA NextSeqType == ASSUME NEW seq \in 0 .. SeqMod - 1
                     PROVE  NextSeq(seq) \in 0 .. SeqMod - 1
BY SeqModAssumption DEF NextSeq

LEMMA OtherSlotType == ASSUME NEW slot \in Slots
                       PROVE  /\ OtherSlot(slot) \in Slots
                              /\ OtherSlot(slot) # slot
                              /\ OtherSlot(OtherSlot(slot)) = slot
BY DEF OtherSlot, Slots

\* The first boot after a stage leaves a record one boot poorer, or the
\* fallback in charge.
LEMMA OnBootType ==
  ASSUME NEW r \in Records, ~r.confirmed
  PROVE  /\ OnBoot(r) \in Records
         /\ r.trial > 0 => /\ OnBoot(r).active = r.active
                           /\ OnBoot(r).fallback = r.fallback
                           /\ OnBoot(r).trial = r.trial - 1
                           /\ ~OnBoot(r).confirmed
         /\ r.trial = 0 => /\ OnBoot(r).active = r.fallback
                           /\ OnBoot(r).fallback = r.fallback
                           /\ OnBoot(r).trial = 0
                           /\ OnBoot(r).confirmed
<1>1. NextSeq(r.seq) \in 0 .. SeqMod - 1
  BY NextSeqType DEF Records
<1>2. r.trial \in 0 .. TrialBoots /\ TrialBoots \in Nat
  BY TrialBootsAssumption DEF Records
<1>3. CASE r.trial > 0
  <2>1. OnBoot(r) = [r EXCEPT !.trial = r.trial - 1, !.seq = NextSeq(r.seq)]
    BY <1>3 DEF OnBoot, SpendBoot
  <2>2. r.trial - 1 \in 0 .. TrialBoots
    BY <1>2, <1>3
  <2>3. OnBoot(r) \in Records
    BY <1>1, <2>1, <2>2 DEF Records
  <2>4. /\ OnBoot(r).active = r.active
        /\ OnBoot(r).fallback = r.fallback
        /\ OnBoot(r).trial = r.trial - 1
    BY <2>1 DEF Records
  <2>5. ~OnBoot(r).confirmed
    BY <2>1 DEF Records
  <2>6. QED
    BY <1>2, <1>3, <2>3, <2>4, <2>5
<1>4. CASE r.trial = 0
  <2>1. OnBoot(r) = [r EXCEPT !.active = r.fallback, !.confirmed = TRUE,
                              !.trial = 0, !.seq = NextSeq(r.seq)]
    BY <1>4 DEF OnBoot, Revert
  <2>2. 0 \in 0 .. TrialBoots
    BY <1>2
  <2>3. OnBoot(r) \in Records
    BY <1>1, <2>1, <2>2 DEF Records
  <2>4. /\ OnBoot(r).active = r.fallback
        /\ OnBoot(r).fallback = r.fallback
        /\ OnBoot(r).trial = 0
    BY <2>1 DEF Records
  <2>5. OnBoot(r).confirmed
    BY <2>1 DEF Records
  <2>6. QED
    BY <1>4, <2>3, <2>4, <2>5
<1>5. QED
  BY <1>2, <1>3, <1>4

\* Of two copies a load returns one of them, the readable one if only one is,
\* and nothing only if neither is.
LEMMA PickType ==
  ASSUME NEW a \in Copies, NEW b \in Copies
  PROVE  /\ Pick(a, b) \in {a, b}
         /\ Pick(a, b) = Torn <=> a = Torn /\ b = Torn
         /\ a # Torn /\ (b # Torn => NotOlder(a, b)) => Pick(a, b) = a
         /\ a = Torn => Pick(a, b) = b
BY DEF Pick

\* Two equal copies are in order.
LEMMA NotOlderReflexive == ASSUME NEW r \in Copies PROVE NotOlder(r, r)
<1>1. r.seq \in Int
  BY SeqModAssumption DEF Copies, Records, Torn
<1>2. r.seq - r.seq = 0
  BY <1>1
<1>3. 0 % SeqMod = 0 /\ 0 < SeqMod \div 2
  BY SeqModAssumption
<1>4. QED
  BY <1>2, <1>3 DEF NotOlder

\* The counter orders two writes across its wrap: a record written d writes
\* after another one counts as the newer, as long as d is less than half of
\* the counter's range.
THEOREM SequenceOrder ==
  ASSUME NEW a \in Records, NEW b \in Records,
         NEW d \in Nat, d < SeqMod \div 2,
         a.seq = (b.seq + d) % SeqMod
  PROVE  NotOlder(a, b)
<1>1. b.seq \in 0 .. SeqMod - 1 /\ SeqMod \in Nat /\ SeqMod > 3
  BY SeqModAssumption DEF Records
<1>2. d < SeqMod
  BY <1>1
<1>3. CASE b.seq + d < SeqMod
  <2>1. (b.seq + d) % SeqMod = b.seq + d
    BY <1>1, <1>3
  <2>2. a.seq - b.seq = d
    BY <1>1, <2>1
  <2>3. d % SeqMod = d
    BY <1>1, <1>2
  <2>4. QED
    BY <2>2, <2>3 DEF NotOlder
<1>4. CASE b.seq + d >= SeqMod
  <2>1. (b.seq + d) % SeqMod = b.seq + d - SeqMod
    BY <1>1, <1>2, <1>4
  <2>2. a.seq - b.seq = d - SeqMod
    BY <1>1, <2>1
  <2>3. (d - SeqMod) % SeqMod = d
    BY <1>1, <1>2
  <2>4. QED
    BY <2>2, <2>3 DEF NotOlder
<1>5. QED
  BY <1>1, <1>3, <1>4


-------------------------------------------------------------------------------
\* The inductive invariant, in four parts beside the types.

\* Who is saving, and what the two sectors hold at each point of a save.
SaveInv ==
  /\ pc = "loader" => save.op = "boot"
  /\ save # NoSave =>
       /\ save.op = "boot" => pc = "loader"
       /\ save.op # "boot" => pc = "app"
       /\ writer \in {"idle", "writing"}
       /\ save.op # "stage" => writer = "idle" /\ ~offer
  /\ save # NoSave /\ save.sector = 1 =>
       /\ ~save.erased => Loaded = save.was
       /\ save.erased => copy[1] = Torn
       /\ save.was = Torn => copy[2] = Torn
  /\ save # NoSave /\ save.sector = 2 =>
       /\ copy[1] = save.rec
       /\ save.erased => copy[2] = Torn

\* The record being saved is one step on from the one in force.
StepInv ==
  /\ save.op = "boot" =>
       /\ save.was # Torn
       /\ ~save.was.confirmed
       /\ save.rec = OnBoot(save.was)
       /\ ram = save.rec
  /\ save.op = "confirm" =>
       /\ save.rec.active = running
       /\ save.rec.fallback = running
       /\ save.rec.trial = 0
       /\ save.rec.confirmed
       /\ running \in proven
       /\ ~ram.confirmed
  /\ save.op = "stage" =>
       /\ save.rec.active = Spare
       /\ save.rec.fallback = running
       /\ save.rec.trial = TrialBoots
       /\ ~save.rec.confirmed
       /\ running \in proven
       /\ ram.confirmed

\* The record in force comes back to a proven image, and proven images work.
HomeInv ==
  /\ ReliedOn(InForce) \subseteq proven
  /\ InForce # Torn /\ ~InForce.confirmed => InForce.fallback = OtherSlot(InForce.active)
  /\ \A slot \in proven : image[slot] = "works"

\* A confirmed application runs from the slot the record comes back to, and
\* only a confirmed one touches the spare slot.
AppInv ==
  /\ pc # "rom"
  /\ pc = "app" => running \in Slots /\ ram # Torn
  /\ pc = "app" /\ ram.confirmed => ReliedOn(InForce) = {running}
  /\ offer \/ writer # "idle" => pc = "restart" \/ (pc = "app" /\ ram.confirmed)
  /\ pc = "restart" => writer \in {"idle", "writing"} /\ save = NoSave
  /\ offer \/ writer \in {"erasing", "writing"} => online
  /\ writer \in {"erasing", "writing"} => ~offer
  /\ writer # "idle" => Spare \notin proven
  /\ pc = "enter" => /\ save = NoSave
                     /\ ram # Torn
                     /\ Loaded = Torn => ram.active = "A"
                     /\ Loaded # Torn /\ Loaded.confirmed => ram.active = Loaded.active

IInv == TypeOK /\ SaveInv /\ StepInv /\ HomeInv /\ AppInv

-------------------------------------------------------------------------------
\* Facts about the state that the steps below share.

LEMMA SavesAreNotNoSave == NoSave \notin Saves /\ NoSave.op = "none" /\ NoSave.sector = 0
BY DEF NoSave, Saves

LEMMA LoadedType ==
  ASSUME copy \in [{1, 2} -> Copies]
  PROVE  /\ Loaded \in Copies
         /\ Loaded \in {copy[1], copy[2]}
         /\ Loaded = Torn <=> copy[1] = Torn /\ copy[2] = Torn
         /\ copy[1] # Torn /\ (copy[2] # Torn => NotOlder(copy[1], copy[2])) => Loaded = copy[1]
         /\ copy[1] = Torn => Loaded = copy[2]
<1>1. copy[1] \in Copies /\ copy[2] \in Copies
  OBVIOUS
<1>2. QED
  BY <1>1, PickType DEF Loaded

\* A confirmation names the running slot, whatever the record said.
LEMMA ConfirmedType ==
  ASSUME ram \in Records, running \in Slots, ~ram.confirmed
  PROVE  /\ Confirmed \in Records
         /\ Confirmed.active = running
         /\ Confirmed.fallback = running
         /\ Confirmed.trial = 0
         /\ Confirmed.confirmed
<1>1. NextSeq(ram.seq) \in 0 .. SeqMod - 1 /\ 0 \in 0 .. TrialBoots
  BY NextSeqType, TrialBootsAssumption DEF Records
<1>2. Confirmed = [[ram EXCEPT !.confirmed = TRUE, !.trial = 0, !.fallback = ram.active,
                               !.seq = NextSeq(ram.seq)]
                     EXCEPT !.active = running, !.fallback = running]
  BY DEF Confirmed, Confirm
<1>3. Confirmed \in Records
  BY <1>1, <1>2 DEF Records
<1>4. Confirmed.active = running /\ Confirmed.fallback = running /\ Confirmed.trial = 0
  BY <1>2 DEF Records
<1>5. Confirmed.confirmed
  BY <1>2 DEF Records
<1>6. QED
  BY <1>3, <1>4, <1>5

\* A staged record puts the spare slot on trial with the running one to come
\* back to.
LEMMA StagedType ==
  ASSUME ram \in Records, running \in Slots
  PROVE  /\ Staged(Spare) \in Records
         /\ Staged(Spare).active = Spare
         /\ Staged(Spare).fallback = running
         /\ Staged(Spare).trial = TrialBoots
         /\ ~Staged(Spare).confirmed
<1>1. NextSeq(ram.seq) \in 0 .. SeqMod - 1 /\ TrialBoots \in 0 .. TrialBoots
  BY NextSeqType, TrialBootsAssumption DEF Records
<1>2. Spare \in Slots /\ Spare # running
  BY OtherSlotType DEF Spare
<1> DEFINE base == [ram EXCEPT !.active = running, !.confirmed = TRUE]
<1>3. base \in Records /\ base.active = running /\ base.seq = ram.seq
  BY DEF Records
<1>4. Staged(Spare) = [base EXCEPT !.fallback = running, !.active = Spare,
                                   !.trial = TrialBoots, !.confirmed = FALSE,
                                   !.seq = NextSeq(ram.seq)]
  BY <1>2, <1>3 DEF Staged, Stage, Records
<1> HIDE DEF base
<1>5. Staged(Spare) \in Records
  BY <1>1, <1>2, <1>3, <1>4 DEF Records
<1>6. /\ Staged(Spare).active = Spare
      /\ Staged(Spare).fallback = running
      /\ Staged(Spare).trial = TrialBoots
  BY <1>3, <1>4 DEF Records
<1>7. ~Staged(Spare).confirmed
  BY <1>3, <1>4 DEF Records
<1>8. QED
  BY <1>5, <1>6, <1>7

\* The record in force is a copy or the record being saved.
LEMMA InForceType ==
  ASSUME TypeOK
  PROVE  /\ InForce \in Copies
         /\ ReliedOn(InForce) \subseteq Slots
         /\ ReliedOn(InForce) # {}
<1>1. Loaded \in Copies
  BY LoadedType DEF TypeOK
<1>2. InForce \in Copies
  BY <1>1 DEF TypeOK, InForce, Saves, Copies
<1>3. QED
  BY <1>2 DEF ReliedOn, Copies, Records, Slots

\* Wherever the power goes or a write fails, the next load finds the record
\* in force, unless the one current copy was erased: the first sector's loss
\* leaves the second one, and the second is written only once the first is.
LEMMA LossKeepsInForce ==
  ASSUME TypeOK, SaveInv, ~OnlyCopyErased, CopiesComparable
  PROVE  Loaded = InForce
<1>1. CASE save = NoSave
  BY <1>1 DEF InForce
<1>2. CASE save # NoSave
  <2>1. save \in Saves /\ copy \in [{1, 2} -> Copies]
    BY <1>2 DEF TypeOK
  <2>2. CASE save.sector = 1 /\ ~save.erased
    BY <1>2, <2>2 DEF SaveInv, InForce
  <2>3. CASE save.sector = 1 /\ save.erased
    <3>1. copy[1] = Torn
      BY <1>2, <2>3 DEF SaveInv
    <3>2. copy[2] = save.was
      BY <1>2, <2>3 DEF SaveInv, OnlyCopyErased, SecondIsCurrent
    <3>3. QED
      BY <1>2, <2>1, <2>3, <3>1, <3>2, LoadedType DEF InForce
  <2>4. CASE save.sector = 2
    <3>1. copy[1] = save.rec /\ save.rec # Torn
      BY <1>2, <2>1, <2>4, TornIsNoRecord DEF SaveInv, Saves
    <3>2. QED
      BY <1>2, <2>1, <2>4, <3>1, LoadedType DEF InForce, CopiesComparable, NotOlder
  <2>5. QED
    BY <2>1, <2>2, <2>3, <2>4 DEF Saves
<1>3. QED
  BY <1>1, <1>2

LEMMA LoadedUnchanged == ASSUME UNCHANGED copy PROVE Loaded' = Loaded
BY DEF Loaded

-------------------------------------------------------------------------------
\* The steps, one lemma for each group of actions.

\* What the steps of the main loop that only move the writer, the offer, the
\* session or the image in the spare slot have to show.
LEMMA QuietStep ==
  ASSUME IInv, UNCHANGED <<copy, save, ram, running, pc>>, TypeOK', HomeInv',
         pc = "app", save = NoSave,
         running \in proven => running \in proven',
         offer' \/ writer' # "idle" => ram.confirmed,
         offer' \/ writer' \in {"erasing", "writing"} => online',
         writer' \in {"erasing", "writing"} => ~offer',
         writer' # "idle" => Spare \notin proven'
  PROVE  IInv'
<1>1. Loaded' = Loaded /\ InForce' = InForce
  BY LoadedUnchanged DEF InForce
<1>2. SaveInv'
  BY <1>1 DEF IInv, SaveInv
<1>3. StepInv'
  BY DEF IInv, StepInv, Spare
<1>4. AppInv'
  BY <1>1 DEF IInv, AppInv, ReliedOn, Spare
<1>5. QED
  BY <1>2, <1>3, <1>4 DEF IInv

\* Every restart and every power cut: the next load is to find the record that
\* was in force.
LEMMA ResetStep ==
  ASSUME IInv, Reset, Loaded = InForce,
         cuts' \in 0 .. MaxCuts, faults' \in 0 .. MaxFaults, fellBack' \in BOOLEAN
  PROVE  IInv'
<1>1. Loaded' = Loaded /\ InForce' = InForce
  BY LoadedUnchanged DEF Reset, InForce
<1>2. TypeOK'
  BY DEF IInv, TypeOK, Reset, Copies
<1>3. SaveInv'
  BY SavesAreNotNoSave DEF IInv, SaveInv, Reset
<1>4. StepInv'
  BY SavesAreNotNoSave DEF StepInv, Reset
<1>5. HomeInv'
  BY <1>1 DEF IInv, HomeInv, Reset, ReliedOn
<1>6. AppInv'
  BY DEF AppInv, Reset
<1>7. QED
  BY <1>2, <1>3, <1>4, <1>5, <1>6 DEF IInv

LEMMA EraseSectorStep == ASSUME IInv, EraseSector PROVE IInv'
<1> USE DEF EraseSector, Erased
<1>1. save \in Saves /\ save' \in Saves /\ save' = [save EXCEPT !.erased = TRUE]
  BY DEF IInv, TypeOK, Saves
<1>2. TypeOK'
  BY <1>1 DEF IInv, TypeOK, Copies
<1>3. /\ save'.op = save.op /\ save'.rec = save.rec /\ save'.was = save.was
      /\ save'.sector = save.sector /\ save'.erased
      /\ save # NoSave /\ save' # NoSave /\ save.sector \in {1, 2}
  BY <1>1, SavesAreNotNoSave DEF Saves
<1>4. InForce' = InForce
  BY <1>3 DEF InForce
<1>5. SaveInv'
  <2>1. CASE save.sector = 1
    <3>1. copy'[1] = Torn /\ copy'[2] = copy[2]
      BY <2>1 DEF IInv, TypeOK
    <3>2. QED
      BY <2>1, <3>1, <1>3 DEF IInv, SaveInv
  <2>2. CASE save.sector = 2
    <3>1. copy'[1] = copy[1] /\ copy'[2] = Torn
      BY <2>2 DEF IInv, TypeOK
    <3>2. QED
      BY <2>2, <3>1, <1>3 DEF IInv, SaveInv
  <2>3. QED
    BY <1>3, <2>1, <2>2
<1>6. StepInv'
  BY <1>3 DEF IInv, StepInv, Spare
<1>7. HomeInv'
  BY <1>4 DEF IInv, HomeInv, ReliedOn
<1>8. AppInv'
  <2>1. pc # "enter"
    BY <1>3 DEF IInv, AppInv
  <2>2. QED
    BY <2>1, <1>4 DEF IInv, AppInv, ReliedOn, Spare
<1>9. QED
  BY <1>2, <1>5, <1>6, <1>7, <1>8 DEF IInv

\* A record that is being saved keeps the promise as soon as it is in force.
LEMMA RecIsSound ==
  ASSUME IInv, save # NoSave, save.sector = 1
  PROVE  /\ save \in Saves
         /\ save.rec \in Records
         /\ ReliedOn(save.rec) \subseteq proven
         /\ ~save.rec.confirmed => save.rec.fallback = OtherSlot(save.rec.active)
         /\ save.op = "stage" => ReliedOn(save.rec) = {running}
         /\ save.op = "confirm" => ReliedOn(save.rec) = {running}
<1>1. save \in Saves /\ save.rec \in Records /\ save.rec # Torn
  BY TornIsNoRecord DEF IInv, TypeOK, Saves
<1>2. CASE save.op = "boot"
  <2>1. save.was \in Records /\ ~save.was.confirmed /\ InForce = save.was
    BY <1>1, <1>2 DEF IInv, StepInv, InForce, Saves, Copies
  <2>2. save.was.fallback \in proven /\ save.was.fallback = OtherSlot(save.was.active)
    BY <2>1, TornIsNoRecord DEF IInv, HomeInv, ReliedOn
  <2>3. save.rec = OnBoot(save.was)
    BY <1>2 DEF IInv, StepInv
  <2>4. save.was.trial > 0 \/ save.was.trial = 0
    BY <2>1, TrialBootsAssumption DEF Records
  <2>5. QED
    BY <1>1, <1>2, <2>1, <2>2, <2>3, <2>4, OnBootType DEF ReliedOn
<1>3. CASE save.op = "confirm"
  BY <1>1, <1>3 DEF IInv, StepInv, ReliedOn
<1>4. CASE save.op = "stage"
  <2>1. pc = "app" /\ running \in Slots
    BY <1>4, SavesAreNotNoSave DEF IInv, SaveInv, AppInv
  <2>2. save.rec.active = Spare /\ save.rec.fallback = running /\ running \in proven
    BY <1>4 DEF IInv, StepInv
  <2>3. ~save.rec.confirmed
    BY <1>4 DEF IInv, StepInv
  <2>4. QED
    BY <1>1, <1>4, <2>1, <2>2, <2>3, OtherSlotType DEF ReliedOn, Spare
<1>5. QED
  BY <1>1, <1>2, <1>3, <1>4 DEF Saves

LEMMA ProgramFirstStep == ASSUME IInv, ProgramFirst PROVE IInv'
<1> USE DEF ProgramFirst
<1>1. save \in Saves /\ save' = [save EXCEPT !.sector = 2, !.erased = FALSE]
  BY DEF IInv, TypeOK
<1>2. save' \in Saves
  BY <1>1 DEF Saves
<1>3. /\ save'.op = save.op /\ save'.rec = save.rec /\ save'.was = save.was
      /\ save'.sector = 2 /\ ~save'.erased
  BY <1>1 DEF Saves
<1>4. save' # NoSave /\ save # NoSave /\ save.sector = 1 /\ save.rec \in Records
  BY <1>1, <1>3, SavesAreNotNoSave DEF Saves
<1>5. InForce' = save.rec
  BY <1>3, <1>4 DEF InForce
<1>6. TypeOK'
  BY <1>2, <1>4 DEF IInv, TypeOK, Copies
<1>7. SaveInv'
  <2>1. copy'[1] = save.rec
    BY DEF IInv, TypeOK
  <2>2. QED
    BY <2>1, <1>3, <1>4 DEF IInv, SaveInv
<1>8. StepInv'
  BY <1>3 DEF IInv, StepInv, Spare
<1>9. HomeInv'
  BY <1>4, <1>5, RecIsSound DEF IInv, HomeInv, ReliedOn
<1>10. AppInv'
  <2>1. pc # "enter"
    BY <1>4 DEF IInv, AppInv
  <2>2. pc = "app" /\ ram.confirmed => save.op = "stage"
    BY <1>1, <1>4 DEF IInv, SaveInv, StepInv, Saves
  <2>3. pc' = "app" /\ ram'.confirmed => ReliedOn(InForce') = {running'}
    BY <2>2, <1>4, <1>5, RecIsSound DEF ReliedOn
  <2>4. QED
    BY <2>1, <2>3 DEF IInv, AppInv, Spare
<1>11. QED
  BY <1>6, <1>7, <1>8, <1>9, <1>10 DEF IInv

LEMMA ProgramSecondStep == ASSUME IInv, ProgramSecond PROVE IInv'
<1> USE DEF ProgramSecond, SaveReturns
<1>1. save \in Saves /\ save # NoSave /\ save.sector = 2 /\ save.rec \in Records /\ save.rec # Torn
  BY TornIsNoRecord DEF IInv, TypeOK, Saves
<1>2. copy \in [{1, 2} -> Copies] /\ copy'[1] = save.rec /\ copy'[2] = save.rec
  BY <1>1 DEF IInv, TypeOK, SaveInv
<1>3. copy' \in [{1, 2} -> Copies]
  BY <1>1 DEF IInv, TypeOK, Copies
<1>4. Loaded' = save.rec
  BY <1>2 DEF Loaded, Pick
<1>5. InForce = save.rec /\ InForce' = save.rec
  BY <1>1, <1>4 DEF InForce
<1>6. save' = NoSave /\ ram' = save.rec
  OBVIOUS
<1>7. TypeOK'
  BY <1>1, <1>3, <1>6 DEF IInv, TypeOK, Copies
<1>8. pc' # "loader"
  BY <1>1 DEF IInv, SaveInv, Saves
<1>9. SaveInv' /\ StepInv'
  BY <1>6, <1>8, SavesAreNotNoSave DEF SaveInv, StepInv
<1>10. HomeInv'
  BY <1>5 DEF IInv, HomeInv, ReliedOn
<1>11. AppInv'
  <2>1. CASE save.op = "boot"
    BY <2>1, <1>1, <1>4, <1>6 DEF IInv, SaveInv, AppInv
  <2>2. CASE save.op = "stage"
    <3>1. pc = "app" /\ pc' = "restart" /\ Spare' = Spare
      BY <2>2, <1>1 DEF IInv, SaveInv, Spare
    <3>2. QED
      BY <2>2, <3>1, <1>1, <1>6 DEF IInv, SaveInv, AppInv
  <2>3. CASE save.op = "confirm"
    <3>1. pc = "app" /\ pc' = "app" /\ ~ram.confirmed
      BY <2>3, <1>1 DEF IInv, SaveInv, StepInv
    <3>2. save.rec.confirmed /\ save.rec.active = running
      BY <2>3 DEF IInv, StepInv
    <3>3. ReliedOn(InForce)' = {running'}
      BY <3>2, <1>1, <1>5 DEF ReliedOn
    <3>4. QED
      BY <3>1, <3>3, <1>1, <1>6 DEF IInv, SaveInv, AppInv, Spare
  <2>4. QED
    BY <1>1, <2>1, <2>2, <2>3 DEF Saves
<1>12. QED
  BY <1>7, <1>9, <1>10, <1>11 DEF IInv

LEMMA ProgramFailsStep == ASSUME IInv, ProgramFails, ~fellBack' PROVE IInv'
<1> USE DEF ProgramFails, SaveReturns
<1>1. save \in Saves /\ save # NoSave /\ save.rec \in Records /\ save.rec # Torn
  BY TornIsNoRecord DEF IInv, TypeOK, Saves
<1>2. copy[1] = Torn \/ copy[2] = Torn
  BY <1>1 DEF IInv, SaveInv, Saves
<1>3. ~OnlyCopyErased /\ CopiesComparable /\ fellBack' \in BOOLEAN
  BY <1>2 DEF SaveIsCutShort, CopiesComparable
<1>13. Loaded = InForce
  BY <1>3, LossKeepsInForce DEF IInv
<1>4. Loaded' = InForce /\ InForce' = InForce
  BY <1>13, LoadedUnchanged DEF InForce
<1>5. save' = NoSave
  OBVIOUS
<1>6. faults' \in 0 .. MaxFaults
  BY MaxAssumption DEF IInv, TypeOK
<1>7. TypeOK'
  BY <1>1, <1>3, <1>5, <1>6 DEF IInv, TypeOK, Copies
<1>8. pc' # "loader"
  BY <1>1 DEF IInv, SaveInv, Saves
<1>9. SaveInv' /\ StepInv'
  BY <1>5, <1>8, SavesAreNotNoSave DEF SaveInv, StepInv
<1>10. HomeInv'
  BY <1>4 DEF IInv, HomeInv, ReliedOn
<1>11. AppInv'
  <2>1. CASE save.op = "boot"
    <3>1. ram' = save.rec /\ pc' = "enter" /\ ram = save.rec /\ save.was # Torn /\ ~save.was.confirmed
      BY <2>1 DEF IInv, StepInv
    <3>2. InForce = save.was \/ InForce = save.rec
      BY <1>1 DEF InForce
    <3>3. pc = "loader"
      BY <1>1, <2>1 DEF IInv, SaveInv
    <3>4. QED
      BY <3>1, <3>2, <3>3, <1>1, <1>4, <1>5 DEF IInv, AppInv
  <2>2. CASE save.op # "boot"
    <3>1. pc = "app" /\ pc' = pc /\ ram' = ram
      BY <1>1, <2>2 DEF IInv, SaveInv
    <3>2. QED
      BY <3>1, <1>4 DEF IInv, AppInv, ReliedOn, Spare
  <2>3. QED
    BY <2>1, <2>2
<1>12. QED
  BY <1>7, <1>9, <1>10, <1>11 DEF IInv

LEMMA LoaderReadsStep == ASSUME IInv, LoaderReads PROVE IInv'
<1> USE DEF LoaderReads
<1>1. save = NoSave /\ writer = "idle" /\ ~offer
  BY SavesAreNotNoSave DEF IInv, SaveInv, AppInv
<1>2. Loaded' = Loaded /\ InForce = Loaded /\ Loaded \in Copies
  BY <1>1, LoadedUnchanged, LoadedType DEF InForce, IInv, TypeOK
<1>3. CASE Loaded = Torn
  <2>1. ram' = Default("A") /\ pc' = "enter" /\ save' = save
    BY <1>3
  <2>2. Default("A") \in Records /\ Default("A").active = "A"
    BY SeqModAssumption, TrialBootsAssumption DEF Default, Records, Slots
  <2>3. TypeOK'
    BY <2>1, <2>2 DEF IInv, TypeOK, Copies
  <2>4. InForce' = InForce
    BY <1>1, <1>2, <2>1 DEF InForce
  <2>5. SaveInv' /\ StepInv'
    BY <2>1, <1>1, SavesAreNotNoSave DEF SaveInv, StepInv
  <2>6. HomeInv'
    BY <2>4 DEF IInv, HomeInv, ReliedOn
  <2>7. AppInv'
    BY <2>1, <2>2, <1>1, <1>2, <1>3, TornIsNoRecord DEF AppInv
  <2>8. QED
    BY <2>3, <2>5, <2>6, <2>7 DEF IInv
<1>4. CASE Loaded # Torn /\ Loaded.confirmed
  <2>1. ram' = Loaded /\ pc' = "enter" /\ save' = save
    BY <1>4
  <2>2. TypeOK'
    BY <2>1, <1>2 DEF IInv, TypeOK
  <2>3. InForce' = InForce
    BY <1>1, <1>2, <2>1 DEF InForce
  <2>4. SaveInv' /\ StepInv'
    BY <2>1, <1>1, SavesAreNotNoSave DEF SaveInv, StepInv
  <2>5. HomeInv'
    BY <2>3 DEF IInv, HomeInv, ReliedOn
  <2>6. AppInv'
    BY <2>1, <1>1, <1>2, <1>4 DEF AppInv
  <2>7. QED
    BY <2>2, <2>4, <2>5, <2>6 DEF IInv
<1>5. CASE Loaded # Torn /\ ~Loaded.confirmed
  <2>1. /\ ram' = OnBoot(Loaded) /\ pc' = "loader"
        /\ save' = [op |-> "boot", rec |-> OnBoot(Loaded), was |-> Loaded,
                    sector |-> 1, erased |-> FALSE]
    BY <1>5 DEF BeginSave
  <2>2. Loaded \in Records /\ OnBoot(Loaded) \in Records
    BY <1>2, <1>5, OnBootType DEF Copies
  <2>3. /\ save' \in Saves /\ save' # NoSave /\ save'.op = "boot" /\ save'.sector = 1
        /\ ~save'.erased /\ save'.was = Loaded /\ save'.rec = OnBoot(Loaded)
    BY <2>1, <2>2, SavesAreNotNoSave DEF Saves, Copies
  <2>4. TypeOK'
    BY <2>1, <2>2, <2>3 DEF IInv, TypeOK, Copies
  <2>5. InForce' = InForce
    BY <1>2, <2>3 DEF InForce
  <2>6. SaveInv'
    BY <2>1, <2>3, <1>1, <1>2, <1>5 DEF SaveInv
  <2>7. StepInv'
    BY <2>1, <2>3, <1>5 DEF StepInv
  <2>8. HomeInv'
    BY <2>5 DEF IInv, HomeInv, ReliedOn
  <2>9. AppInv'
    BY <2>1, <1>1 DEF AppInv
  <2>10. QED
    BY <2>4, <2>6, <2>7, <2>8, <2>9 DEF IInv
<1>6. QED
  BY <1>3, <1>4, <1>5

LEMMA EnterSlotStep == ASSUME IInv, EnterSlot PROVE IInv'
<1>1. /\ pc = "enter" /\ save = NoSave /\ save' = save /\ writer = "idle" /\ ~offer
      /\ UNCHANGED <<copy, image, writer, offer, online, proven>>
  BY DEF EnterSlot, IInv, AppInv
<1>2. Loaded' = Loaded /\ InForce = Loaded /\ InForce' = Loaded /\ Loaded \in Copies
  BY <1>1, LoadedUnchanged, LoadedType DEF InForce, IInv, TypeOK
<1>3. ram \in Records
  BY <1>1 DEF IInv, TypeOK, AppInv, Copies
<1> DEFINE slot == IF Bootable(ram.active) THEN ram.active ELSE OtherSlot(ram.active)
<1>4. slot \in Slots /\ (slot = ram.active \/ slot = OtherSlot(ram.active))
  BY <1>3, OtherSlotType DEF Records
<1>5. Bootable(slot) /\ \A s \in proven : Bootable(s)
  <2>1. \A s \in proven : Bootable(s)
    BY DEF IInv, HomeInv, Bootable
  <2>2. PICK s \in Slots : s \in proven
    BY InForceType DEF IInv, HomeInv
  <2>3. s = ram.active \/ s = OtherSlot(ram.active)
    BY <1>3 DEF OtherSlot, Slots, Records
  <2>4. QED
    BY <2>1, <2>2, <2>3
<1>6. /\ pc' = "app" /\ running' = slot
      /\ ram' = IF Loaded = Torn THEN Default(slot) ELSE Loaded
      /\ tries' = IF slot \in proven \/ tries > TrialBoots + MaxFaults THEN tries ELSE tries + 1
      /\ UNCHANGED <<cuts, faults, fellBack, meddled>>
  BY <1>5 DEF EnterSlot
<1>7. Default(slot) \in Records /\ Default(slot).confirmed /\ Default(slot).active = slot
  BY <1>4, SeqModAssumption, TrialBootsAssumption DEF Default, Records
<1>8. ram' \in Records
  BY <1>2, <1>6, <1>7 DEF Copies
<1>9. tries' \in 0 .. TrialBoots + MaxFaults + 1
  BY <1>6, TrialBootsAssumption, MaxAssumption DEF IInv, TypeOK
<1> HIDE DEF slot
<1>10. TypeOK'
  BY <1>1, <1>4, <1>6, <1>8, <1>9 DEF IInv, TypeOK, Copies
<1>11. SaveInv' /\ StepInv'
  BY <1>1, <1>6, SavesAreNotNoSave DEF SaveInv, StepInv
<1>12. HomeInv'
  BY <1>1, <1>2 DEF IInv, HomeInv, ReliedOn
<1>13. ram'.confirmed => ReliedOn(InForce) = {slot}
  <2>1. CASE Loaded = Torn
    <3>1. ram.active = "A" /\ "A" \in proven
      BY <2>1, <1>1, <1>2 DEF IInv, AppInv, HomeInv, ReliedOn
    <3>2. slot = "A"
      BY <3>1, <1>5 DEF slot
    <3>3. QED
      BY <3>2, <2>1, <1>2 DEF ReliedOn
  <2>2. CASE Loaded # Torn /\ Loaded.confirmed
    <3>1. ram.active = Loaded.active /\ Loaded.active \in proven
      BY <2>2, <1>1, <1>2 DEF IInv, AppInv, HomeInv, ReliedOn
    <3>2. slot = Loaded.active
      BY <3>1, <1>5 DEF slot
    <3>3. QED
      BY <3>2, <2>2, <1>2 DEF ReliedOn
  <2>3. QED
    BY <2>1, <2>2, <1>6
<1>14. AppInv'
  <2>1. ReliedOn(InForce)' = ReliedOn(InForce)
    BY <1>2 DEF ReliedOn
  <2>2. QED
    BY <2>1, <1>1, <1>4, <1>6, <1>8, <1>13, TornIsNoRecord DEF AppInv
<1>15. QED
  BY <1>10, <1>11, <1>12, <1>14 DEF IInv

LEMMA PowerCutStep == ASSUME IInv, PowerCut, ~fellBack' PROVE IInv'
<1>1. Loaded = InForce
  BY LossKeepsInForce DEF PowerCut, SaveIsCutShort, IInv
<1>2. cuts' \in 0 .. MaxCuts /\ faults' \in 0 .. MaxFaults /\ fellBack' \in BOOLEAN
  BY MaxAssumption DEF PowerCut, SaveIsCutShort, IInv, TypeOK
<1>3. QED
  BY <1>1, <1>2, ResetStep DEF PowerCut

LEMMA RestartStep ==
  ASSUME IInv, CrashAndReset \/ AppRestarts \/ RestartIntoStaged
  PROVE  IInv'
<1>1. save = NoSave
  BY DEF CrashAndReset, AppRestarts, RestartIntoStaged, AppFree, IInv, SaveInv
<1>2. Loaded = InForce /\ Reset /\ cuts' = cuts /\ faults' = faults /\ fellBack' = fellBack
  BY <1>1 DEF CrashAndReset, AppRestarts, RestartIntoStaged, InForce
<1>3. QED
  BY <1>2, ResetStep DEF IInv, TypeOK

\* What a free main loop may rely on.
LEMMA FreeApp ==
  ASSUME IInv, AppFree
  PROVE  /\ pc = "app" /\ save = NoSave
         /\ running \in Slots /\ Spare \in Slots /\ Spare # running
         /\ ram \in Records
         /\ Loaded = InForce
         /\ ram.confirmed => ReliedOn(InForce) = {running} /\ running \in proven
<1>1. pc = "app" /\ save = NoSave /\ running \in Slots /\ ram \in Records
  BY DEF IInv, TypeOK, AppFree, AppInv, Copies
<1>2. Spare \in Slots /\ Spare # running
  BY <1>1, OtherSlotType DEF Spare
<1>3. Loaded = InForce
  BY <1>1 DEF InForce
<1>4. ram.confirmed => ReliedOn(InForce) = {running} /\ running \in proven
  BY <1>1 DEF IInv, AppInv, HomeInv
<1>5. QED
  BY <1>1, <1>2, <1>3, <1>4

\* What a save begun by a free main loop has to show.
LEMMA BeginSaveStep ==
  ASSUME IInv, AppFree, TypeOK', StepInv', HomeInv',
         NEW op \in {"confirm", "stage"}, NEW rec, BeginSave(op, rec),
         UNCHANGED <<copy, pc, running, ram>>,
         \/ writer' = "idle" /\ ~offer'
         \/ op = "stage" /\ UNCHANGED <<writer, offer, online, proven>>
  PROVE  IInv'
<1>1. /\ save'.op = op /\ save'.rec = rec /\ save'.was = Loaded
      /\ save'.sector = 1 /\ ~save'.erased
  BY DEF BeginSave
<1>2. save' # NoSave
  BY <1>1, SavesAreNotNoSave
<1>3. Loaded' = Loaded /\ InForce' = InForce
  BY <1>1, <1>2, FreeApp, LoadedUnchanged DEF InForce
<1>4. Loaded = Torn => copy[2] = Torn
  BY LoadedType DEF IInv, TypeOK
<1>5. SaveInv'
  BY <1>1, <1>2, <1>3, <1>4, FreeApp DEF SaveInv, AppFree
<1>6. AppInv'
  <2>1. pc = "app" /\ Spare' = Spare /\ ReliedOn(InForce)' = ReliedOn(InForce)
    BY <1>3, FreeApp DEF Spare, ReliedOn
  <2>2. QED
    BY <2>1, FreeApp DEF IInv, AppInv
<1>7. QED
  BY <1>5, <1>6 DEF IInv

\* A save of a record adds nothing to the types but the record.
LEMMA BeginSaveType ==
  ASSUME TypeOK, NEW op \in {"boot", "confirm", "stage"}, NEW rec \in Records,
         BeginSave(op, rec)
  PROVE  save' \in Saves
<1>1. Loaded \in Copies
  BY LoadedType DEF TypeOK
<1>2. QED
  BY <1>1 DEF BeginSave, Saves

LEMMA HelloAckStep == ASSUME IInv, HelloAck PROVE IInv'
<1> USE DEF HelloAck
<1>1. /\ pc = "app" /\ save = NoSave /\ running \in Slots /\ ram \in Records
      /\ Spare # running
  BY FreeApp
<1>2. proven' = proven \cup {running} /\ running \in proven' /\ proven' \subseteq Slots
  BY <1>1 DEF IInv, TypeOK
<1>3. ReliedOn(InForce) \subseteq proven' /\ \A slot \in proven' : image'[slot] = "works"
  BY <1>2 DEF IInv, HomeInv
<1>4. CASE ~ram.confirmed
  <2>1. BeginSave("confirm", Confirmed)
    BY <1>4 DEF OnTrial
  <2>2. /\ Confirmed \in Records /\ Confirmed.active = running
        /\ Confirmed.fallback = running /\ Confirmed.trial = 0 /\ Confirmed.confirmed
    BY <1>1, <1>4, ConfirmedType
  <2>3. save' \in Saves /\ save'.op = "confirm" /\ save'.rec = Confirmed
    BY <2>1, <2>2, BeginSaveType DEF BeginSave, IInv
  <2>4. TypeOK'
    BY <1>2, <2>3, TrialBootsAssumption, MaxAssumption DEF IInv, TypeOK
  <2>5. writer = "idle" /\ ~offer
    BY <1>4 DEF IInv, AppInv
  <2>6. StepInv'
    BY <1>2, <1>4, <2>2, <2>3 DEF StepInv
  <2>7. InForce' = InForce
    BY <1>1, <2>1, LoadedUnchanged, SavesAreNotNoSave DEF InForce, BeginSave
  <2>8. HomeInv'
    BY <1>3, <2>7 DEF IInv, HomeInv, ReliedOn
  <2>9. QED
    BY <2>1, <2>4, <2>5, <2>6, <2>8, BeginSaveStep
<1>5. CASE ram.confirmed
  <2>1. save' = save
    BY <1>5 DEF OnTrial
  <2>2. TypeOK'
    BY <1>2, <2>1, TrialBootsAssumption, MaxAssumption DEF IInv, TypeOK
  <2>3. InForce' = InForce
    BY <2>1, LoadedUnchanged DEF InForce
  <2>4. HomeInv'
    BY <1>3, <2>3 DEF IInv, HomeInv, ReliedOn
  <2>5. writer' # "idle" => Spare \notin proven'
    BY <1>1, <1>2 DEF IInv, AppInv
  <2>6. QED
    BY <1>1, <1>2, <1>5, <2>1, <2>2, <2>4, <2>5, QuietStep DEF IInv, AppInv, Spare
<1>6. QED
  BY <1>4, <1>5

\* The session ends, an offer is queued, a transfer is given up.
LEMMA SessionStep ==
  ASSUME IInv, Disconnect \/ OtaOffer \/ TransferFails
  PROVE  IInv'
<1> USE DEF Disconnect, OtaOffer, TransferFails
<1>2. AppFree /\ UNCHANGED <<copy, image, save, pc, running, ram, proven, tries, cuts, faults, fellBack>>
  OBVIOUS
<1>3. pc = "app" /\ save = NoSave
  BY <1>2, FreeApp
<1>4. TypeOK'
  BY <1>2 DEF IInv, TypeOK
<1>5. InForce' = InForce
  BY <1>2, LoadedUnchanged DEF InForce
<1>6. HomeInv'
  BY <1>2, <1>5 DEF IInv, HomeInv, ReliedOn
<1>7. /\ offer' \/ writer' # "idle" => ram.confirmed
      /\ offer' \/ writer' \in {"erasing", "writing"} => online'
      /\ writer' \in {"erasing", "writing"} => ~offer'
      /\ writer' # "idle" => Spare \notin proven'
  BY <1>2, <1>3 DEF IInv, AppInv, AppFree, OfferRefused, OnTrial
<1>8. QED
  BY <1>2, <1>3, <1>4, <1>6, <1>7, QuietStep DEF Spare

\* A slot other than the running one may be overwritten once the record has
\* settled on the running one.
LEMMA SpareIsNotReliedOn ==
  ASSUME IInv, pc = "app", ram.confirmed, UNCHANGED <<copy, save>>,
         proven' \subseteq proven, proven \subseteq proven' \cup {Spare},
         image' \in [Slots -> Contents],
         \A slot \in Slots : slot # Spare => image'[slot] = image[slot],
         Spare \notin proven'
  PROVE  HomeInv'
<1>1. InForce' = InForce /\ ReliedOn(InForce) = {running} /\ Spare # running
  BY LoadedUnchanged, OtherSlotType DEF InForce, IInv, AppInv, Spare
<1>2. ReliedOn(InForce)' = {running} /\ running \in proven'
  BY <1>1 DEF IInv, HomeInv, ReliedOn
<1>3. \A slot \in proven' : image'[slot] = "works"
  BY DEF IInv, HomeInv, TypeOK
<1>4. QED
  BY <1>1, <1>2, <1>3 DEF IInv, HomeInv

LEMMA SpareOverwrittenStep ==
  ASSUME IInv, OtaBegin \/ FlashBench \/ (OtaSelftest /\ ~OnTrial)
  PROVE  IInv'
<1> USE DEF OtaBegin, FlashBench, OtaSelftest, ConsoleTyped, SpareToWrite
<1>1. /\ AppFree /\ Overwrite(Spare) /\ tries' \in {0, tries}
      /\ UNCHANGED <<copy, pc, running, ram, save, online, cuts, faults, fellBack>>
      /\ meddled' = meddled
  BY DEF IInv, TypeOK
<1>2. /\ pc = "app" /\ save = NoSave /\ running \in Slots /\ Spare \in Slots
      /\ Spare # running
  BY <1>1, FreeApp
<1>3. ram.confirmed
  BY <1>2 DEF IInv, AppInv, OnTrial
<1>4. /\ image' = [image EXCEPT ![Spare] = "torn"] /\ proven' = proven \ {Spare}
  BY <1>1 DEF Overwrite
<1>5. /\ image' \in [Slots -> Contents]
      /\ \A slot \in Slots : slot # Spare => image'[slot] = image[slot]
  BY <1>2, <1>4 DEF IInv, TypeOK, Contents, Behaviours
<1>6. tries' \in 0 .. TrialBoots + MaxFaults + 1
  BY <1>1, TrialBootsAssumption, MaxAssumption DEF IInv, TypeOK
<1>7. TypeOK'
  BY <1>1, <1>4, <1>5, <1>6 DEF IInv, TypeOK
<1>8. HomeInv'
  BY <1>1, <1>2, <1>3, <1>4, <1>5, SpareIsNotReliedOn
<1>9. /\ running \in proven => running \in proven'
      /\ Spare' = Spare /\ Spare \notin proven'
  BY <1>1, <1>2, <1>4 DEF Spare
<1>10. /\ writer' \in {"erasing", "bench", "selftest"}
       /\ writer' = "erasing" => ~offer' /\ online
       /\ offer' => online
  BY DEF IInv, AppInv
<1>11. QED
  BY <1>1, <1>2, <1>3, <1>7, <1>8, <1>9, <1>10, QuietStep

LEMMA SpareFilledStep ==
  ASSUME IInv, SpareCleared \/ PayloadArrives
  PROVE  IInv'
<1> USE DEF SpareCleared, PayloadArrives, SpareToWrite
<1>1. /\ pc = "app" /\ save = NoSave /\ ram.confirmed /\ running \in Slots /\ Spare \in Slots
      /\ Spare # running /\ Spare \notin proven
  BY OtherSlotType DEF IInv, AppInv, SaveInv, AppFree, Spare
<1>2. PICK content \in {"blank", "torn"} : image' = [image EXCEPT ![Spare] = content]
  OBVIOUS
<1>3. /\ image' \in [Slots -> Contents]
      /\ \A slot \in Slots : slot # Spare => image'[slot] = image[slot]
  BY <1>1, <1>2 DEF IInv, TypeOK, Contents, Behaviours
<1>4. /\ UNCHANGED <<copy, pc, running, ram, save, offer, online, proven, tries, cuts, faults, fellBack>>
      /\ Spare' = Spare
  BY DEF Spare
<1>5. writer' \in {"idle", "writing"} /\ (writer' = "writing" => writer \in {"erasing", "writing"})
  BY <1>1 DEF IInv, TypeOK
<1>6. TypeOK'
  BY <1>3, <1>4, <1>5 DEF IInv, TypeOK
<1>7. HomeInv'
  BY <1>1, <1>3, <1>4, SpareIsNotReliedOn
<1>8. /\ offer' \/ writer' \in {"erasing", "writing"} => online'
      /\ writer' \in {"erasing", "writing"} => ~offer'
  BY <1>4, <1>5 DEF IInv, SaveInv, AppInv
<1>9. QED
  BY <1>1, <1>4, <1>5, <1>6, <1>7, <1>8, QuietStep

LEMMA TransferCompletesStep == ASSUME IInv, TransferCompletes PROVE IInv'
<1> USE DEF TransferCompletes, WriteEnds, SpareToWrite
<1>1. /\ pc = "app" /\ save = NoSave /\ running \in Slots /\ Spare \in Slots
      /\ Spare # running /\ ram \in Records
  BY FreeApp
<1>2. ram.confirmed /\ Spare \notin proven /\ ~offer /\ running \in proven
  BY FreeApp DEF IInv, AppInv
<1>3. PICK build \in Builds : image' = [image EXCEPT ![Spare] = build]
  OBVIOUS
<1>4. /\ image' \in [Slots -> Contents]
      /\ \A slot \in Slots : slot # Spare => image'[slot] = image[slot]
  BY <1>1, <1>3, BuildsAssumption DEF IInv, TypeOK, Contents
<1>5. /\ Staged(Spare) \in Records /\ Staged(Spare).active = Spare
      /\ Staged(Spare).fallback = running /\ Staged(Spare).trial = TrialBoots
      /\ ~Staged(Spare).confirmed
  BY <1>1, StagedType
<1>6. BeginSave("stage", Staged(Spare))
  OBVIOUS
<1> HIDE DEF TransferCompletes, WriteEnds
<1>7. save' \in Saves /\ save'.op = "stage" /\ save'.rec = Staged(Spare)
  BY <1>5, <1>6, BeginSaveType DEF BeginSave, IInv
<1> USE DEF TransferCompletes, WriteEnds
<1>8. TypeOK'
  BY <1>4, <1>7, TrialBootsAssumption, MaxAssumption DEF IInv, TypeOK
<1>9. StepInv'
  BY <1>2, <1>5, <1>7 DEF StepInv, Spare
<1>10. InForce' = InForce
  BY <1>1, <1>6, LoadedUnchanged, SavesAreNotNoSave DEF InForce, BeginSave
<1>11. HomeInv'
  <2>1. \A slot \in proven' : image'[slot] = "works"
    BY <1>2, <1>4 DEF IInv, HomeInv, TypeOK
  <2>2. QED
    BY <2>1, <1>10 DEF IInv, HomeInv, ReliedOn
<1>12. QED
  BY <1>2, <1>6, <1>8, <1>9, <1>11, BeginSaveStep

\* OTA_STAGE on a confirmed image, in the middle of a transfer too.
LEMMA OtaStageStep == ASSUME IInv, OtaStage, ~OnTrial PROVE IInv'
<1> USE DEF OtaStage, ConsoleTyped
<1>1. /\ pc = "app" /\ save = NoSave /\ running \in Slots /\ ram \in Records
  BY FreeApp
<1>2. ram.confirmed /\ running \in proven
  BY FreeApp DEF OnTrial
<1>3. /\ Staged(Spare) \in Records /\ Staged(Spare).active = Spare
      /\ Staged(Spare).fallback = running /\ Staged(Spare).trial = TrialBoots
      /\ ~Staged(Spare).confirmed
  BY <1>1, StagedType
<1>4. BeginSave("stage", Staged(Spare)) /\ AppFree /\ meddled' = meddled
  BY DEF IInv, TypeOK
<1> HIDE DEF OtaStage
<1>5. save' \in Saves /\ save'.op = "stage" /\ save'.rec = Staged(Spare)
  BY <1>3, <1>4, BeginSaveType DEF BeginSave, IInv
<1> USE DEF OtaStage
<1>6. TypeOK'
  BY <1>4, <1>5, TrialBootsAssumption, MaxAssumption DEF IInv, TypeOK
<1>7. StepInv'
  BY <1>2, <1>3, <1>5 DEF StepInv, Spare
<1>8. InForce' = InForce
  BY <1>1, <1>4, LoadedUnchanged, SavesAreNotNoSave DEF InForce, BeginSave
<1>9. HomeInv'
  BY <1>8 DEF IInv, HomeInv, ReliedOn
<1>10. QED
  BY <1>4, <1>6, <1>7, <1>9, BeginSaveStep

-------------------------------------------------------------------------------
\* Of what follows nothing is promised: the record is lost, or somebody typed on
\* trial one of the two console commands that are not refused there.
Void == fellBack \/ meddled

LEMMA InitIInv == Init => IInv
<1> SUFFICES ASSUME Init PROVE IInv
  OBVIOUS
<1> USE DEF Init
<1>1. copy \in [{1, 2} -> Copies] /\ copy[1] = Torn /\ copy[2] = Torn
  BY DEF Copies
<1>2. Loaded = Torn /\ InForce = Torn
  BY <1>1, LoadedType DEF InForce
<1>3. TypeOK
  <2>1. image \in [Slots -> Contents] /\ proven \subseteq Slots
    BY DEF Slots, Contents, Behaviours
  <2>2. tries \in 0 .. TrialBoots + MaxFaults + 1 /\ cuts \in 0 .. MaxCuts /\ faults \in 0 .. MaxFaults
    BY TrialBootsAssumption, MaxAssumption
  <2>3. QED
    BY <1>1, <2>1, <2>2 DEF TypeOK, Copies
<1>4. SaveInv /\ StepInv
  BY SavesAreNotNoSave DEF SaveInv, StepInv
<1>5. HomeInv
  BY <1>2 DEF HomeInv, ReliedOn, Slots
<1>6. AppInv
  BY DEF AppInv
<1>7. QED
  BY <1>3, <1>4, <1>5, <1>6 DEF IInv

LEMMA StutterStep == ASSUME IInv, UNCHANGED vars PROVE IInv'
<1>1. Loaded' = Loaded /\ InForce' = InForce /\ Spare' = Spare
  BY LoadedUnchanged DEF vars, InForce, Spare
<1>2. TypeOK' /\ SaveInv' /\ StepInv'
  BY <1>1 DEF IInv, TypeOK, SaveInv, StepInv, vars
<1>3. HomeInv' /\ AppInv'
  BY <1>1 DEF IInv, HomeInv, AppInv, ReliedOn, vars
<1>4. QED
  BY <1>2, <1>3 DEF IInv

LEMMA NextIInv == ASSUME IInv, [Next]_vars, ~Void' PROVE IInv'
<1>1. CASE SaveSteps
  BY <1>1, EraseSectorStep, ProgramFirstStep, ProgramSecondStep DEF SaveSteps
<1>2. CASE ProgramFails
  BY <1>2, ProgramFailsStep DEF Void
<1>3. CASE LoaderSteps
  BY <1>3, LoaderReadsStep, EnterSlotStep DEF LoaderSteps
<1>4. CASE PowerCut
  BY <1>4, PowerCutStep DEF Void
<1>5. CASE CrashAndReset \/ AppRestarts \/ RestartIntoStaged
  BY <1>5, RestartStep
<1>6. CASE HelloAck
  BY <1>6, HelloAckStep
<1>7. CASE Disconnect \/ OtaOffer \/ TransferFails
  BY <1>7, SessionStep
<1>8. CASE OtaBegin \/ FlashBench \/ OtaSelftest
  BY <1>8, SpareOverwrittenStep DEF Void, OtaSelftest
<1>9. CASE SpareCleared \/ PayloadArrives
  BY <1>9, SpareFilledStep
<1>10. CASE TransferCompletes
  BY <1>10, TransferCompletesStep
<1>11. CASE OtaStage
  BY <1>11, OtaStageStep DEF Void, OtaStage
<1>12. CASE UNCHANGED vars
  BY <1>12, StutterStep
<1>13. QED
  BY <1>1, <1>2, <1>3, <1>4, <1>5, <1>6, <1>7, <1>8, <1>9, <1>10, <1>11, <1>12 DEF Next

\* A lost record stays on record, and only a save cut short loses one.
LEMMA FellBackStays ==
  ASSUME fellBack \in BOOLEAN, [Next]_vars
  PROVE  /\ fellBack' \in BOOLEAN
         /\ fellBack => fellBack'
         /\ ~fellBack /\ fellBack' => OnlyCopyErased /\ (PowerCut \/ ProgramFails)
<1>1. CASE PowerCut \/ ProgramFails
  <2>1. fellBack' = (fellBack \/ OnlyCopyErased)
    BY <1>1 DEF PowerCut, ProgramFails, SaveIsCutShort
  <2>2. QED
    BY <1>1, <2>1
<1>2. CASE ~PowerCut /\ ~ProgramFails
  <2>1. fellBack' = fellBack
    BY <1>2 DEF Next, vars, SaveSteps, EraseSector, ProgramFirst, ProgramSecond,
           LoaderSteps, LoaderReads, EnterSlot, CrashAndReset, AppRestarts, RestartIntoStaged,
           HelloAck, Disconnect, OtaOffer, OtaBegin, SpareCleared, PayloadArrives,
           TransferFails, TransferCompletes, FlashBench, OtaSelftest, OtaStage
  <2>2. QED
    BY <2>1
<1>3. QED
  BY <1>1, <1>2

\* What was typed on trial stays on record too.
LEMMA VoidStays ==
  ASSUME TypeOK, [Next]_vars
  PROVE  /\ meddled' \in BOOLEAN
         /\ meddled => meddled'
         /\ Void => Void'
         /\ ~meddled /\ meddled' => (OtaSelftest \/ OtaStage) /\ fellBack' = fellBack
<1>1. meddled \in BOOLEAN /\ fellBack \in BOOLEAN
  BY DEF TypeOK
<1>2. CASE OtaSelftest \/ OtaStage
  BY <1>1, <1>2, FellBackStays DEF OtaSelftest, OtaStage, Void
<1>3. CASE ~OtaSelftest /\ ~OtaStage
  <2>1. meddled' = meddled
    BY <1>3 DEF Next, vars, SaveSteps, EraseSector, ProgramFirst, ProgramSecond, ProgramFails,
           SaveReturns, LoaderSteps, LoaderReads, EnterSlot, PowerCut, CrashAndReset,
           AppRestarts, RestartIntoStaged, Reset, HelloAck, Disconnect, OtaOffer, OtaBegin,
           SpareCleared, PayloadArrives, TransferFails, TransferCompletes, FlashBench
  <2>2. QED
    BY <1>1, <2>1, FellBackStays DEF Void
<1>4. QED
  BY <1>2, <1>3

-------------------------------------------------------------------------------
\* What holds whoever types what and whatever is lost: who has the processor,
\* who is writing, and that something can be entered.
BasicInv ==
  /\ TypeOK
  /\ \E slot \in Slots : Bootable(slot)
  /\ pc # "rom"
  /\ pc \in {"app", "restart"} => running \in Slots /\ Bootable(running) /\ ram # Torn
  /\ pc = "enter" => ram # Torn /\ save = NoSave
  /\ save # NoSave /\ save.op = "boot" => pc = "loader"
  /\ save # NoSave /\ save.op # "boot" => pc = "app"
  /\ writer # "idle" => pc \in {"app", "restart"}
  /\ writer \in {"erasing", "bench", "selftest"} => pc = "app" /\ save = NoSave

LEMMA BasicInit == Init => BasicInv
<1> SUFFICES ASSUME Init PROVE BasicInv
  OBVIOUS
<1>1. TypeOK
  BY InitIInv DEF IInv
<1>2. "A" \in Slots /\ image["A"] = "works" /\ Bootable("A")
  BY DEF Init, Slots, Bootable
<1>3. QED
  BY <1>1, <1>2 DEF Init, BasicInv

\* The steps of a save, the refused one among them.
LEMMA BasicSave ==
  ASSUME BasicInv, EraseSector \/ ProgramFirst \/ ProgramSecond \/ ProgramFails
  PROVE  BasicInv'
<1>1. /\ save \in Saves /\ save # NoSave /\ UNCHANGED <<image, running, writer>>
      /\ save.rec \in Records /\ save.rec # Torn /\ copy \in [{1, 2} -> Copies]
  BY TornIsNoRecord DEF BasicInv, TypeOK, EraseSector, ProgramFirst, ProgramSecond, ProgramFails, SaveReturns, Saves
<1>2. \A slot \in Slots : Bootable(slot) => Bootable(slot)'
  BY <1>1 DEF Bootable
<1>3. writer \notin {"erasing", "bench", "selftest"}
  BY <1>1 DEF BasicInv
<1>4. CASE EraseSector
  <2>1. save' = [save EXCEPT !.erased = TRUE]
    BY <1>4 DEF EraseSector
  <2>2. save' \in Saves /\ save'.op = save.op
    BY <1>1, <2>1 DEF Saves
  <2>3. copy' \in [{1, 2} -> Copies]
    BY <1>1, <1>4 DEF EraseSector, Erased, Copies
  <2>4. TypeOK'
    BY <1>4, <2>2, <2>3 DEF EraseSector, BasicInv, TypeOK
  <2>5. QED
    BY <1>1, <1>2, <1>3, <1>4, <2>2, <2>4 DEF EraseSector, BasicInv
<1>5. CASE ProgramFirst
  <2>1. save' = [save EXCEPT !.sector = 2, !.erased = FALSE]
    BY <1>5 DEF ProgramFirst
  <2>2. save' \in Saves /\ save'.op = save.op
    BY <1>1, <2>1 DEF Saves
  <2>3. copy' \in [{1, 2} -> Copies]
    BY <1>1, <1>5 DEF ProgramFirst, Copies
  <2>4. TypeOK'
    BY <1>5, <2>2, <2>3 DEF ProgramFirst, BasicInv, TypeOK
  <2>5. QED
    BY <1>1, <1>2, <1>3, <1>5, <2>2, <2>4 DEF ProgramFirst, BasicInv
<1>6. CASE ProgramSecond \/ ProgramFails
  <2>1. /\ save' = NoSave /\ ram' \in {save.rec, ram} /\ (save.op = "boot" => ram' = save.rec)
        /\ UNCHANGED <<image, running, writer, offer, online, proven, tries, cuts, meddled>>
    BY <1>6 DEF ProgramSecond, ProgramFails, SaveReturns
  <2>2. copy' \in [{1, 2} -> Copies]
    BY <1>1, <1>6 DEF ProgramSecond, ProgramFails, Copies
  <2>3. faults' \in 0 .. MaxFaults
    <3>1. faults \in 0 .. MaxFaults
      BY DEF BasicInv, TypeOK
    <3>2. faults' = faults \/ (faults < MaxFaults /\ faults' = faults + 1)
      BY <1>6 DEF ProgramSecond, ProgramFails
    <3>3. QED
      BY <3>1, <3>2, MaxAssumption
  <2>4. fellBack' \in BOOLEAN
    BY <1>6 DEF ProgramSecond, ProgramFails, SaveIsCutShort, BasicInv, TypeOK
  <2>5. /\ save.op = "boot" => pc' = "enter"
        /\ save.op # "boot" => pc = "app" /\ pc' \in {"app", "restart"}
    BY <1>1, <1>6 DEF ProgramSecond, ProgramFails, SaveReturns, BasicInv
  <2>6. TypeOK'
    BY <1>1, <2>1, <2>2, <2>3, <2>4, <2>5 DEF BasicInv, TypeOK, Copies
  <2>7. CASE save.op = "boot"
    <3>1. pc = "loader" /\ writer = "idle"
      BY <1>1, <2>7 DEF BasicInv
    <3>2. QED
      BY <1>1, <1>2, <2>1, <2>5, <2>6, <2>7, <3>1 DEF BasicInv
  <2>8. CASE save.op # "boot"
    <3>1. ram' # Torn
      BY <1>1, <2>1, <2>5, <2>8 DEF BasicInv
    <3>2. QED
      BY <1>1, <1>2, <1>3, <2>1, <2>5, <2>6, <2>8, <3>1 DEF BasicInv
  <2>9. QED
    BY <2>7, <2>8
<1>7. QED
  BY <1>4, <1>5, <1>6

LEMMA BasicLoader == ASSUME BasicInv, LoaderReads \/ EnterSlot PROVE BasicInv'
<1>1. Loaded \in Copies
  BY LoadedType DEF BasicInv, TypeOK
<1>2. \A slot \in Slots : Default(slot) \in Records /\ Default(slot) # Torn
  <2> SUFFICES ASSUME NEW slot \in Slots PROVE Default(slot) \in Records /\ Default(slot) # Torn
    OBVIOUS
  <2>1. 1 \in 0 .. SeqMod - 1 /\ 0 \in 0 .. SeqMod - 1 /\ 0 \in 0 .. TrialBoots
    BY SeqModAssumption, TrialBootsAssumption
  <2>2. Default(slot) \in Records
    BY <2>1 DEF Default, Records
  <2>3. QED
    BY <2>2, TornIsNoRecord
<1>3. image' = image /\ (\A slot \in Slots : Bootable(slot) => Bootable(slot)')
  BY DEF LoaderReads, EnterSlot, Bootable
<1>4. CASE LoaderReads
  <2>1. pc = "reset" /\ writer = "idle" /\ save = NoSave
    <3>1. pc = "reset" /\ writer = "idle" /\ (save # NoSave => save.op # "boot" /\ save.op = "boot")
      BY <1>4 DEF LoaderReads, BasicInv
    <3>2. QED
      BY <3>1
  <2>2. CASE Loaded = Torn \/ Loaded.confirmed
    <3>1. pc' = "enter" /\ ram' \in Records /\ ram' # Torn /\ save' = NoSave
      BY <1>1, <1>2, <1>4, <2>1, <2>2, TornIsNoRecord DEF LoaderReads, Copies, Slots
    <3>2. TypeOK'
      BY <1>4, <3>1 DEF LoaderReads, BasicInv, TypeOK, Copies
    <3>3. QED
      BY <1>3, <1>4, <2>1, <3>1, <3>2 DEF LoaderReads, BasicInv
  <2>3. CASE Loaded # Torn /\ ~Loaded.confirmed
    <3>1. OnBoot(Loaded) \in Records
      BY <1>1, <2>3, OnBootType DEF Copies
    <3>2. pc' = "loader" /\ ram' = OnBoot(Loaded) /\ BeginSave("boot", OnBoot(Loaded))
      BY <1>4, <2>3 DEF LoaderReads
    <3>3. save' \in Saves /\ save'.op = "boot"
      BY <1>1, <3>1, <3>2 DEF BeginSave, Saves
    <3>4. TypeOK'
      BY <1>4, <3>1, <3>2, <3>3 DEF LoaderReads, BasicInv, TypeOK, Copies
    <3>5. QED
      BY <1>3, <1>4, <2>1, <3>2, <3>3, <3>4 DEF LoaderReads, BasicInv
  <2>4. QED
    BY <2>2, <2>3
<1>5. CASE EnterSlot
  <2> DEFINE slot == IF Bootable(ram.active) THEN ram.active ELSE OtherSlot(ram.active)
  <2>1. pc = "enter" /\ ram \in Records /\ save = NoSave /\ writer = "idle"
    BY <1>5 DEF EnterSlot, BasicInv, TypeOK, Copies
  <2>2. ram.active \in Slots /\ slot \in Slots /\ Bootable(slot)
    BY <2>1 DEF Records, BasicInv, OtherSlot, Slots
  <2>3. /\ pc' = "app" /\ running' = slot
        /\ ram' = IF Loaded = Torn THEN Default(slot) ELSE Loaded
        /\ tries' = IF slot \in proven \/ tries > TrialBoots + MaxFaults THEN tries ELSE tries + 1
        /\ UNCHANGED <<copy, image, save, writer, offer, online, proven, cuts, faults, fellBack,
                       meddled>>
    BY <1>5, <2>2 DEF EnterSlot
  <2>4. ram' \in Copies /\ ram' # Torn
    BY <1>1, <1>2, <2>2, <2>3 DEF Copies
  <2>5. tries' \in 0 .. TrialBoots + MaxFaults + 1
    BY <2>3, TrialBootsAssumption, MaxAssumption DEF BasicInv, TypeOK
  <2> HIDE DEF slot
  <2>6. TypeOK'
    BY <2>2, <2>3, <2>4, <2>5 DEF BasicInv, TypeOK
  <2>7. QED
    BY <1>3, <2>1, <2>2, <2>3, <2>4, <2>6 DEF BasicInv
<1>6. QED
  BY <1>4, <1>5

LEMMA BasicReset ==
  ASSUME BasicInv, PowerCut \/ CrashAndReset \/ AppRestarts \/ RestartIntoStaged
  PROVE  BasicInv'
<1>1. Reset /\ fellBack' \in BOOLEAN
  BY DEF PowerCut, CrashAndReset, AppRestarts, RestartIntoStaged, SaveIsCutShort, BasicInv, TypeOK
<1>2. cuts' \in 0 .. MaxCuts /\ faults' \in 0 .. MaxFaults
  BY MaxAssumption DEF PowerCut, CrashAndReset, AppRestarts, RestartIntoStaged, BasicInv, TypeOK
<1>3. TypeOK'
  BY <1>1, <1>2 DEF Reset, BasicInv, TypeOK, Copies
<1>4. \A slot \in Slots : Bootable(slot) => Bootable(slot)'
  BY <1>1 DEF Reset, Bootable
<1>5. QED
  BY <1>1, <1>3, <1>4 DEF Reset, BasicInv

\* What the application does to the session and to the spare slot.
LEMMA BasicApp ==
  ASSUME BasicInv,
         \/ Disconnect \/ OtaOffer \/ TransferFails \/ OtaBegin \/ FlashBench \/ OtaSelftest
         \/ SpareCleared \/ PayloadArrives
  PROVE  BasicInv'
<1> USE DEF SpareToWrite
<1>1. /\ pc = "app" /\ running \in Slots /\ Bootable(running) /\ save = NoSave
      /\ ram # Torn
  BY DEF BasicInv, AppFree, Disconnect, OtaOffer, TransferFails, OtaBegin, FlashBench, OtaSelftest,
         ConsoleTyped, SpareCleared, PayloadArrives
<1>2. Spare \in Slots /\ Spare # running
  BY <1>1, OtherSlotType DEF Spare
<1>3. /\ UNCHANGED <<copy, pc, running, ram, save, cuts, faults, fellBack>>
      /\ tries' \in {0, tries}
      /\ proven' \in {proven, proven \ {Spare}}
      /\ \/ image' = image
         \/ \E content \in {"blank", "torn"} : image' = [image EXCEPT ![Spare] = content]
  BY DEF Disconnect, OtaOffer, TransferFails, OtaBegin, FlashBench, OtaSelftest, SpareCleared,
         PayloadArrives, Overwrite
<1>4. image' \in [Slots -> Contents] /\ image'[running] = image[running]
  BY <1>1, <1>2, <1>3 DEF BasicInv, TypeOK, Contents
<1>5. /\ writer' \in {"idle", "erasing", "writing", "bench", "selftest"}
      /\ offer' \in BOOLEAN /\ online' \in BOOLEAN /\ meddled' \in BOOLEAN
  BY DEF Disconnect, OtaOffer, TransferFails, OtaBegin, FlashBench, OtaSelftest, SpareCleared,
         PayloadArrives, BasicInv, TypeOK
<1>6. tries' \in 0 .. TrialBoots + MaxFaults + 1
  BY <1>3, TrialBootsAssumption, MaxAssumption DEF BasicInv, TypeOK
<1>7. TypeOK'
  BY <1>3, <1>4, <1>5, <1>6 DEF BasicInv, TypeOK
<1>8. Bootable(running)'
  BY <1>1, <1>3, <1>4 DEF Bootable
<1>9. QED
  BY <1>1, <1>3, <1>7, <1>8 DEF BasicInv

\* The steps of the application that may begin a save.
LEMMA BasicSaveBegins ==
  ASSUME BasicInv, HelloAck \/ TransferCompletes \/ OtaStage
  PROVE  BasicInv'
<1>1. /\ pc = "app" /\ running \in Slots /\ Bootable(running) /\ save = NoSave
      /\ ram \in Records /\ ram # Torn /\ writer \in {"idle", "writing"}
  BY DEF BasicInv, TypeOK, Copies, AppFree, HelloAck, TransferCompletes, OtaStage, ConsoleTyped
<1>2. Spare \in Slots /\ Spare # running
  BY <1>1, OtherSlotType DEF Spare
<1>3. /\ UNCHANGED <<copy, pc, running, ram, cuts, faults, fellBack, offer>>
      /\ tries' \in {0, tries}
      /\ writer' \in {writer, "idle"}
      /\ online' \in BOOLEAN /\ meddled' \in BOOLEAN
      /\ proven' \subseteq Slots
  BY <1>1 DEF HelloAck, TransferCompletes, OtaStage, BasicInv, TypeOK
<1>4. image' \in [Slots -> Contents] /\ image'[running] = image[running]
  <2>1. image' = image \/ \E build \in Builds : image' = [image EXCEPT ![Spare] = build]
    BY DEF HelloAck, TransferCompletes, OtaStage, WriteEnds, SpareToWrite
  <2>2. QED
    BY <1>1, <1>2, <2>1, BuildsAssumption DEF BasicInv, TypeOK, Contents
<1>5. /\ Staged(Spare) \in Records
      /\ ~ram.confirmed => Confirmed \in Records
  BY <1>1, StagedType, ConfirmedType
<1>6. save' = save \/ \E op \in {"confirm", "stage"}, rec \in Records : BeginSave(op, rec)
  BY <1>5 DEF HelloAck, TransferCompletes, OtaStage, OnTrial, SpareToWrite
<1>7. save' = save \/ (save' \in Saves /\ save'.op # "boot")
  <2>1. ASSUME NEW op \in {"confirm", "stage"}, NEW rec \in Records, BeginSave(op, rec)
        PROVE  save' \in Saves /\ save'.op # "boot"
    BY <2>1, BeginSaveType DEF BeginSave, BasicInv
  <2>2. QED
    BY <1>6, <2>1
<1>8. tries' \in 0 .. TrialBoots + MaxFaults + 1
  BY <1>3, TrialBootsAssumption, MaxAssumption DEF BasicInv, TypeOK
<1>9. TypeOK'
  BY <1>1, <1>3, <1>4, <1>7, <1>8 DEF BasicInv, TypeOK
<1>10. Bootable(running)'
  BY <1>1, <1>3, <1>4 DEF Bootable
<1>11. QED
  BY <1>1, <1>3, <1>7, <1>9, <1>10 DEF BasicInv

LEMMA BasicStutter == ASSUME BasicInv, UNCHANGED vars PROVE BasicInv'
<1>1. TypeOK' /\ (\A slot \in Slots : Bootable(slot) => Bootable(slot)')
  BY DEF vars, BasicInv, TypeOK, Bootable
<1>2. running \in Slots /\ Bootable(running) => Bootable(running)'
  BY DEF vars, Bootable
<1>3. QED
  BY <1>1, <1>2 DEF vars, BasicInv

LEMMA BasicHolds == Spec => []BasicInv
<1>1. BasicInv /\ [Next]_vars => BasicInv'
  BY BasicSave, BasicLoader, BasicReset, BasicApp, BasicSaveBegins, BasicStutter
     DEF Next, SaveSteps, LoaderSteps
<1>2. QED
  BY <1>1, BasicInit, PTL DEF Spec

LEMMA InvariantHolds == Spec => [](Void \/ IInv)
<1>1. Init => Void \/ IInv
  BY InitIInv
<1>2. BasicInv /\ (Void \/ IInv) /\ [Next]_vars => Void' \/ IInv'
  <2> SUFFICES ASSUME BasicInv, Void \/ IInv, [Next]_vars PROVE Void' \/ IInv'
    OBVIOUS
  <2>1. Void => Void'
    BY VoidStays DEF BasicInv
  <2>2. QED
    BY <2>1, NextIInv
<1>3. QED
  BY <1>1, <1>2, BasicHolds, PTL DEF Spec

-------------------------------------------------------------------------------
\* Every variable keeps its type, whoever types what (the record and the
\* sectors of OtaState, the programs and the sessions of OtaUpdate).
THEOREM TypeCorrect == Spec => []TypeOK
<1>1. BasicInv => TypeOK
  BY DEF BasicInv
<1>2. QED
  BY <1>1, BasicHolds, PTL

\* The losses counted: as long as there was none, both copies are the same but
\* for the save that is under way.
LossInv ==
  /\ fellBack => cuts + faults > 1
  /\ cuts + faults = 0 =>
       /\ save = NoSave => copy[1] = copy[2]
       /\ save # NoSave /\ save.sector = 1 => copy[2] = save.was

\* A save that begins.
LEMMA LossSaveBegins ==
  ASSUME LossInv, TypeOK, save = NoSave, UNCHANGED <<copy, cuts, faults, fellBack>>,
         NEW op \in {"boot", "confirm", "stage"}, NEW rec, BeginSave(op, rec)
  PROVE  LossInv'
<1>1. save'.op = op /\ save'.was = Loaded
  BY DEF BeginSave
<1>2. save' # NoSave
  BY <1>1, SavesAreNotNoSave
<1>3. Loaded \in {copy[1], copy[2]}
  BY LoadedType DEF TypeOK
<1>4. QED
  BY <1>1, <1>2, <1>3 DEF LossInv

\* A save that goes on.
LEMMA LossSaveGoesOn ==
  ASSUME IInv, LossInv, EraseSector \/ ProgramFirst \/ ProgramSecond
  PROVE  LossInv'
<1>1. /\ save \in Saves /\ save # NoSave /\ save.sector \in {1, 2}
      /\ UNCHANGED <<cuts, faults, fellBack>> /\ copy \in [{1, 2} -> Copies]
  BY DEF IInv, TypeOK, EraseSector, ProgramFirst, ProgramSecond, SaveReturns, Saves
<1>2. CASE EraseSector
  <2>1. save' = [save EXCEPT !.erased = TRUE]
    BY <1>2 DEF EraseSector
  <2>2. /\ save'.sector = save.sector /\ save'.was = save.was /\ save' # NoSave
    BY <1>1, <2>1, SavesAreNotNoSave DEF Saves
  <2>3. save.sector = 1 => copy'[2] = copy[2]
    BY <1>1, <1>2 DEF EraseSector, Erased
  <2>4. QED
    BY <1>1, <2>2, <2>3 DEF LossInv
<1>3. CASE ProgramFirst
  <2>1. save' = [save EXCEPT !.sector = 2, !.erased = FALSE]
    BY <1>3 DEF ProgramFirst
  <2>2. save'.sector = 2 /\ save' # NoSave
    BY <1>1, <2>1, SavesAreNotNoSave DEF Saves
  <2>3. QED
    BY <1>1, <2>2 DEF LossInv
<1>4. CASE ProgramSecond
  <2>1. copy[1] = save.rec /\ save.sector = 2
    BY <1>1, <1>4 DEF ProgramSecond, IInv, SaveInv
  <2>2. copy'[1] = save.rec /\ copy'[2] = save.rec /\ save' = NoSave
    BY <1>1, <1>4, <2>1 DEF ProgramSecond, SaveReturns
  <2>3. QED
    BY <1>1, <2>2 DEF LossInv
<1>5. QED
  BY <1>2, <1>3, <1>4

\* A save that is cut short, or a program that is.
LEMMA LossCounted ==
  ASSUME IInv, LossInv, PowerCut \/ ProgramFails
  PROVE  LossInv'
<1>1. cuts \in Nat /\ faults \in Nat
  BY MaxAssumption DEF IInv, TypeOK
<1>2. cuts' + faults' = cuts + faults + 1
  BY <1>1 DEF PowerCut, ProgramFails, SaveReturns
<1>3. fellBack' = (fellBack \/ OnlyCopyErased) /\ fellBack \in BOOLEAN
  BY DEF PowerCut, ProgramFails, SaveIsCutShort, IInv, TypeOK
<1>4. OnlyCopyErased => cuts + faults # 0
  BY SavesAreNotNoSave DEF OnlyCopyErased, SecondIsCurrent, LossInv
<1>5. fellBack' => cuts' + faults' > 1
  BY <1>1, <1>2, <1>3, <1>4 DEF LossInv
<1>6. cuts' + faults' # 0
  BY <1>1, <1>2
<1>7. QED
  BY <1>5, <1>6 DEF LossInv

LEMMA LossStep ==
  ASSUME IInv, LossInv, [Next]_vars
  PROVE  LossInv'
<1>1. CASE SaveSteps
  BY <1>1, LossSaveGoesOn DEF SaveSteps
<1>2. CASE PowerCut \/ ProgramFails
  BY <1>2, LossCounted
<1>3. CASE LoaderReads
  <2>1. save = NoSave /\ UNCHANGED <<copy, cuts, faults, fellBack>>
    BY <1>3 DEF LoaderReads, IInv, SaveInv
  <2>2. save' = save \/ BeginSave("boot", OnBoot(Loaded))
    BY <1>3 DEF LoaderReads
  <2>3. QED
    BY <2>1, <2>2, LossSaveBegins DEF IInv, LossInv
<1>4. CASE HelloAck
  <2>1. save = NoSave /\ UNCHANGED <<copy, cuts, faults, fellBack>>
    BY <1>4 DEF HelloAck, AppFree
  <2>2. save' = save \/ BeginSave("confirm", Confirmed)
    BY <1>4 DEF HelloAck
  <2>3. QED
    BY <2>1, <2>2, LossSaveBegins DEF IInv, LossInv
<1>5. CASE TransferCompletes \/ OtaStage
  <2>1. save = NoSave /\ UNCHANGED <<copy, cuts, faults, fellBack>>
        /\ BeginSave("stage", Staged(Spare))
    BY <1>5 DEF TransferCompletes, OtaStage, ConsoleTyped, AppFree, SpareToWrite
  <2>2. QED
    BY <2>1, LossSaveBegins DEF IInv
<1>6. CASE CrashAndReset \/ AppRestarts \/ RestartIntoStaged
  <2>1. save = NoSave /\ save' = NoSave /\ UNCHANGED <<copy, cuts, faults, fellBack>>
    BY <1>6 DEF CrashAndReset, AppRestarts, RestartIntoStaged, AppFree, Reset, IInv, SaveInv
  <2>2. QED
    BY <2>1 DEF LossInv
<1>7. CASE \/ EnterSlot \/ Disconnect \/ OtaOffer \/ OtaBegin \/ SpareCleared
            \/ PayloadArrives \/ TransferFails \/ FlashBench \/ OtaSelftest \/ UNCHANGED vars
  <2>1. UNCHANGED <<copy, save, cuts, faults, fellBack>>
    BY <1>7 DEF EnterSlot, Disconnect, OtaOffer, OtaBegin, SpareCleared, PayloadArrives,
                TransferFails, FlashBench, OtaSelftest, vars
  <2>2. QED
    BY <2>1 DEF LossInv
<1>8. QED
  BY <1>1, <1>2, <1>3, <1>4, <1>5, <1>6, <1>7 DEF Next, LoaderSteps

LEMMA LossHolds == Spec => [](meddled \/ (fellBack => cuts + faults > 1))
<1> DEFINE Counted == meddled \/ ((fellBack => cuts + faults > 1) /\ (LossInv \/ fellBack))
<1>1. Init => Counted
  <2>1. Init => copy[1] = Torn /\ copy[2] = Torn
    BY DEF Init
  <2>2. QED
    BY <2>1 DEF Init, LossInv
<1>2. ASSUME BasicInv, Void \/ IInv, Counted, [Next]_vars
      PROVE  Counted'
  <2>0. CASE meddled
    BY <1>2, <2>0, VoidStays DEF BasicInv
  <2>1. CASE ~fellBack /\ ~meddled
    <3>1. LossInv'
      BY <1>2, <2>1, LossStep DEF Void
    <3>2. QED
      BY <3>1 DEF LossInv
  <2>2. CASE fellBack /\ ~meddled
    <3>1. fellBack'
      BY <1>2, <2>2, FellBackStays DEF BasicInv, TypeOK
    <3>2. /\ cuts \in Nat /\ faults \in Nat
          /\ cuts' = cuts \/ cuts' = cuts + 1
          /\ faults' = faults \/ faults' = faults + 1
      BY <1>2, MaxAssumption
         DEF Next, vars, SaveSteps, EraseSector, ProgramFirst, ProgramSecond, ProgramFails,
             SaveReturns, LoaderSteps, LoaderReads, EnterSlot, PowerCut, CrashAndReset,
             AppRestarts, RestartIntoStaged, HelloAck, Disconnect, OtaOffer, OtaBegin,
             SpareCleared, PayloadArrives, TransferFails, TransferCompletes, FlashBench,
             OtaSelftest, OtaStage, BasicInv, TypeOK
    <3>3. cuts + faults > 1
      BY <1>2, <2>2
    <3>4. cuts' + faults' > 1
      BY <3>2, <3>3
    <3>5. QED
      BY <3>1, <3>4
  <2>3. QED
    BY <2>0, <2>1, <2>2
<1>3. Counted => meddled \/ (fellBack => cuts + faults > 1)
  OBVIOUS
<1> HIDE DEF Counted
<1>4. QED
  BY <1>1, <1>2, <1>3, BasicHolds, InvariantHolds, PTL DEF Spec

\* Whenever the loader takes over, the slot it comes back to holds an image
\* that has reached the relay, until the record in force has been lost, which
\* takes two losses, or OTA_SELFTEST or OTA_STAGE was typed on trial
\* (loader main, rw_ota_state_on_boot, rw_ota_flash_save, cmd_ota_selftest).
THEOREM ProvenImageToComeBackTo == Spec => []LoaderHasProvenImage
<1>1. IInv => (pc = "reset" => HomeIsProven)
  <2>1. IInv /\ pc = "reset" => Loaded = InForce
    BY DEF IInv, SaveInv, InForce
  <2>2. QED
    BY <2>1 DEF IInv, HomeInv, HomeIsProven
<1>2. (Void \/ IInv) /\ (meddled \/ (fellBack => cuts + faults > 1)) => LoaderHasProvenImage
  BY <1>1 DEF LoaderHasProvenImage, Void
<1>3. QED
  BY <1>2, InvariantHolds, LossHolds, PTL

\* The device never ends up in the ROM's USB drive, whoever types what and
\* whatever is lost (loader main).
THEOREM CableNotNeeded == Spec => []NeverNeedsCable
<1>1. BasicInv => NeverNeedsCable
  BY DEF BasicInv, NeverNeedsCable
<1>2. QED
  BY <1>1, BasicHolds, PTL

\* No step writes the slot the application runs from, whoever types what
\* (rw_ota_write_begin, rw_ota_spare_slot).
THEOREM RunningSlotSafe == Spec => RunningSlotUntouched
<1>1. ASSUME BasicInv, [Next]_vars, running # "none", running' = running
      PROVE  image'[running] = image[running]
  <2>1. CASE image' = image
    BY <2>1
  <2>2. CASE OtaBegin \/ FlashBench \/ SpareCleared \/ PayloadArrives \/ TransferCompletes
    <3>1. pc = "app"
      <4>1. AppFree => pc = "app"
        BY DEF AppFree
      <4>2. SpareCleared => pc = "app"
        BY <1>1 DEF SpareCleared, BasicInv
      <4>3. SpareCleared \/ AppFree
        BY <2>2 DEF OtaBegin, FlashBench, PayloadArrives, TransferCompletes, ConsoleTyped
      <4>4. QED
        BY <4>1, <4>2, <4>3
    <3>2. running \in Slots /\ Spare # running /\ image \in [Slots -> Contents]
      BY <1>1, <3>1, OtherSlotType DEF BasicInv, TypeOK, Spare
    <3>3. \E content : image' = [image EXCEPT ![Spare] = content]
      BY <2>2 DEF OtaBegin, FlashBench, SpareCleared, PayloadArrives, TransferCompletes,
                  WriteEnds, SpareToWrite, Overwrite
    <3>4. QED
      BY <3>2, <3>3
  <2>3. CASE OtaSelftest
    <3>1. running \in Slots /\ Spare # running /\ image \in [Slots -> Contents]
      BY <1>1, <2>3, OtherSlotType DEF OtaSelftest, ConsoleTyped, AppFree, BasicInv, TypeOK, Spare
    <3>2. QED
      BY <2>3, <3>1 DEF OtaSelftest, Overwrite
  <2>4. [Next]_vars => \/ image' = image
                      \/ OtaBegin \/ FlashBench \/ SpareCleared \/ PayloadArrives
                      \/ TransferCompletes \/ OtaSelftest
    BY DEF Next, vars, SaveSteps, EraseSector, ProgramFirst, ProgramSecond, ProgramFails,
           SaveReturns, LoaderSteps, LoaderReads, EnterSlot, PowerCut, CrashAndReset,
           AppRestarts, RestartIntoStaged, Reset, HelloAck, Disconnect, OtaOffer,
           TransferFails, OtaStage
  <2>5. QED
    BY <1>1, <2>1, <2>2, <2>3, <2>4
<1>2. QED
  BY <1>1, BasicHolds, PTL DEF Spec, RunningSlotUntouched

-------------------------------------------------------------------------------
\* The refinement of OtaTrial.

\* Only the programming of the first sector changes the record in force, as
\* long as it is not lost.
LEMMA InForceChangesOnlyThere ==
  ASSUME IInv, [Next]_vars, ~ProgramFirst, ~fellBack'
  PROVE  InForce' = InForce
<1>1. CASE EraseSector
  <2>1. /\ save'.rec = save.rec /\ save'.was = save.was /\ save'.sector = save.sector
        /\ save # NoSave /\ save' # NoSave
    <3>1. save \in Saves /\ save' = [save EXCEPT !.erased = TRUE] /\ save # NoSave
      BY <1>1 DEF EraseSector, IInv, TypeOK
    <3>2. save' \in Saves
      BY <3>1 DEF Saves
    <3>3. QED
      BY <3>1, <3>2, SavesAreNotNoSave DEF Saves
  <2>2. QED
    BY <2>1 DEF InForce
<1>2. CASE ProgramSecond
  <2>1. save \in Saves /\ save # NoSave /\ save.sector = 2
    BY <1>2 DEF ProgramSecond, IInv, TypeOK
  <2>2. /\ copy \in [{1, 2} -> Copies] /\ save.rec # Torn
        /\ copy'[1] = save.rec /\ copy'[2] = save.rec /\ save' = NoSave
    BY <1>2, <2>1, TornIsNoRecord DEF ProgramSecond, SaveReturns, IInv, TypeOK, SaveInv, Saves
  <2>3. Loaded' = save.rec
    BY <2>2 DEF Loaded, Pick
  <2>4. QED
    BY <2>1, <2>2, <2>3 DEF InForce
<1>3. CASE ProgramFails
  <2>1. /\ save \in Saves /\ save # NoSave /\ save.erased /\ ~OnlyCopyErased /\ copy' = copy
        /\ save' = NoSave
    BY <1>3 DEF ProgramFails, SaveReturns, SaveIsCutShort, IInv, TypeOK
  <2>2. copy[1] = Torn \/ copy[2] = Torn
    BY <2>1 DEF IInv, SaveInv, Saves
  <2>3. Loaded = InForce
    BY <2>1, <2>2, LossKeepsInForce DEF IInv, CopiesComparable
  <2>4. QED
    BY <2>1, <2>3, LoadedUnchanged DEF InForce
<1>4. CASE PowerCut
  <2>1. Loaded = InForce
    BY <1>4, LossKeepsInForce DEF PowerCut, SaveIsCutShort, IInv
  <2>2. copy' = copy /\ save' = NoSave
    BY <1>4 DEF PowerCut, Reset
  <2>3. QED
    BY <2>1, <2>2, LoadedUnchanged DEF InForce
<1>5. CASE copy' = copy /\ save' = save
  BY <1>5, LoadedUnchanged DEF InForce
<1>6. CASE copy' = copy /\ save = NoSave /\ save' = NoSave
  BY <1>6, LoadedUnchanged DEF InForce
<1>7. ASSUME copy' = copy, save = NoSave, NEW op \in {"boot", "confirm", "stage"},
             NEW rec, BeginSave(op, rec)
      PROVE  InForce' = InForce
  BY <1>7, LoadedUnchanged, SavesAreNotNoSave DEF InForce, BeginSave
<1>8. CASE CrashAndReset \/ AppRestarts \/ RestartIntoStaged
  <2>1. save = NoSave /\ save' = NoSave /\ copy' = copy
    BY <1>8 DEF CrashAndReset, AppRestarts, RestartIntoStaged, AppFree, Reset, IInv, SaveInv
  <2>2. QED
    BY <2>1, <1>6
<1>9. CASE LoaderReads
  <2>1. save = NoSave /\ copy' = copy
    BY <1>9 DEF LoaderReads, IInv, SaveInv
  <2>2. save' = save \/ \E op \in {"boot", "confirm", "stage"}, rec \in {OnBoot(Loaded)} : BeginSave(op, rec)
    BY <1>9 DEF LoaderReads
  <2>3. QED
    BY <2>1, <2>2, <1>5, <1>7
<1>10. CASE HelloAck
  <2>1. save = NoSave /\ copy' = copy
    BY <1>10 DEF HelloAck, AppFree
  <2>2. save' = save \/ BeginSave("confirm", Confirmed)
    BY <1>10 DEF HelloAck
  <2>3. QED
    BY <2>1, <2>2, <1>5, <1>7
<1>11. CASE TransferCompletes \/ OtaStage
  <2>1. save = NoSave /\ copy' = copy /\ BeginSave("stage", Staged(Spare))
    BY <1>11 DEF TransferCompletes, OtaStage, ConsoleTyped, AppFree, SpareToWrite
  <2>2. QED
    BY <2>1, <1>7
<1>12. CASE \/ EnterSlot \/ Disconnect \/ OtaOffer \/ OtaBegin \/ SpareCleared
            \/ PayloadArrives \/ TransferFails \/ FlashBench \/ OtaSelftest \/ UNCHANGED vars
  BY <1>12, <1>5 DEF EnterSlot, Disconnect, OtaOffer, OtaBegin, SpareCleared, PayloadArrives,
                     TransferFails, FlashBench, OtaSelftest, vars
<1>13. QED
  BY <1>1, <1>2, <1>3, <1>4, <1>8, <1>9, <1>10, <1>11, <1>12
     DEF Next, SaveSteps, LoaderSteps

\* The abstract home of a record is the slot it relies on.
LEMMA HomeOfBare ==
  ASSUME NEW r \in Copies
  PROVE  /\ Bare(r) = Promise!NoRecord <=> r = Torn
         /\ Bare(r).active = r.active /\ Bare(r).fallback = r.fallback
         /\ Bare(r).trial = r.trial /\ Bare(r).confirmed = r.confirmed
<1>1. ASSUME r # Torn PROVE Bare(r) # Promise!NoRecord
  <2>1. r.active \in Slots /\ "none" \notin Slots
    BY <1>1 DEF Copies, Records, Slots
  <2>2. Bare(r).active \in Slots /\ Promise!NoRecord.active = "none"
    BY <2>1 DEF Bare, Promise!NoRecord, Promise!Record
  <2>3. QED
    BY <2>1, <2>2
<1>2. Bare(Torn) = Promise!NoRecord
  BY DEF Bare, Promise!NoRecord, Promise!Record, Torn
<1>3. QED
  BY <1>1, <1>2 DEF Bare

\* Programming the first sector is the one step of the abstract record.
LEMMA ProgramFirstRefines ==
  ASSUME IInv, ProgramFirst
  PROVE  Promise!Kept
<1>1. /\ save \in Saves /\ save # NoSave /\ save.sector = 1 /\ save.rec \in Records
      /\ proven' = proven /\ fellBack' = fellBack /\ meddled' = meddled /\ save.was \in Copies
  BY DEF ProgramFirst, IInv, TypeOK, Saves
<1>2. InForce = save.was /\ InForce' = save.rec
  <2>1. save' = [save EXCEPT !.sector = 2, !.erased = FALSE]
    BY DEF ProgramFirst
  <2>2. save' \in Saves /\ save'.rec = save.rec /\ save'.sector = 2
    BY <1>1, <2>1 DEF Saves
  <2>3. QED
    BY <1>1, <2>2, SavesAreNotNoSave DEF InForce
<1>3. CASE save.op = "boot"
  <2>1. save.was \in Records /\ ~save.was.confirmed /\ save.rec = OnBoot(save.was)
    BY <1>1, <1>3 DEF IInv, StepInv, Copies
  <2>2. Bare(save.was) # Promise!NoRecord
    BY <1>1, <2>1, HomeOfBare, TornIsNoRecord
  <2>3. CASE save.was.trial > 0
    <3>1. /\ save.rec.active = save.was.active /\ save.rec.fallback = save.was.fallback
          /\ save.rec.trial = save.was.trial - 1
      BY <2>1, <2>3, OnBootType
    <3>2. save.rec.confirmed = save.was.confirmed
      BY <2>1, <2>3, OnBootType DEF Records
    <3>3. [Bare(save.was) EXCEPT !.trial = save.was.trial - 1] =
            [active |-> save.was.active, fallback |-> save.was.fallback,
             trial |-> save.was.trial - 1, confirmed |-> save.was.confirmed]
      BY DEF Bare
    <3>4. Bare(save.rec) = [Bare(save.was) EXCEPT !.trial = save.was.trial - 1]
      BY <3>1, <3>2, <3>3, Zenon DEF Bare
    <3>5. Promise!Boot
      BY <1>1, <1>2, <2>1, <2>2, <2>3, <3>4, HomeOfBare DEF Promise!Boot
    <3>6. QED
      BY <1>1, <3>5 DEF Promise!Kept
  <2>4. CASE save.was.trial = 0
    <3>1. /\ save.rec.active = save.was.fallback /\ save.rec.fallback = save.was.fallback
          /\ save.rec.trial = save.was.trial
      BY <2>1, <2>4, OnBootType
    <3>2. save.rec.confirmed = TRUE
      BY <1>1, <2>1, <2>4, OnBootType DEF Records
    <3>3. Bare(save.rec) = Promise!Settled(save.was.fallback)
      BY <2>4, <3>1, <3>2 DEF Bare, Promise!Settled, Promise!Record
    <3>4. Promise!GiveUp
      BY <1>1, <1>2, <2>1, <2>2, <2>4, <3>3, HomeOfBare DEF Promise!GiveUp
    <3>5. QED
      BY <1>1, <3>4 DEF Promise!Kept
  <2>5. QED
    BY <2>1, <2>3, <2>4, TrialBootsAssumption DEF Records
<1>4. CASE save.op = "confirm"
  <2>1. running \in proven /\ running \in Slots
    BY <1>4 DEF IInv, TypeOK, StepInv
  <2>2. /\ save.rec.active = running /\ save.rec.fallback = running /\ save.rec.trial = 0
    BY <1>4 DEF IInv, StepInv
  <2>3. save.rec.confirmed = TRUE
    BY <1>1, <1>4 DEF IInv, StepInv, Records
  <2>4. Bare(save.rec) = Promise!Settled(running)
    BY <2>2, <2>3 DEF Bare, Promise!Settled, Promise!Record
  <2>5. Promise!Settle(running)
    BY <1>1, <1>2, <2>1, <2>4 DEF Promise!Settle
  <2>6. QED
    BY <1>1, <2>1, <2>5 DEF Promise!Kept, Promise!Slots, Slots
<1>5. CASE save.op = "stage"
  <2>1. running \in proven /\ running \in Slots
    BY <1>5 DEF IInv, TypeOK, StepInv
  <2>2. Spare \in Slots /\ Promise!Other(Spare) = running
    BY <2>1 DEF Spare, OtherSlot, Promise!Other, Slots
  <2>3. /\ save.rec.active = Spare /\ save.rec.fallback = running
        /\ save.rec.trial = TrialBoots
    BY <1>5 DEF IInv, StepInv
  <2>4. save.rec.confirmed = FALSE
    BY <1>1, <1>5 DEF IInv, StepInv, Records
  <2>5. Bare(save.rec) = Promise!Record(Spare, running, TrialBoots, FALSE)
    BY <2>3, <2>4 DEF Bare, Promise!Record
  <2>6. Promise!Try(Spare)
    BY <1>1, <1>2, <2>1, <2>2, <2>5 DEF Promise!Try
  <2>7. QED
    BY <1>1, <2>2, <2>6 DEF Promise!Kept, Promise!Slots, Slots
<1>6. QED
  BY <1>1, <1>3, <1>4, <1>5 DEF Saves

\* Two sectors, two programs and the power cuts between them behave as one
\* record that changes in one step, with a proven image to come back to, until
\* that record is lost or OTA_SELFTEST or OTA_STAGE is typed on trial
\* (state.c, ota_flash.c, ota.c, loader main).
THEOREM Refinement == Spec => KeepsPromise
<1>1. Init => Promise!Init
  <2>1. Init => copy \in [{1, 2} -> Copies] /\ copy[1] = Torn /\ copy[2] = Torn
    BY DEF Init, Copies
  <2>2. Init => InForce = Torn /\ proven = {"A"} /\ fellBack = FALSE /\ meddled = FALSE
    BY <2>1, LoadedType DEF Init, InForce
  <2>3. Bare(Torn) = Promise!NoRecord
    BY HomeOfBare DEF Copies
  <2>4. QED
    BY <2>2, <2>3 DEF Promise!Init
<1>2. ASSUME IInv, [Next]_vars, ~Void'
      PROVE  Promise!Kept \/ UNCHANGED Promise!promise
  <2> USE <1>2
  <2>0. (fellBack \/ meddled)' = (fellBack \/ meddled) /\ ~fellBack'
    <3>1. ~fellBack' /\ ~meddled'
      BY DEF Void
    <3>2. ~fellBack /\ ~meddled
      BY <3>1, FellBackStays, VoidStays DEF IInv, TypeOK
    <3>3. QED
      BY <3>1, <3>2
  <2>1. CASE ProgramFirst
    BY <2>0, <2>1, ProgramFirstRefines DEF Promise!Kept
  <2>2. CASE ~ProgramFirst /\ proven' = proven
    BY <2>0, <2>2, InForceChangesOnlyThere DEF Promise!promise, Bare
  <2>3. CASE HelloAck
    <3>1. InForce' = InForce
      BY <2>0, <2>3, InForceChangesOnlyThere DEF HelloAck, AppFree, ProgramFirst
    <3>2. running \in Slots /\ proven' = proven \cup {running}
      BY <2>3, FreeApp DEF HelloAck
    <3>3. Promise!Prove(running)
      BY <3>1, <3>2 DEF Promise!Prove, Bare
    <3>4. QED
      BY <2>0, <3>2, <3>3 DEF Promise!Kept, Promise!Slots, Slots
  <2>4. CASE OtaBegin \/ FlashBench \/ OtaSelftest
    <3>1. AppFree /\ ram.confirmed /\ proven' = proven \ {Spare}
      BY <2>4 DEF OtaBegin, FlashBench, OtaSelftest, ConsoleTyped, SpareToWrite, Overwrite,
                  OnTrial, AppFree, IInv, AppInv, Void
    <3>2. InForce' = InForce
      BY <2>0, <3>1, InForceChangesOnlyThere DEF AppFree, ProgramFirst
    <3>3. Spare \in Slots /\ Spare # running /\ ReliedOn(InForce) = {running}
      BY <3>1, FreeApp
    <3>4. Spare # Promise!Home
      BY <3>3, InForceType, HomeOfBare DEF IInv, Promise!Home, ReliedOn
    <3>5. Promise!Overwrite(Spare)
      BY <3>1, <3>2, <3>4 DEF Promise!Overwrite, Bare
    <3>6. QED
      BY <2>0, <3>3, <3>5 DEF Promise!Kept, Promise!Slots, Slots
  <2>5. [Next]_vars => \/ ProgramFirst \/ proven' = proven \/ HelloAck \/ OtaBegin
                      \/ FlashBench \/ OtaSelftest
    BY DEF Next, vars, SaveSteps, EraseSector, ProgramSecond, ProgramFails,
           SaveReturns, LoaderSteps, LoaderReads, EnterSlot, PowerCut, CrashAndReset,
           AppRestarts, RestartIntoStaged, Reset, Disconnect, OtaOffer, SpareCleared,
           PayloadArrives, TransferFails, TransferCompletes, OtaStage
  <2>6. QED
    BY <2>1, <2>2, <2>3, <2>4, <2>5
<1>3. BasicInv /\ BasicInv' /\ (Void \/ IInv) /\ [Next]_vars => [Promise!Next]_Promise!promise
  <2> SUFFICES ASSUME BasicInv, BasicInv', Void \/ IInv, [Next]_vars
               PROVE  [Promise!Next]_Promise!promise
    OBVIOUS
  <2>2. CASE Void
    <3>1. Void' /\ (fellBack \/ meddled)' = TRUE
      BY <2>2, VoidStays DEF BasicInv, Void
    <3>2. QED
      BY <2>2, <3>1 DEF Promise!Next, Void
  <2>3. CASE ~Void /\ Void'
    <3>1. (fellBack \/ meddled)' = TRUE
      BY <2>3 DEF Void
    <3>2. PowerCut \/ ProgramFails \/ OtaSelftest \/ OtaStage
      BY <2>3, FellBackStays, VoidStays DEF BasicInv, TypeOK, Void
    <3>3. proven' \subseteq proven
      BY <3>2 DEF PowerCut, ProgramFails, Reset, SaveReturns, OtaSelftest, OtaStage, Overwrite
    <3>4. QED
      BY <2>3, <3>1, <3>3 DEF Promise!Next, Promise!Lose, Void
  <2>4. CASE ~Void /\ ~Void'
    BY <2>4, <1>2 DEF Promise!Next, Void
  <2>5. QED
    BY <2>2, <2>3, <2>4
<1>4. QED
  BY <1>1, <1>3, BasicHolds, InvariantHolds, PTL DEF Spec, KeepsPromise, Promise!Spec

-------------------------------------------------------------------------------
\* The boots of a trial.  What the record in force has left and what has been
\* entered come to no more than the trial had, and one for each refused write.

\* The record in force is on trial.
Trying == InForce # Torn /\ ~InForce.confirmed

\* The boot that is about to be entered has been paid for.
Paid == pc = "enter" \/ (save.op = "boot" /\ save.sector = 2)

BudgetInv ==
  /\ tries <= TrialBoots + faults
  /\ Trying => tries + InForce.trial <= TrialBoots + faults
  /\ Trying /\ Paid => tries + InForce.trial < TrialBoots + faults
  /\ save.op = "stage" /\ save.sector = 1 => tries = 0

\* What the arithmetic below is about.
LEMMA BudgetTypes ==
  ASSUME TypeOK
  PROVE  /\ tries \in Nat /\ TrialBoots \in Nat /\ faults \in Nat
         /\ InForce.trial \in 0 .. TrialBoots
<1>1. InForce \in Copies
  BY InForceType
<1>2. QED
  BY <1>1, TrialBootsAssumption, MaxAssumption DEF TypeOK, Copies, Records, Torn

\* A step that neither enters an image nor changes the record in force.
LEMMA BudgetKept ==
  ASSUME IInv, TypeOK', BudgetInv, faults' = faults, InForce' = InForce,
         tries' \in {0, tries},
         Trying /\ Paid' => Paid,
         save'.op = "stage" /\ save'.sector = 1 => tries' = 0 \/ (save.op = "stage" /\ save.sector = 1)
  PROVE  BudgetInv'
<1>1. /\ tries \in Nat /\ tries' \in Nat /\ tries' <= tries /\ TrialBoots \in Nat
      /\ InForce.trial \in Nat /\ faults \in Nat
  BY BudgetTypes DEF IInv
<1>2. Trying' = Trying /\ (InForce.trial)' = InForce.trial
  BY DEF Trying
<1>3. Trying => tries' + InForce.trial <= TrialBoots + faults
  BY <1>1 DEF BudgetInv
<1>4. Trying /\ Paid' => tries' + InForce.trial < TrialBoots + faults
  BY <1>1 DEF BudgetInv
<1>5. save'.op = "stage" /\ save'.sector = 1 => tries' = 0
  BY DEF BudgetInv
<1>6. tries' <= TrialBoots + faults
  BY <1>1 DEF BudgetInv
<1>7. QED
  BY <1>2, <1>3, <1>4, <1>5, <1>6 DEF BudgetInv

\* The record of a save takes the place of the one in force: what a save has
\* under way, and what comes of it.
LEMMA ProgrammedRecord ==
  ASSUME IInv, ProgramFirst
  PROVE  /\ save \in Saves /\ save # NoSave /\ save.sector = 1
         /\ save.was \in Copies /\ save.rec \in Records /\ save.rec # Torn
         /\ InForce = save.was /\ InForce' = save.rec
         /\ save'.op = save.op /\ save'.sector = 2
<1>1. /\ save \in Saves /\ save # NoSave /\ save.sector = 1 /\ save.rec \in Records
      /\ save' = [save EXCEPT !.sector = 2, !.erased = FALSE]
  BY DEF ProgramFirst, IInv, TypeOK, Saves
<1>2. save' \in Saves /\ save'.rec = save.rec /\ save'.sector = 2 /\ save'.op = save.op
  BY <1>1 DEF Saves
<1>3. InForce = save.was /\ InForce' = save.rec
  BY <1>1, <1>2, SavesAreNotNoSave DEF InForce
<1>4. save.was \in Copies /\ save.rec # Torn
  BY <1>1, TornIsNoRecord DEF Saves
<1>5. QED
  BY <1>1, <1>2, <1>3, <1>4

\* The boot is paid for, or the trial is over, or a fresh one begins.
LEMMA ProgramFirstBudget ==
  ASSUME IInv, BudgetInv, ProgramFirst
  PROVE  BudgetInv'
<1> DEFINE was == save.was
           rec == save.rec
<1>1. /\ save \in Saves /\ save.sector = 1 /\ was \in Copies /\ rec \in Records
      /\ InForce = was /\ InForce' = rec /\ save'.op = save.op /\ save'.sector = 2
  BY ProgrammedRecord
<1>2. tries' = tries /\ faults' = faults /\ pc' = pc
  BY DEF ProgramFirst
<1>3. tries \in Nat /\ TrialBoots \in Nat /\ faults \in Nat
  BY BudgetTypes DEF IInv
<1>4. pc # "enter"
  BY <1>1, SavesAreNotNoSave DEF IInv, AppInv, ProgramFirst
<1>5. tries <= TrialBoots + faults
  BY DEF BudgetInv
<1>6. CASE rec.confirmed
  BY <1>1, <1>2, <1>5, <1>6 DEF BudgetInv, Trying
<1>7. CASE ~rec.confirmed /\ save.op = "boot"
  <2>1. was \in Records /\ was # Torn /\ ~was.confirmed /\ rec = OnBoot(was)
    BY <1>1, <1>7 DEF IInv, StepInv, Copies
  <2>2. was.trial \in Nat /\ rec.trial = was.trial - 1
    BY <2>1, <1>7, OnBootType, TrialBootsAssumption DEF Records
  <2>3. tries + was.trial <= TrialBoots + faults
    BY <2>1, <1>1 DEF BudgetInv, Trying
  <2>4. tries' + rec.trial < TrialBoots + faults
    BY <1>2, <1>3, <2>2, <2>3
  <2>5. rec.trial \in Nat
    BY <1>1, <1>3 DEF Records
  <2>6. QED
    BY <1>1, <1>2, <1>3, <1>5, <1>7, <2>4, <2>5 DEF BudgetInv, Trying
<1>8. CASE ~rec.confirmed /\ save.op = "stage"
  <2>1. tries = 0 /\ rec.trial = TrialBoots
    BY <1>1, <1>8 DEF BudgetInv, IInv, StepInv
  <2>2. QED
    BY <1>1, <1>2, <1>3, <1>4, <1>8, <2>1 DEF BudgetInv, Trying, Paid
<1>9. save.op = "confirm" => rec.confirmed
  BY DEF IInv, StepInv
<1>10. QED
  BY <1>1, <1>6, <1>7, <1>8, <1>9 DEF Saves

\* Entering an image that has not reached the relay uses the boot up; without a
\* record on trial the image entered has.
LEMMA EnterSlotBudget ==
  ASSUME IInv, BudgetInv, EnterSlot, TypeOK', InForce' = InForce
  PROVE  BudgetInv'
<1>1. /\ pc = "enter" /\ save = NoSave /\ save' = save /\ faults' = faults /\ pc' # "enter"
      /\ InForce = Loaded
  BY DEF EnterSlot, IInv, AppInv, InForce
<1>2. ~Paid' /\ save'.op # "stage"
  BY <1>1, SavesAreNotNoSave DEF Paid
<1>3. /\ tries \in Nat /\ tries' \in Nat /\ TrialBoots \in Nat /\ InForce.trial \in Nat
      /\ faults \in Nat
  BY BudgetTypes DEF IInv, TypeOK
<1>4. Trying' = Trying /\ (InForce.trial)' = InForce.trial
  BY DEF Trying
<1>5. tries' \in {tries, tries + 1}
  BY <1>3 DEF EnterSlot
<1>6. CASE Trying
  <2>1. tries + InForce.trial < TrialBoots + faults
    BY <1>1, <1>6 DEF BudgetInv, Paid
  <2>2. tries' + InForce.trial <= TrialBoots + faults /\ tries' <= TrialBoots + faults
    BY <1>3, <1>5, <2>1
  <2>3. QED
    BY <1>1, <1>2, <1>4, <2>2 DEF BudgetInv
<1>7. CASE ~Trying
  <2>1. ram.active \in proven
    BY <1>1, <1>7 DEF IInv, AppInv, HomeInv, ReliedOn, Trying
  <2>2. Bootable(ram.active)
    BY <2>1 DEF IInv, HomeInv, Bootable
  <2>3. tries' = tries
    BY <2>1, <2>2 DEF EnterSlot
  <2>4. QED
    BY <1>1, <1>2, <1>4, <1>7, <2>3 DEF BudgetInv
<1>8. QED
  BY <1>6, <1>7

\* A refused write: the loader enters the image without having paid for it, and
\* that is one entry more.
LEMMA RefusedBudget ==
  ASSUME IInv, BudgetInv, ProgramFails, InForce' = InForce
  PROVE  BudgetInv'
<1>1. tries' = tries /\ faults' = faults + 1 /\ save' = NoSave
  BY DEF ProgramFails, SaveReturns
<1>2. tries \in Nat /\ TrialBoots \in Nat /\ faults \in Nat /\ InForce.trial \in Nat
  BY BudgetTypes DEF IInv
<1>3. Trying' = Trying /\ (InForce.trial)' = InForce.trial
  BY DEF Trying
<1>4. tries' <= TrialBoots + faults'
  BY <1>1, <1>2 DEF BudgetInv
<1>5. Trying => tries' + InForce.trial < TrialBoots + faults'
  BY <1>1, <1>2 DEF BudgetInv
<1>6. Trying => tries' + InForce.trial <= TrialBoots + faults'
  BY <1>1, <1>2, <1>5
<1>7. save'.op # "stage"
  BY <1>1, SavesAreNotNoSave
<1>8. QED
  BY <1>3, <1>4, <1>5, <1>6, <1>7 DEF BudgetInv

\* What the other steps do to the tries and to what has been paid for.
LEMMA OtherBudget ==
  ASSUME IInv, BudgetInv, [Next]_vars, ~fellBack', ~ProgramFirst, ~EnterSlot, TypeOK'
  PROVE  BudgetInv'
<1>1. InForce' = InForce
  BY InForceChangesOnlyThere
<1>2. CASE EraseSector
  <2>1. save \in Saves /\ save' = [save EXCEPT !.erased = TRUE]
        /\ tries' = tries /\ pc' = pc /\ faults' = faults
    BY <1>2 DEF EraseSector, IInv, TypeOK
  <2>2. save'.op = save.op /\ save'.sector = save.sector
    BY <2>1 DEF Saves
  <2>3. Paid' => Paid
    BY <2>1, <2>2 DEF Paid
  <2>4. QED
    BY <1>1, <2>1, <2>2, <2>3, BudgetKept
<1>3. CASE ProgramSecond
  <2>1. /\ save \in Saves /\ save # NoSave /\ save.sector = 2 /\ save' = NoSave
        /\ tries' = tries /\ faults' = faults
    BY <1>3 DEF ProgramSecond, SaveReturns, IInv, TypeOK
  <2>2. pc' = "enter" => save.op = "boot" \/ pc = "enter"
    BY <1>3 DEF ProgramSecond, SaveReturns
  <2>3. Paid' => Paid
    BY <2>1, <2>2, SavesAreNotNoSave DEF Paid
  <2>4. QED
    BY <1>1, <2>1, <2>3, BudgetKept, SavesAreNotNoSave
<1>4. CASE LoaderReads
  <2>1. save = NoSave /\ tries' = tries /\ faults' = faults /\ InForce = Loaded
    BY <1>4 DEF LoaderReads, IInv, SaveInv, InForce
  <2>2. Trying => /\ pc' = "loader"
                  /\ save'.op = "boot" /\ save'.sector = 1
    BY <1>4, <2>1 DEF LoaderReads, Trying, BeginSave
  <2>3. save'.op # "stage"
    BY <1>4, <2>1, SavesAreNotNoSave DEF LoaderReads, BeginSave
  <2>4. Trying => ~Paid'
    BY <2>2 DEF Paid
  <2>5. QED
    BY <1>1, <2>1, <2>3, <2>4, BudgetKept
<1>5. CASE PowerCut \/ CrashAndReset \/ AppRestarts \/ RestartIntoStaged
  <2>1. Reset
    BY <1>5 DEF PowerCut, CrashAndReset, AppRestarts, RestartIntoStaged
  <2>2. save' = NoSave /\ pc' = "reset" /\ tries' = tries /\ faults' = faults
    BY <1>5 DEF PowerCut, CrashAndReset, AppRestarts, RestartIntoStaged, Reset
  <2>3. ~Paid' /\ save'.op # "stage"
    BY <2>2, SavesAreNotNoSave DEF Paid
  <2>4. QED
    BY <1>1, <2>2, <2>3, BudgetKept
<1>6. CASE HelloAck \/ TransferCompletes \/ OtaStage
  <2>1. /\ pc = "app" /\ save = NoSave /\ pc' = pc
        /\ tries' \in {0, tries} /\ faults' = faults
    BY <1>6 DEF HelloAck, TransferCompletes, OtaStage, ConsoleTyped, AppFree
  <2>2. save' = save \/ (save'.op = "confirm" /\ save'.sector = 1)
                     \/ (save'.op = "stage" /\ save'.sector = 1 /\ tries' = 0)
    BY <1>6 DEF HelloAck, TransferCompletes, OtaStage, BeginSave
  <2>3. ~Paid' /\ (save'.op = "stage" => tries' = 0)
    BY <2>1, <2>2, SavesAreNotNoSave DEF Paid
  <2>4. QED
    BY <1>1, <2>1, <2>3, BudgetKept
<1>7. CASE \/ Disconnect \/ OtaOffer \/ OtaBegin \/ SpareCleared \/ PayloadArrives
           \/ TransferFails \/ FlashBench \/ OtaSelftest \/ UNCHANGED vars
  <2>1. pc' = pc /\ save' = save /\ tries' \in {0, tries} /\ faults' = faults
    BY <1>7 DEF Disconnect, OtaOffer, OtaBegin, SpareCleared, PayloadArrives, TransferFails,
                FlashBench, OtaSelftest, vars
  <2>2. Paid' => Paid
    BY <2>1 DEF Paid
  <2>3. QED
    BY <1>1, <2>1, <2>2, BudgetKept
<1>8. CASE ProgramFails
  BY <1>1, <1>8, RefusedBudget
<1>9. QED
  BY <1>2, <1>3, <1>4, <1>5, <1>6, <1>7, <1>8 DEF Next, SaveSteps, LoaderSteps

LEMMA BudgetHolds == Spec => [](Void \/ BudgetInv)
<1>1. Init => BudgetInv
  <2>1. Init => copy \in [{1, 2} -> Copies] /\ copy[1] = Torn /\ copy[2] = Torn
    BY DEF Init, Copies
  <2>2. Init => ~Trying /\ tries = 0 /\ faults = 0 /\ save.op # "stage"
    BY <2>1, LoadedType, SavesAreNotNoSave DEF Init, InForce, Trying
  <2>3. QED
    BY <2>2, TrialBootsAssumption DEF BudgetInv
<1>2. ASSUME IInv, IInv', BudgetInv, [Next]_vars, ~Void' PROVE BudgetInv'
  <2> USE <1>2
  <2>1. CASE ProgramFirst
    BY <2>1, ProgramFirstBudget
  <2>2. CASE EnterSlot
    <3>1. ~ProgramFirst
      BY <2>2 DEF EnterSlot, ProgramFirst, IInv, AppInv
    <3>2. QED
      BY <2>2, <3>1, InForceChangesOnlyThere, EnterSlotBudget DEF IInv, Void
  <2>3. CASE ~ProgramFirst /\ ~EnterSlot
    BY <2>3, OtherBudget DEF IInv, Void
  <2>4. QED
    BY <2>1, <2>2, <2>3
<1>3. /\ BasicInv /\ (Void \/ IInv) /\ (Void' \/ IInv') /\ [Next]_vars
      /\ Void \/ BudgetInv
      => Void' \/ BudgetInv'
  <2> SUFFICES ASSUME BasicInv, Void \/ IInv, Void' \/ IInv', [Next]_vars,
                      Void \/ BudgetInv
               PROVE  Void' \/ BudgetInv'
    OBVIOUS
  <2>1. Void => Void'
    BY VoidStays DEF BasicInv
  <2>2. QED
    BY <2>1, <1>2
<1>4. QED
  BY <1>1, <1>3, BasicHolds, InvariantHolds, PTL DEF Spec

\* An image that has not reached the relay is entered no more often than its
\* trial allows and once for each write that was refused, whenever the power was
\* cut, as long as there is a record to count in and nobody stages on trial
\* (rw_ota_state_on_boot, loader main).
THEOREM TrialWithinBudget == Spec => []TrialBudget
<1>1. Void \/ BudgetInv => TrialBudget
  BY DEF BudgetInv, TrialBudget, Void
<1>2. QED
  BY <1>1, BudgetHolds, PTL

-------------------------------------------------------------------------------
\* The sequence of the records.  The application's copy is the record in force,
\* or, after a save of which only the first sector took, the one just before it;
\* so what it saves next is the next in sequence or has the same number.

Precedes(r, inForce) == r = inForce \/ (faults > 0 /\ inForce.seq = NextSeq(r.seq))

Succeeds(r, inForce) ==
  r.seq = NextSeq(inForce.seq) \/ (faults > 0 /\ r.seq = inForce.seq)

SequenceInv ==
  /\ pc = "app" /\ save = NoSave /\ Loaded # Torn => Precedes(ram, Loaded)
  /\ save # NoSave /\ save.sector = 1 /\ save.was # Torn =>
       /\ Succeeds(save.rec, save.was)
       /\ pc = "app" => Precedes(ram, save.was)
  /\ save # NoSave /\ pc = "app" => save.rec.seq = NextSeq(ram.seq)

\* Each of the records that are ever saved is one further in sequence than the
\* one it was made of.
LEMMA RecordsFollow ==
  ASSUME NEW r \in Records
  PROVE  /\ ~r.confirmed => OnBoot(r).seq = NextSeq(r.seq)
         /\ ram = r /\ ~r.confirmed => Confirmed.seq = NextSeq(r.seq)
         /\ ram = r /\ running \in Slots => Staged(Spare).seq = NextSeq(r.seq)
<1>1. ~r.confirmed => OnBoot(r).seq = NextSeq(r.seq)
  BY DEF OnBoot, SpendBoot, Revert, Records
<1>2. ASSUME ram = r, ~r.confirmed PROVE Confirmed.seq = NextSeq(r.seq)
  BY <1>2 DEF Confirmed, Confirm, Records
<1>3. ASSUME ram = r, running \in Slots PROVE Staged(Spare).seq = NextSeq(r.seq)
  <2> DEFINE base == [r EXCEPT !.active = running, !.confirmed = TRUE]
  <2>1. Spare # running
    BY <1>3, OtherSlotType DEF Spare
  <2>2. base \in Records /\ base.active = running /\ base.seq = r.seq
    BY <1>3 DEF Records
  <2>3. Staged(Spare) = [base EXCEPT !.fallback = running, !.active = Spare,
                                     !.trial = TrialBoots, !.confirmed = FALSE,
                                     !.seq = NextSeq(r.seq)]
    BY <1>3, <2>1, <2>2 DEF Staged, Stage
  <2> HIDE DEF base
  <2>4. QED
    BY <2>2, <2>3 DEF Records
<1>4. QED
  BY <1>1, <1>2, <1>3

\* A step that begins no save and gives no application the processor.
LEMMA SequenceKept ==
  ASSUME SequenceInv, faults' = faults, copy' = copy,
         save' = save \/ save' = NoSave,
         pc' = "app" => pc = "app" /\ save' = save /\ ram' = ram,
         pc' = "app" \/ save' = NoSave \/ pc' = pc
  PROVE  SequenceInv'
<1>1. Loaded' = Loaded
  BY LoadedUnchanged
<1>2. QED
  BY <1>1 DEF SequenceInv, Precedes, Succeeds

\* The loader's save.
LEMMA BootSaveBegun ==
  ASSUME SequenceInv, NEW rec, BeginSave("boot", rec), pc' # "app",
         Loaded # Torn => rec.seq = NextSeq(Loaded.seq)
  PROVE  SequenceInv'
<1>1. save'.was = Loaded /\ save'.rec = rec /\ save'.op = "boot"
  BY DEF BeginSave
<1>2. save' # NoSave
  BY <1>1, SavesAreNotNoSave
<1>3. QED
  BY <1>1, <1>2 DEF SequenceInv, Succeeds

\* The application's save, of the record that follows the one it has.
LEMMA AppSaveBegun ==
  ASSUME SequenceInv, NEW op \in {"confirm", "stage"}, NEW rec, BeginSave(op, rec),
         pc = "app", save = NoSave, pc' = pc, ram' = ram, faults' = faults,
         rec.seq = NextSeq(ram.seq)
  PROVE  SequenceInv'
<1>1. save'.was = Loaded /\ save'.rec = rec /\ save'.op = op
  BY DEF BeginSave
<1>2. save' # NoSave
  BY <1>1, SavesAreNotNoSave
<1>3. Loaded # Torn => Precedes(ram, Loaded)
  BY DEF SequenceInv
<1>4. Loaded # Torn => Succeeds(rec, Loaded) /\ Precedes(ram, Loaded)
  BY <1>3 DEF Precedes, Succeeds
<1>5. QED
  BY <1>1, <1>2, <1>4 DEF SequenceInv, Precedes, Succeeds

LEMMA SequenceStep ==
  ASSUME IInv, IInv', SequenceInv, [Next]_vars, ~fellBack'
  PROVE  SequenceInv'
<1>1. CASE EraseSector
  <2>1. save \in Saves /\ save # NoSave /\ save' = [save EXCEPT !.erased = TRUE]
    BY <1>1 DEF EraseSector, IInv, TypeOK
  <2>2. /\ save'.was = save.was /\ save'.rec = save.rec /\ save'.sector = save.sector
        /\ save'.op = save.op
    BY <2>1 DEF Saves
  <2>3. save' # NoSave
    BY <2>1, <2>2, SavesAreNotNoSave DEF Saves
  <2>4. UNCHANGED <<pc, ram, faults>>
    BY <1>1 DEF EraseSector
  <2>5. QED
    BY <2>1, <2>2, <2>3, <2>4 DEF SequenceInv, Precedes, Succeeds
<1>2. CASE ProgramFirst
  <2>1. save'.sector = 2 /\ save # NoSave
    BY <1>2, ProgrammedRecord
  <2>2. save' # NoSave
    BY <2>1, SavesAreNotNoSave
  <2>3. save'.rec = save.rec /\ UNCHANGED <<pc, ram, faults>>
    BY <1>2 DEF ProgramFirst, IInv, TypeOK, Saves
  <2>4. QED
    BY <2>1, <2>2, <2>3 DEF SequenceInv
<1>3. CASE ProgramSecond
  <2>1. /\ save \in Saves /\ save # NoSave /\ save.sector = 2 /\ save' = NoSave
        /\ ram' = save.rec /\ InForce = save.rec
    BY <1>3 DEF ProgramSecond, SaveReturns, IInv, TypeOK, InForce
  <2>2. InForce' = InForce /\ InForce' = Loaded'
    BY <1>3, <2>1, InForceChangesOnlyThere DEF ProgramFirst, InForce
  <2>3. QED
    BY <2>1, <2>2 DEF SequenceInv, Precedes
<1>4. CASE ProgramFails
  <2>1. /\ save \in Saves /\ save # NoSave /\ save' = NoSave /\ faults' = faults + 1
        /\ save.sector \in {1, 2}
    BY <1>4 DEF ProgramFails, SaveReturns, IInv, TypeOK, Saves
  <2>2. InForce' = InForce /\ InForce' = Loaded'
    <3>1. ~ProgramFirst
      BY <2>1, ProgrammedRecord DEF NoSave
    <3>2. QED
      BY <2>1, <3>1, InForceChangesOnlyThere DEF InForce
  <2>3. faults' > 0
    BY <2>1, BudgetTypes DEF IInv
  <2>4. CASE pc' = "app"
    <3>1. save.op # "boot"
      BY <1>4, <2>4 DEF ProgramFails, SaveReturns
    <3>2. pc = "app" /\ ram' = ram
      BY <1>4, <2>1, <3>1 DEF ProgramFails, SaveReturns, IInv, SaveInv
    <3>3. CASE save.sector = 1
      <4>1. Loaded' = save.was
        BY <2>1, <2>2, <3>3 DEF InForce
      <4>2. save.was # Torn => ram = save.was \/ save.was.seq = NextSeq(ram.seq)
        BY <2>1, <3>2, <3>3 DEF SequenceInv, Precedes
      <4>3. QED
        BY <2>1, <2>3, <3>2, <4>1, <4>2 DEF SequenceInv, Precedes
    <3>4. CASE save.sector = 2
      <4>1. Loaded' = save.rec
        BY <2>1, <2>2, <3>4 DEF InForce
      <4>2. save.rec.seq = NextSeq(ram.seq)
        BY <2>1, <3>2 DEF SequenceInv
      <4>3. QED
        BY <2>1, <2>3, <3>2, <4>1, <4>2 DEF SequenceInv, Precedes
    <3>5. QED
      BY <2>1, <3>3, <3>4
  <2>5. CASE pc' # "app"
    BY <2>1, <2>5 DEF SequenceInv
  <2>6. QED
    BY <2>4, <2>5
<1>5. CASE LoaderReads
  <2>1. save = NoSave /\ Loaded \in Copies /\ pc' # "app"
    BY <1>5, LoadedType DEF LoaderReads, IInv, TypeOK, SaveInv
  <2>2. CASE UNCHANGED save
    BY <2>1, <2>2 DEF SequenceInv
  <2>3. CASE Loaded # Torn /\ ~Loaded.confirmed /\ BeginSave("boot", OnBoot(Loaded))
    <3>1. OnBoot(Loaded).seq = NextSeq(Loaded.seq)
      BY <2>1, <2>3, RecordsFollow DEF Copies
    <3>2. QED
      BY <2>1, <2>3, <3>1, BootSaveBegun
  <2>4. QED
    BY <1>5, <2>2, <2>3 DEF LoaderReads
<1>6. CASE EnterSlot
  <2>1. save = NoSave /\ save' = save /\ Loaded' = Loaded
    BY <1>6, LoadedUnchanged DEF EnterSlot, IInv, AppInv
  <2>2. pc' = "app" /\ Loaded # Torn => ram' = Loaded
    BY <1>6 DEF EnterSlot
  <2>3. QED
    BY <2>1, <2>2 DEF SequenceInv, Precedes
<1>7. CASE PowerCut \/ CrashAndReset \/ AppRestarts \/ RestartIntoStaged
  <2>1. save' = NoSave /\ pc' = "reset"
    BY <1>7 DEF PowerCut, CrashAndReset, AppRestarts, RestartIntoStaged, Reset
  <2>2. QED
    BY <2>1 DEF SequenceInv
<1>8. CASE HelloAck
  <2>1. AppFree /\ UNCHANGED <<copy, pc, ram, faults>>
    BY <1>8 DEF HelloAck
  <2>2. pc = "app" /\ save = NoSave /\ ram \in Records
    BY <2>1, FreeApp
  <2>3. CASE OnTrial
    <3>1. Confirmed.seq = NextSeq(ram.seq)
      BY <2>2, <2>3, RecordsFollow DEF OnTrial
    <3>2. QED
      BY <1>8, <2>1, <2>2, <2>3, <3>1, AppSaveBegun DEF HelloAck
  <2>4. CASE ~OnTrial
    BY <1>8, <2>1, <2>4, SequenceKept DEF HelloAck
  <2>5. QED
    BY <2>3, <2>4
<1>9. CASE TransferCompletes \/ OtaStage
  <2>1. AppFree /\ BeginSave("stage", Staged(Spare)) /\ UNCHANGED <<pc, ram, faults>>
    BY <1>9 DEF TransferCompletes, OtaStage, ConsoleTyped, SpareToWrite
  <2>2. pc = "app" /\ save = NoSave /\ ram \in Records /\ running \in Slots
    BY <2>1, FreeApp
  <2>3. Staged(Spare).seq = NextSeq(ram.seq)
    BY <2>2, RecordsFollow
  <2>4. QED
    BY <2>1, <2>2, <2>3, AppSaveBegun
<1>10. CASE \/ Disconnect \/ OtaOffer \/ OtaBegin \/ SpareCleared \/ PayloadArrives
            \/ TransferFails \/ FlashBench \/ OtaSelftest \/ UNCHANGED vars
  <2>1. UNCHANGED <<copy, pc, ram, save, faults>>
    BY <1>10 DEF Disconnect, OtaOffer, OtaBegin, SpareCleared, PayloadArrives, TransferFails,
                 FlashBench, OtaSelftest, vars
  <2>2. QED
    BY <2>1, SequenceKept
<1>11. QED
  BY <1>1, <1>2, <1>3, <1>4, <1>5, <1>6, <1>7, <1>8, <1>9, <1>10
     DEF Next, SaveSteps, LoaderSteps

LEMMA SequenceHolds == Spec => [](Void \/ SequenceInv)
<1>1. Init => SequenceInv
  BY DEF Init, SequenceInv
<1>2. /\ BasicInv /\ (Void \/ IInv) /\ (Void' \/ IInv') /\ [Next]_vars
      /\ Void \/ SequenceInv
      => Void' \/ SequenceInv'
  <2> SUFFICES ASSUME BasicInv, Void \/ IInv, Void' \/ IInv', [Next]_vars,
                      Void \/ SequenceInv
               PROVE  Void' \/ SequenceInv'
    OBVIOUS
  <2>1. Void => Void'
    BY VoidStays DEF BasicInv
  <2>2. QED
    BY <2>1, SequenceStep DEF Void
<1>3. QED
  BY <1>1, <1>2, BasicHolds, InvariantHolds, PTL DEF Spec

\* The step that loses the record leaves what the second copy held.
LEMMA LostLeavesSecond ==
  ASSUME IInv, OnlyCopyErased, PowerCut \/ ProgramFails
  PROVE  InForce' = copy[2]
<1>1. save' = NoSave /\ copy' = copy
  BY DEF PowerCut, Reset, ProgramFails, SaveReturns
<1>2. save # NoSave /\ save.sector = 1 /\ save.erased
  BY SavesAreNotNoSave DEF OnlyCopyErased
<1>3. copy[1] = Torn
  BY <1>2 DEF IInv, SaveInv
<1>4. Loaded = copy[2]
  BY <1>3, LoadedType DEF IInv, TypeOK
<1>5. QED
  BY <1>1, <1>4, LoadedUnchanged DEF InForce

\* A record in force stays until the next one in sequence takes its place, or,
\* once a write was refused, another one of the same number, from whichever
\* program and whatever moment the power is cut at; until it is lost, and that
\* leaves what the second copy held and takes two losses; nothing is said once
\* OTA_SELFTEST or OTA_STAGE was typed on trial (rw_ota_flash_save,
\* rw_ota_state_pick, rw_ota_stage).
THEOREM NeverGoesBack == Spec => RecordNeverGoesBack
<1>1. ASSUME IInv, SequenceInv, [Next]_vars, ~fellBack', InForce # Torn, InForce' # InForce
      PROVE  InForce' # Torn /\ Succeeds(InForce', InForce)
  <2>1. ProgramFirst
    BY <1>1, InForceChangesOnlyThere
  <2>2. /\ save # NoSave /\ save.sector = 1 /\ save.rec # Torn
        /\ InForce = save.was /\ InForce' = save.rec
    BY <1>1, <2>1, ProgrammedRecord
  <2>3. QED
    BY <1>1, <2>2 DEF SequenceInv
<1>2. ASSUME IInv, [Next]_vars, ~fellBack, fellBack'
      PROVE  InForce' = copy[2]
  <2>1. OnlyCopyErased /\ (PowerCut \/ ProgramFails)
    BY <1>2, FellBackStays DEF IInv, TypeOK
  <2>2. QED
    BY <1>2, <2>1, LostLeavesSecond
<1>3. /\ BasicInv
      /\ Void \/ IInv
      /\ Void \/ SequenceInv
      /\ (meddled \/ (fellBack => cuts + faults > 1))'
      /\ [Next]_vars
      => [InForce # Torn /\ InForce' # InForce /\ ~fellBack /\ ~meddled =>
            IF fellBack' THEN InForce' = copy[2] /\ cuts' + faults' > 1
            ELSE /\ InForce' # Torn
                 /\ \/ InForce'.seq = NextSeq(InForce.seq)
                    \/ faults > 0 /\ InForce'.seq = InForce.seq]_vars
  BY <1>1, <1>2, FellBackStays, VoidStays DEF Succeeds, Void, BasicInv, TypeOK
<1>4. QED
  BY <1>3, BasicHolds, InvariantHolds, SequenceHolds, LossHolds, PTL DEF Spec, RecordNeverGoesBack
===============================================================================
