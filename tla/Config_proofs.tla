---------------------------- MODULE Config_proofs -----------------------------
(***************************************************************************)
(* The stored configuration, for every set of fields, every width of the   *)
(* sequence number and any number of inputs, faults and power cuts: the    *)
(* two sectors stay in order, a save is all or nothing, the device runs on *)
(* what it would boot with, a reset keeps the token and nothing else, and  *)
(* the enrolled flag survives the commits.                                 *)
(***************************************************************************)
EXTENDS Config, TLAPS

\* A sector that does not read holds nothing.
BlankInv == \A s \in Slots : ~Reads(flash, s) => flash[s] = Blank

\* Nothing is being written in a device without power.
DownInv == power = "down" => job = Idle

Saving == job.phase \in {"write", "program"}

Record == [seq |-> job.seq, cfg |-> job.cfg]

\* While a save runs the other sector is the one before it: its number comes just
\* before the record's, and the sector being written is blank, holds an older
\* record still, or, on a second attempt, the record itself.
SaveInv ==
  Saving =>
    /\ Reads(flash, OtherSlot(job.slot)) => job.seq = NextSeq(flash[OtherSlot(job.slot)].seq)
    /\ Reads(flash, job.slot) =>
         \/ flash[job.slot] = Record /\ ~job.again
         \/ /\ Reads(flash, OtherSlot(job.slot))
            /\ flash[OtherSlot(job.slot)].seq = NextSeq(flash[job.slot].seq)
    /\ job.phase = "program" => ~Reads(flash, job.slot)

\* What each kind of write carries of the configuration the device runs on.
KindInv ==
  job.kind \in {"commit", "portal", "persist"} =>
    /\ Saving
    /\ job.cfg.enrolled = live.enrolled
    /\ job.kind = "persist" => job.cfg = live

\* A reset writes back a token, into A, with B blank.
ResetInv ==
  job.kind = "reset" =>
    /\ job.cfg = Identity(job.cfg)
    /\ Saving => job.slot = "A" /\ ~Reads(flash, "B")
    /\ outcome # "failed" => job.cfg.token = live.token

LiveInv ==
  Ready /\ outcome # "failed" =>
    /\ live.token = Boots(flash).token
    /\ ~pending => live = Boots(flash)

\* In setup mode nobody sets the enrolled flag of either copy.
SetupInv == setup /\ power = "up" => portal.cfg.enrolled = live.enrolled

IInv ==
  /\ TypeOK
  /\ BlankInv
  /\ DownInv
  /\ SlotsAreNeighbours
  /\ SaveInv
  /\ KindInv
  /\ ResetInv
  /\ LiveInv
  /\ SetupInv

(* ---- The sequence numbers and the winner ----------------------------------- *)

LEMMA NextSeqType == ASSUME NEW seq \in 0 .. SeqMod - 1
                     PROVE  NextSeq(seq) \in 0 .. SeqMod - 1
BY SeqModAssumption DEF NextSeq

\* The next number is newer, also across the wrap, and never the other way.
LEMMA NextIsNewer ==
  ASSUME NEW seq \in 0 .. SeqMod - 1
  PROVE  Newer(NextSeq(seq), seq) /\ ~Newer(seq, NextSeq(seq))
<1>0. SeqMod \in Nat /\ SeqMod > 3 /\ (SeqMod - 1) \div 2 \in 1 .. SeqMod - 2
  BY SeqModAssumption
<1>1. CASE seq + 1 < SeqMod
  <2>1. NextSeq(seq) = seq + 1
    BY <1>0, <1>1 DEF NextSeq
  <2>2. (seq + 1 - seq) % SeqMod = 1 /\ (seq - (seq + 1)) % SeqMod = SeqMod - 1
    BY <1>0
  <2>3. QED
    BY <1>0, <2>1, <2>2 DEF Newer
<1>2. CASE seq = SeqMod - 1
  <2>1. NextSeq(seq) = 0
    BY <1>0, <1>2 DEF NextSeq
  <2>2. (0 - seq) % SeqMod = 1 /\ (seq - 0) % SeqMod = SeqMod - 1
    BY <1>0, <1>2
  <2>3. QED
    BY <1>0, <2>1, <2>2 DEF Newer
<1>3. QED
  BY <1>0, <1>1, <1>2

LEMMA OtherSlotType ==
  ASSUME NEW s \in Slots
  PROVE  OtherSlot(s) \in Slots /\ OtherSlot(s) # s /\ OtherSlot(OtherSlot(s)) = s
BY DEF OtherSlot, Slots

\* The sector that alone reads, or whose number comes next, is in force.
THEOREM NextWins ==
  ASSUME NEW f \in [Slots -> Sectors], NEW s \in Slots, Reads(f, s),
         Reads(f, OtherSlot(s)) => f[s].seq = NextSeq(f[OtherSlot(s)].seq)
  PROVE  Winner(f) = s /\ Boots(f) = f[s].cfg
<1>1. ASSUME NEW t \in Slots, Reads(f, t)
      PROVE  f[t].seq \in 0 .. SeqMod - 1
  BY <1>1 DEF Reads, Sectors
<1>2. Winner(f) = s
  <2>1. CASE s = "A"
    <3>1. OtherSlot(s) = "B"
      BY <2>1 DEF OtherSlot
    <3>2. Reads(f, "B") => ~Newer(f["B"].seq, f["A"].seq)
      BY <1>1, <2>1, <3>1, NextIsNewer DEF Slots
    <3>3. QED
      BY <2>1, <3>2 DEF Winner
  <2>2. CASE s = "B"
    <3>1. OtherSlot(s) = "A"
      BY <2>2 DEF OtherSlot
    <3>2. Reads(f, "A") => Newer(f["B"].seq, f["A"].seq)
      BY <1>1, <2>2, <3>1, NextIsNewer DEF Slots
    <3>3. QED
      BY <2>2, <3>2 DEF Winner
  <2>3. QED
    BY <2>1, <2>2 DEF Slots
<1>3. s # "none"
  BY DEF Slots
<1>4. QED
  BY <1>2, <1>3 DEF Boots

\* What is in force reads, and nothing is in force only when nothing reads.
LEMMA WinnerReads ==
  ASSUME NEW f
  PROVE  /\ Winner(f) \in Slots \cup {"none"}
         /\ Winner(f) \in Slots <=> Winner(f) # "none"
         /\ Winner(f) \in Slots => Reads(f, Winner(f))
         /\ Winner(f) = "none" <=> ~Reads(f, "A") /\ ~Reads(f, "B")
         /\ Winner(f) = "none" => Boots(f) = NewConfig
         /\ Winner(f) # "none" => Boots(f) = f[Winner(f)].cfg
BY DEF Winner, Boots, Slots

LEMMA NewConfigType == NewConfig \in Configs
BY FieldsAssumption DEF NewConfig, Configs

LEMMA BlankType == Blank \in Sectors
BY NewConfigType DEF Blank, Sectors

LEMMA BootsType ==
  ASSUME NEW f \in [Slots -> Sectors]
  PROVE  Boots(f) \in Configs
<1>1. CASE Winner(f) = "none"
  BY <1>1, NewConfigType DEF Boots
<1>2. CASE Winner(f) # "none"
  <2>1. f[Winner(f)] \in Sectors
    BY <1>2, WinnerReads
  <2>2. QED
    BY <1>2, <2>1 DEF Boots, Sectors
<1>3. QED
  BY <1>1, <1>2

(* ---- The writes ---------------------------------------------------------------- *)

LEMMA AtWork ==
  ASSUME TypeOK, job.phase \in Phases
  PROVE  job \in Jobs /\ job # Idle
BY DEF TypeOK, Phases, Idle

LEMMA RecordType == ASSUME TypeOK, Saving PROVE Record \in Sectors /\ job.slot \in Slots
<1>1. job \in Jobs
  BY AtWork DEF Saving, Phases
<1>2. QED
  BY <1>1 DEF Record, Sectors, Jobs

\* A new save aims at the sector that is not in force, under the number that
\* comes next.
LEMMA SaveJobFits ==
  ASSUME TypeOK, SlotsAreNeighbours, NEW kind \in Kinds, NEW cfg \in Configs
  PROVE  /\ SaveJob(kind, cfg) \in Jobs
         /\ SaveJob(kind, cfg).kind = kind /\ SaveJob(kind, cfg).cfg = cfg
         /\ SaveJob(kind, cfg).phase = "write" /\ SaveJob(kind, cfg).again
         /\ Reads(flash, OtherSlot(SaveJob(kind, cfg).slot)) =>
              SaveJob(kind, cfg).seq = NextSeq(flash[OtherSlot(SaveJob(kind, cfg).slot)].seq)
         /\ Reads(flash, SaveJob(kind, cfg).slot) =>
              /\ Reads(flash, OtherSlot(SaveJob(kind, cfg).slot))
              /\ flash[OtherSlot(SaveJob(kind, cfg).slot)].seq
                   = NextSeq(flash[SaveJob(kind, cfg).slot].seq)
<1>1. ASSUME NEW t \in Slots, Reads(flash, t)
      PROVE  flash[t].seq \in 0 .. SeqMod - 1
  BY <1>1 DEF TypeOK, Reads, Sectors
<1>2. /\ Target(flash) \in Slots
      /\ FreshSeq(flash) \in 0 .. SeqMod - 1
      /\ Reads(flash, OtherSlot(Target(flash))) =>
           FreshSeq(flash) = NextSeq(flash[OtherSlot(Target(flash))].seq)
      /\ Reads(flash, Target(flash)) =>
           /\ Reads(flash, OtherSlot(Target(flash)))
           /\ flash[OtherSlot(Target(flash))].seq = NextSeq(flash[Target(flash)].seq)
  <2>1. CASE Winner(flash) = "none"
    <3>1. ~Reads(flash, "A") /\ ~Reads(flash, "B")
      BY <2>1, WinnerReads
    <3>2. Target(flash) = "A" /\ FreshSeq(flash) = 1
      BY <2>1 DEF Target, FreshSeq
    <3>3. 1 \in 0 .. SeqMod - 1
      BY SeqModAssumption
    <3>4. QED
      BY <3>1, <3>2, <3>3 DEF OtherSlot, Slots
  <2>2. CASE Winner(flash) = "A"
    <3>1. Target(flash) = "B" /\ FreshSeq(flash) = NextSeq(flash["A"].seq)
      BY <2>2 DEF Target, FreshSeq
    <3>2. Reads(flash, "A") /\ "A" \in Slots /\ "B" \in Slots
      BY <2>2, WinnerReads DEF Slots
    <3>3. ASSUME Reads(flash, "B") PROVE flash["A"].seq = NextSeq(flash["B"].seq)
      <4>1. ~Newer(flash["B"].seq, flash["A"].seq)
        BY <2>2, <3>2, <3>3 DEF Winner
      <4>2. flash["B"].seq # NextSeq(flash["A"].seq)
        BY <1>1, <3>2, <4>1, NextIsNewer
      <4>3. QED
        BY <3>2, <3>3, <4>2 DEF SlotsAreNeighbours
    <3>4. NextSeq(flash["A"].seq) \in 0 .. SeqMod - 1
      BY <1>1, <3>2, NextSeqType
    <3>5. OtherSlot("B") = "A"
      BY DEF OtherSlot
    <3>6. QED
      BY <3>1, <3>2, <3>3, <3>4, <3>5
  <2>3. CASE Winner(flash) = "B"
    <3>1. Target(flash) = "A" /\ FreshSeq(flash) = NextSeq(flash["B"].seq)
      BY <2>3 DEF Target, FreshSeq
    <3>2. Reads(flash, "B") /\ "A" \in Slots /\ "B" \in Slots
      BY <2>3, WinnerReads DEF Slots
    <3>3. ASSUME Reads(flash, "A") PROVE flash["B"].seq = NextSeq(flash["A"].seq)
      <4>1. Newer(flash["B"].seq, flash["A"].seq)
        BY <2>3, <3>3 DEF Winner
      <4>2. flash["A"].seq # NextSeq(flash["B"].seq)
        BY <1>1, <3>2, <4>1, NextIsNewer
      <4>3. QED
        BY <3>2, <3>3, <4>2 DEF SlotsAreNeighbours
    <3>4. NextSeq(flash["B"].seq) \in 0 .. SeqMod - 1
      BY <1>1, <3>2, NextSeqType
    <3>5. OtherSlot("A") = "B"
      BY DEF OtherSlot
    <3>6. QED
      BY <3>1, <3>2, <3>3, <3>4, <3>5
  <2>4. QED
    BY <2>1, <2>2, <2>3, WinnerReads DEF Slots
<1>3. SaveJob(kind, cfg) = [kind |-> kind, phase |-> "write", cfg |-> cfg,
                            slot |-> Target(flash), seq |-> FreshSeq(flash), again |-> TRUE]
  BY DEF SaveJob
<1>4. SaveJob(kind, cfg) \in Jobs
  BY <1>2, <1>3 DEF Jobs, Phases
<1>5. QED
  BY <1>2, <1>3, <1>4

\* What a step can do to the two sectors.
FlashMoves ==
  \/ UNCHANGED flash
  \/ job.phase \in {"write", "program"} /\ Put(Blank)
  \/ job.phase = "program" /\ Put(Record)
  \/ /\ job.phase \in {"eraseB", "eraseA"}
     /\ flash' = [flash EXCEPT ![Erases(job.phase)] = Blank]

LEMMA StepMovesFlash == ASSUME Next PROVE FlashMoves
<1>1. CASE FlashStep
  BY <1>1 DEF FlashStep, FlashMoves, EraseTarget, Program, Locked, NotVerified,
              EraseSlot, EraseRefused, ProveErased, Record
<1>2. CASE Host
  BY <1>2 DEF FlashMoves, Host, Set, SetWifiRefused, Commit, PortalSet, PortalCommit,
              FactoryReset
<1>3. CASE PortalRestart \/ Enrolled \/ Adopted \/ Persist \/ Boot \/ PowerCut
  BY <1>3 DEF FlashMoves, PortalRestart, Enrolled, Adopted, Persist, Boot, PowerCut
<1>4. QED
  BY <1>1, <1>2, <1>3 DEF Next

LEMMA SectorsStep ==
  ASSUME TypeOK, BlankInv, SlotsAreNeighbours, SaveInv, Next
  PROVE  /\ flash' \in [Slots -> Sectors]
         /\ BlankInv'
         /\ SlotsAreNeighbours'
<1>0. FlashMoves
  BY StepMovesFlash
<1>1. flash \in [Slots -> Sectors]
  BY DEF TypeOK
<1>2. CASE UNCHANGED flash
  BY <1>1, <1>2 DEF BlankInv, SlotsAreNeighbours, Reads
<1>3. ASSUME NEW s \in Slots, flash' = [flash EXCEPT ![s] = Blank]
      PROVE  /\ flash' \in [Slots -> Sectors]
             /\ BlankInv'
             /\ SlotsAreNeighbours'
  <2>1. ~Reads(flash', s)
    BY <1>1, <1>3 DEF Reads, Blank
  <2>2. \A t \in Slots : t # s => flash'[t] = flash[t]
    BY <1>1, <1>3
  <2>3. QED
    BY <1>1, <1>3, <2>1, <2>2, BlankType DEF BlankInv, SlotsAreNeighbours, Reads, Slots
<1>4. CASE job.phase = "program" /\ Put(Record)
  <2>1. Record \in Sectors /\ job.slot \in Slots /\ job \in Jobs
    BY <1>4, RecordType, AtWork DEF Saving, Phases
  <2>2. flash' = [flash EXCEPT ![job.slot] = Record]
    BY <1>4 DEF Put
  <2>3. Reads(flash', job.slot) /\ flash'[job.slot].seq = job.seq
    BY <1>1, <2>1, <2>2, SeqModAssumption DEF Reads, Record, Jobs, NoSeq
  <2>4. \A t \in Slots : t # job.slot => flash'[t] = flash[t]
    BY <1>1, <2>2
  <2>5. BlankInv'
    BY <2>3, <2>4 DEF BlankInv, Reads
  <2>6. Reads(flash, OtherSlot(job.slot)) => job.seq = NextSeq(flash[OtherSlot(job.slot)].seq)
    BY <1>4 DEF SaveInv, Saving
  <2>7. SlotsAreNeighbours'
    BY <2>1, <2>3, <2>4, <2>6 DEF SlotsAreNeighbours, Reads, Slots, OtherSlot
  <2>8. QED
    BY <1>1, <2>1, <2>2, <2>5, <2>7
<1>5. CASE job.phase \in {"write", "program"} /\ Put(Blank)
  <2>1. job.slot \in Slots
    BY <1>5, RecordType DEF Saving
  <2>2. QED
    BY <1>3, <1>5, <2>1 DEF Put
<1>6. CASE /\ job.phase \in {"eraseB", "eraseA"}
           /\ flash' = [flash EXCEPT ![Erases(job.phase)] = Blank]
  <2>1. Erases(job.phase) \in Slots
    BY DEF Erases, Slots
  <2>2. QED
    BY <1>3, <1>6, <2>1
<1>7. QED
  BY <1>0, <1>2, <1>4, <1>5, <1>6 DEF FlashMoves

(* ---- Types ------------------------------------------------------------------------- *)

TypeCopies == live \in Configs /\ stage \in Stages /\ portal \in Stages

TypeFlags ==
  /\ power \in {"up", "down"}
  /\ setup \in BOOLEAN /\ pending \in BOOLEAN /\ leaving \in BOOLEAN
  /\ outcome \in {"none", "ok", "failed"}

LEMMA TypeParts ==
  TypeOK <=> /\ flash \in [Slots -> Sectors]
             /\ TypeCopies
             /\ TypeFlags
             /\ job \in Jobs \cup {Idle}
             /\ left \in Budgets
BY DEF TypeOK, TypeCopies, TypeFlags

LEMMA SettingsType ==
  ASSUME NEW cfg \in Configs
  PROVE  /\ SetWifi(cfg) \subseteq Configs /\ SetRelay(cfg) \subseteq Configs
         /\ SetEmail(cfg) \subseteq Configs /\ SetToken(cfg) \subseteq Configs
         /\ EnsureToken(cfg) \subseteq Configs
         /\ \A n \in Networks : [cfg EXCEPT !.ssid = n] \in Configs
         /\ [cfg EXCEPT !.email = None] \in Configs
         /\ \A b \in BOOLEAN : [cfg EXCEPT !.enrolled = b] \in Configs
         /\ Identity(cfg) \in Configs
<1>1. SetWifi(cfg) \subseteq Configs
  <2> DEFINE Joining(n) == {[cfg EXCEPT !.ssid = n, !.psk = k] : k \in Keys \cup {None}}
  <2>1. \A n \in Networks : Joining(n) \subseteq Configs
    BY DEF Configs
  <2>2. SetWifi(cfg) = UNION {Joining(n) : n \in Networks}
    BY DEF SetWifi
  <2> HIDE DEF Joining
  <2>3. QED
    BY <2>1, <2>2
<1>2. Identity(cfg) \in Configs
  <2>1. cfg.token \in Tokens \cup {None}
    BY DEF Configs
  <2>2. QED
    BY <2>1, NewConfigType DEF Identity, Configs
<1>3. SetRelay(cfg) \subseteq Configs /\ SetToken(cfg) \subseteq Configs
  BY DEF SetRelay, SetToken, Configs
<1>4. SetEmail(cfg) \subseteq Configs /\ EnsureToken(cfg) \subseteq Configs
  BY <1>3, FieldsAssumption DEF SetEmail, EnsureToken, Configs
<1>5. /\ \A n \in Networks : [cfg EXCEPT !.ssid = n] \in Configs
      /\ [cfg EXCEPT !.email = None] \in Configs
      /\ \A b \in BOOLEAN : [cfg EXCEPT !.enrolled = b] \in Configs
  BY DEF Configs
<1>6. QED
  BY <1>1, <1>2, <1>3, <1>4, <1>5

LEMMA CopiesStep ==
  ASSUME TypeOK, Next
  PROVE  TypeCopies'
<1>0. TypeCopies
  BY DEF TypeOK, TypeCopies
<1>1. CASE FlashStep
  <2>0. job \in Jobs
    BY <1>1, AtWork DEF FlashStep, EraseTarget, Program, Locked, NotVerified, EraseSlot,
                        EraseRefused, ProveErased, Phases
  <2>1. CASE Succeed
    <3>1. job.cfg \in Configs /\ [cfg |-> job.cfg, dirty |-> FALSE] \in Stages
      BY <2>0 DEF Jobs, Stages
    <3>2. QED
      BY <1>0, <2>1, <3>1 DEF Succeed, Apply, TypeCopies
  <2>2. CASE UNCHANGED <<live, stage, portal>>
    BY <1>0, <2>2 DEF TypeCopies
  <2>3. QED
    BY <1>1, <2>1, <2>2 DEF FlashStep, EraseTarget, Program, Locked, NotVerified, EraseSlot,
                            EraseRefused, ProveErased, Fail, GoOn, RetryOrFail
<1>2. CASE Set
  <2>1. PICK cfg \in SetWifi(stage.cfg) \cup SetRelay(stage.cfg) \cup SetEmail(stage.cfg)
                     \cup SetToken(stage.cfg) : stage' = Staged(cfg)
    BY <1>2 DEF Set
  <2>2. cfg \in Configs
    BY <1>0, <2>1, SettingsType DEF TypeCopies, Stages
  <2>3. QED
    BY <1>0, <1>2, <2>1, <2>2 DEF Set, Staged, TypeCopies, Stages
<1>3. CASE SetWifiRefused
  <2>1. PICK n \in Networks : stage' = [stage EXCEPT !.cfg.ssid = n]
    BY <1>3 DEF SetWifiRefused
  <2>2. stage' = [stage EXCEPT !.cfg = [stage.cfg EXCEPT !.ssid = n]]
    BY <2>1
  <2>3. [stage.cfg EXCEPT !.ssid = n] \in Configs
    BY <1>0, SettingsType DEF TypeCopies, Stages
  <2>4. stage' \in Stages
    BY <1>0, <2>2, <2>3 DEF TypeCopies, Stages
  <2>5. QED
    BY <1>0, <1>3, <2>4 DEF SetWifiRefused, TypeCopies
<1>4. CASE PortalSet
  <2>1. PICK cfg \in SetWifi(portal.cfg) \cup SetRelay(portal.cfg) \cup SetEmail(portal.cfg) :
          portal' = Staged(cfg)
    BY <1>4 DEF PortalSet
  <2>2. cfg \in Configs
    BY <1>0, <2>1, SettingsType DEF TypeCopies, Stages
  <2>3. QED
    BY <1>0, <1>4, <2>1, <2>2 DEF PortalSet, Staged, TypeCopies, Stages
<1>5. CASE Enrolled \/ Adopted
  BY <1>0, <1>5, SettingsType DEF Enrolled, Adopted, TypeCopies
<1>6. CASE Boot
  <2>1. Boots(flash) \in Configs
    BY BootsType DEF TypeOK
  <2>2. QED
    BY <1>6, <2>1 DEF Boot, TypeCopies, Stages
<1>7. CASE Commit \/ PortalCommit \/ FactoryReset \/ PortalRestart \/ Persist \/ PowerCut
  BY <1>0, <1>7 DEF Commit, PortalCommit, FactoryReset, PortalRestart, Persist, PowerCut,
                    TypeCopies
<1>8. QED
  BY <1>1, <1>2, <1>3, <1>4, <1>5, <1>6, <1>7 DEF Next, Host

LEMMA FlagsStep ==
  ASSUME TypeOK, Next
  PROVE  TypeFlags'
<1>0. TypeFlags
  BY DEF TypeOK, TypeFlags
<1>1. CASE FlashStep
  <2>1. power' \in {"up", "down"} /\ outcome' \in {"none", "ok", "failed"}
    BY <1>0, <1>1 DEF FlashStep, EraseTarget, Program, Locked, NotVerified, EraseSlot,
        EraseRefused, ProveErased, Succeed, Fail, GoOn, RetryOrFail, TypeFlags
  <2>2. setup' \in BOOLEAN /\ pending' \in BOOLEAN
    BY <1>0, <1>1, Zenon DEF FlashStep, EraseTarget, Program, Locked, NotVerified, EraseSlot,
        EraseRefused, ProveErased, TypeFlags
  <2>3. leaving' \in BOOLEAN
    BY <1>0, <1>1, Zenon DEF FlashStep, EraseTarget, Program, Locked, NotVerified, EraseSlot,
        EraseRefused, ProveErased, Succeed, Fail, GoOn, RetryOrFail, TypeFlags
  <2>4. QED
    BY <2>1, <2>2, <2>3 DEF TypeFlags
<1>2. CASE Host
  BY <1>0, <1>2, Zenon DEF Host, Set, SetWifiRefused, Commit, PortalSet, PortalCommit,
                    FactoryReset, ResetJob, TypeFlags
<1>3. CASE PortalRestart \/ Enrolled \/ Adopted \/ Persist \/ PowerCut
  <2>1. power' \in {"up", "down"} /\ outcome' \in {"none", "ok", "failed"}
    BY <1>0, <1>3 DEF PortalRestart, Enrolled, Adopted, Persist, PowerCut, TypeFlags
  <2>2. setup' \in BOOLEAN /\ pending' \in BOOLEAN /\ leaving' \in BOOLEAN
    BY <1>0, <1>3, Zenon DEF PortalRestart, Enrolled, Adopted, Persist, PowerCut, TypeFlags
  <2>3. QED
    BY <2>1, <2>2 DEF TypeFlags
<1>4. CASE Boot
  <2>1. power' \in {"up", "down"} /\ outcome' \in {"none", "ok", "failed"}
    BY <1>4 DEF Boot
  <2>2. setup' \in BOOLEAN /\ pending' \in BOOLEAN /\ leaving' \in BOOLEAN
    BY <1>4, Zenon DEF Boot
  <2>3. QED
    BY <2>1, <2>2 DEF TypeFlags
<1>5. QED
  BY <1>1, <1>2, <1>3, <1>4 DEF Next

LEMMA BudgetStep ==
  ASSUME TypeOK, Next
  PROVE  left' \in Budgets
<1>0. left \in Budgets
  BY DEF TypeOK
<1>1. ASSUME NEW what \in {"inputs", "faults", "cuts"}, Spend(what)
      PROVE  left' \in Budgets
  BY <1>0, <1>1, BoundsAssumption DEF Spend, Budgets
<1>2. CASE left' = left
  BY <1>0, <1>2
<1>3. CASE FlashStep
  <2>1. left' = left \/ Spend("faults")
    BY <1>3 DEF FlashStep, EraseTarget, Program, Locked, NotVerified, EraseSlot,
                EraseRefused, ProveErased
  <2>2. QED
    BY <1>1, <1>2, <2>1
<1>4. CASE Host \/ Enrolled \/ Adopted
  <2>1. Spend("inputs")
    BY <1>4 DEF Host, Set, SetWifiRefused, Commit, PortalSet, PortalCommit, FactoryReset,
                Enrolled, Adopted
  <2>2. QED
    BY <1>1, <2>1
<1>5. CASE PortalRestart \/ Persist \/ Boot
  BY <1>0, <1>5 DEF PortalRestart, Persist, Boot
<1>6. CASE PowerCut
  BY <1>1, <1>6 DEF PowerCut
<1>7. QED
  BY <1>3, <1>4, <1>5, <1>6 DEF Next

(* ---- The write under way ----------------------------------------------------------- *)

\* No command but a factory reset touches the enrolled flag of a staging buffer.
LEMMA SettingsKeepEnrolled ==
  ASSUME NEW cfg \in Configs,
         NEW c \in SetWifi(cfg) \cup SetRelay(cfg) \cup SetEmail(cfg) \cup EnsureToken(cfg)
  PROVE  c.enrolled = cfg.enrolled
<1>1. CASE c \in SetWifi(cfg)
  <2> DEFINE Joining(n) == {[cfg EXCEPT !.ssid = n, !.psk = k] : k \in Keys \cup {None}}
  <2>1. \A n \in Networks : \A d \in Joining(n) : d.enrolled = cfg.enrolled
    BY DEF Configs
  <2>2. SetWifi(cfg) = UNION {Joining(n) : n \in Networks}
    BY DEF SetWifi
  <2> HIDE DEF Joining
  <2>3. QED
    BY <1>1, <2>1, <2>2
<1>2. CASE c \in SetRelay(cfg)
  BY <1>2 DEF SetRelay, Configs
<1>3. CASE c \in SetEmail(cfg)
  BY <1>3 DEF SetEmail, Configs
<1>4. CASE c \in EnsureToken(cfg)
  BY <1>4 DEF EnsureToken, SetToken, Configs
<1>5. QED
  BY <1>1, <1>2, <1>3, <1>4

\* A commit, a portal's commit or a persist that sets out with its record.
StartsSave ==
  \E kind \in {"commit", "portal", "persist"}, cfg \in Configs :
    /\ job' = SaveJob(kind, cfg)
    /\ cfg.enrolled = live.enrolled
    /\ kind = "persist" => cfg = live

Retries == NotVerified /\ job' = [job EXCEPT !.phase = "write", !.again = FALSE] /\ job.again

ResetWrites ==
  /\ job.phase = "prove" /\ Winner(flash) = "none"
  /\ job' = SaveJob("reset", job.cfg)

\* Every way the write under way can change.
LEMMA JobMoves ==
  ASSUME TypeOK, DownInv, SetupInv, Next
  PROVE  \/ job' = Idle
         \/ /\ UNCHANGED <<power, live, outcome>>
            /\ \/ EraseTarget
               \/ Retries
               \/ EraseSlot
               \/ ResetWrites /\ UNCHANGED flash
               \/ StartsSave /\ power = "up" /\ UNCHANGED flash
               \/ FactoryReset
<1>1. CASE EraseTarget
  BY <1>1 DEF EraseTarget, GoOn
<1>2. CASE Program \/ Locked \/ EraseRefused
  BY <1>2 DEF Program, Locked, EraseRefused, Succeed, Fail
<1>3. CASE NotVerified
  BY <1>3 DEF NotVerified, RetryOrFail, Fail, Retries
<1>4. CASE EraseSlot
  BY <1>4 DEF EraseSlot, GoOn
<1>5. CASE ProveErased
  BY <1>5 DEF ProveErased, Succeed, Fail, ResetWrites
<1>6. CASE Set \/ SetWifiRefused \/ PortalSet \/ PortalRestart \/ Enrolled \/ Adopted
  BY <1>6 DEF Set, SetWifiRefused, PortalSet, PortalRestart, Enrolled, Adopted, Ready
<1>7. CASE Commit
  <2>1. PICK cfg \in EnsureToken(stage.cfg) : job' = SaveJob("commit", CarryRuntimeFlags(cfg))
    BY <1>7 DEF Commit
  <2>2. cfg \in Configs /\ live.enrolled \in BOOLEAN
    BY <2>1, SettingsType DEF TypeOK, Stages, Configs
  <2>3. CarryRuntimeFlags(cfg) \in Configs
    BY <2>2, SettingsType DEF CarryRuntimeFlags
  <2>4. CarryRuntimeFlags(cfg).enrolled = live.enrolled
    BY <2>2 DEF CarryRuntimeFlags, Configs
  <2>5. StartsSave
    BY <2>1, <2>3, <2>4 DEF StartsSave
  <2>6. QED
    BY <1>7, <2>5 DEF Commit, Ready
<1>8. CASE PortalCommit
  <2>1. PICK cfg \in EnsureToken(portal.cfg) : job' = SaveJob("portal", cfg)
    BY <1>8 DEF PortalCommit
  <2>2. portal.cfg \in Configs
    BY DEF TypeOK, Stages
  <2>3. cfg \in Configs /\ cfg.enrolled = portal.cfg.enrolled
    BY <2>1, <2>2, SettingsType, SettingsKeepEnrolled
  <2>4. portal.cfg.enrolled = live.enrolled
    BY <1>8 DEF PortalCommit, Ready, SetupInv
  <2>5. StartsSave
    BY <2>1, <2>3, <2>4 DEF StartsSave
  <2>6. QED
    BY <1>8, <2>5 DEF PortalCommit, Ready
<1>9. CASE Persist
  <2>1. StartsSave
    BY <1>9 DEF Persist, StartsSave, TypeOK
  <2>2. QED
    BY <1>9, <2>1 DEF Persist, Ready
<1>10. CASE FactoryReset
  BY <1>10 DEF FactoryReset, ResetJob
<1>11. CASE Boot
  BY <1>11 DEF Boot, DownInv
<1>12. CASE PowerCut
  BY <1>12 DEF PowerCut
<1>13. QED
  BY <1>1, <1>2, <1>3, <1>4, <1>5, <1>6, <1>7, <1>8, <1>9, <1>10, <1>11, <1>12
     DEF Next, FlashStep, Host

LEMMA JobStep ==
  ASSUME TypeOK, DownInv, SlotsAreNeighbours, SetupInv, Next
  PROVE  job' \in Jobs \cup {Idle} /\ DownInv'
<1>1. CASE job' = Idle
  BY <1>1 DEF DownInv
<1>2. CASE /\ EraseTarget \/ Retries \/ EraseSlot
           /\ UNCHANGED power
  <2>1. job \in Jobs /\ power # "down"
    BY <1>2, AtWork DEF EraseTarget, Retries, NotVerified, EraseSlot, Phases, DownInv
  <2>2. job' \in Jobs
    BY <1>2, <2>1 DEF EraseTarget, Retries, EraseSlot, GoOn, Jobs, Phases
  <2>3. QED
    BY <1>2, <2>1, <2>2 DEF DownInv
<1>3. CASE ResetWrites /\ UNCHANGED power
  <2>1. job \in Jobs /\ power # "down"
    BY <1>3, AtWork DEF ResetWrites, Phases, DownInv
  <2>2. job.cfg \in Configs /\ "reset" \in Kinds
    BY <2>1 DEF Jobs, Kinds
  <2>3. SaveJob("reset", job.cfg) \in Jobs
    BY <2>2, SaveJobFits
  <2>4. QED
    BY <1>3, <2>1, <2>3 DEF ResetWrites, DownInv
<1>4. CASE StartsSave /\ power = "up" /\ UNCHANGED power
  <2>1. PICK kind \in {"commit", "portal", "persist"}, cfg \in Configs : job' = SaveJob(kind, cfg)
    BY <1>4 DEF StartsSave
  <2>2. kind \in Kinds
    BY DEF Kinds
  <2>3. job' \in Jobs
    BY <2>1, <2>2, SaveJobFits
  <2>4. QED
    BY <1>4, <2>3 DEF DownInv
<1>5. CASE FactoryReset
  <2>1. Identity(Boots(flash)) \in Configs
    BY BootsType, SettingsType DEF TypeOK
  <2>2. 1 \in 0 .. SeqMod - 1
    BY SeqModAssumption
  <2>3. QED
    BY <1>5, <2>1, <2>2 DEF FactoryReset, ResetJob, Ready, Jobs, Kinds, Phases, Slots, DownInv
<1>6. QED
  BY <1>1, <1>2, <1>3, <1>4, <1>5, JobMoves

\* While a save runs, only its own sector changes.
LEMMA OtherSectorKept ==
  ASSUME TypeOK, NEW s \in Slots, EraseTarget \/ NotVerified \/ Program, s # job.slot
  PROVE  flash'[s] = flash[s]
BY DEF TypeOK, EraseTarget, NotVerified, Program, Put

LEMMA SaveInvStep ==
  ASSUME TypeOK, DownInv, SlotsAreNeighbours, SaveInv, SetupInv, Next
  PROVE  SaveInv'
<1>1. CASE job' = Idle
  BY <1>1 DEF SaveInv, Saving, Idle
<1>2. CASE EraseTarget
  <2>1. job \in Jobs /\ job.slot \in Slots
    BY <1>2, AtWork DEF EraseTarget, Phases, Jobs
  <2>2. /\ job' = [job EXCEPT !.phase = "program"]
        /\ flash' = [flash EXCEPT ![job.slot] = Blank]
    BY <1>2 DEF EraseTarget, GoOn, Put
  <2>3. job'.slot = job.slot /\ job'.seq = job.seq
    BY <2>1, <2>2 DEF Jobs
  <2>4. ~Reads(flash', job.slot)
    BY <2>1, <2>2 DEF TypeOK, Reads, Blank
  <2>5. flash'[OtherSlot(job.slot)] = flash[OtherSlot(job.slot)]
    BY <1>2, <2>1, OtherSlotType, OtherSectorKept
  <2>6. Reads(flash, OtherSlot(job.slot)) => job.seq = NextSeq(flash[OtherSlot(job.slot)].seq)
    BY <1>2 DEF EraseTarget, SaveInv, Saving
  <2>7. QED
    BY <2>3, <2>4, <2>5, <2>6 DEF SaveInv, Reads
<1>3. CASE Retries
  <2>1. job \in Jobs /\ job.slot \in Slots /\ Saving
    BY <1>3, AtWork DEF Retries, NotVerified, Phases, Jobs, Saving
  <2>2. /\ job' = [job EXCEPT !.phase = "write", !.again = FALSE]
        /\ job.again
    BY <1>3 DEF Retries
  <2>3. job'.slot = job.slot /\ job'.seq = job.seq /\ job'.cfg = job.cfg /\ ~job'.again
        /\ job'.phase = "write"
    BY <2>1, <2>2 DEF Jobs
  <2>4. flash'[OtherSlot(job.slot)] = flash[OtherSlot(job.slot)]
    BY <1>3, <2>1, OtherSlotType, OtherSectorKept DEF Retries
  <2>5. /\ Reads(flash, OtherSlot(job.slot)) =>
             job.seq = NextSeq(flash[OtherSlot(job.slot)].seq)
        /\ Reads(flash, job.slot) =>
             /\ Reads(flash, OtherSlot(job.slot))
             /\ flash[OtherSlot(job.slot)].seq = NextSeq(flash[job.slot].seq)
    BY <2>1, <2>2 DEF SaveInv
  <2>6. \/ flash'[job.slot] = flash[job.slot]
        \/ flash'[job.slot] = Blank
        \/ flash'[job.slot] = Record
    BY <1>3, <2>1 DEF Retries, NotVerified, Put, Record, TypeOK
  <2>7. Record' = Record
    BY <2>3 DEF Record
  <2>8. QED
    BY <2>3, <2>4, <2>5, <2>6, <2>7 DEF SaveInv, Reads, Blank
<1>4. CASE EraseSlot
  <2>1. job \in Jobs
    BY <1>4, AtWork DEF EraseSlot, Phases
  <2>2. job'.phase \in {"eraseA", "prove"}
    BY <1>4, <2>1 DEF EraseSlot, GoOn, Jobs
  <2>3. QED
    BY <2>2 DEF SaveInv, Saving
<1>5. ASSUME NEW kind \in Kinds, NEW cfg \in Configs, job' = SaveJob(kind, cfg), UNCHANGED flash
      PROVE  SaveInv'
  <2>1. /\ job'.phase = "write"
        /\ Reads(flash, OtherSlot(job'.slot)) =>
             job'.seq = NextSeq(flash[OtherSlot(job'.slot)].seq)
        /\ Reads(flash, job'.slot) =>
             /\ Reads(flash, OtherSlot(job'.slot))
             /\ flash[OtherSlot(job'.slot)].seq = NextSeq(flash[job'.slot].seq)
    BY <1>5, SaveJobFits
  <2>2. QED
    BY <1>5, <2>1 DEF SaveInv, Reads
<1>6. CASE ResetWrites /\ UNCHANGED flash
  <2>1. job \in Jobs
    BY <1>6, AtWork DEF ResetWrites, Phases
  <2>2. job.cfg \in Configs /\ "reset" \in Kinds
    BY <2>1 DEF Jobs, Kinds
  <2>3. QED
    BY <1>5, <1>6, <2>2 DEF ResetWrites
<1>7. CASE StartsSave /\ UNCHANGED flash
  <2>1. PICK kind \in {"commit", "portal", "persist"}, cfg \in Configs : job' = SaveJob(kind, cfg)
    BY <1>7 DEF StartsSave
  <2>2. kind \in Kinds
    BY DEF Kinds
  <2>3. QED
    BY <1>5, <1>7, <2>1, <2>2
<1>8. CASE FactoryReset
  BY <1>8 DEF FactoryReset, ResetJob, SaveInv, Saving
<1>9. QED
  BY <1>1, <1>2, <1>3, <1>4, <1>6, <1>7, <1>8, JobMoves

LEMMA KindStep ==
  ASSUME TypeOK, DownInv, SlotsAreNeighbours, KindInv, SetupInv, Next
  PROVE  KindInv'
<1>1. CASE job' = Idle
  BY <1>1 DEF KindInv, Idle
<1>2. CASE /\ EraseTarget \/ Retries
           /\ UNCHANGED live
  <2>1. job \in Jobs
    BY <1>2, AtWork DEF EraseTarget, Retries, NotVerified, Phases
  <2>2. job'.kind = job.kind /\ job'.cfg = job.cfg /\ Saving'
    BY <1>2, <2>1 DEF EraseTarget, Retries, GoOn, Jobs, Saving
  <2>3. QED
    BY <1>2, <2>2 DEF KindInv
<1>3. CASE EraseSlot
  <2>1. job \in Jobs /\ ~Saving
    BY <1>3, AtWork DEF EraseSlot, Phases, Saving
  <2>2. job'.kind = job.kind
    BY <1>3, <2>1 DEF EraseSlot, GoOn, Jobs
  <2>3. QED
    BY <2>1, <2>2 DEF KindInv
<1>4. CASE ResetWrites
  BY <1>4 DEF ResetWrites, SaveJob, KindInv
<1>5. CASE StartsSave /\ UNCHANGED live
  <2>1. PICK kind \in {"commit", "portal", "persist"}, cfg \in Configs :
          /\ job' = SaveJob(kind, cfg)
          /\ cfg.enrolled = live.enrolled
          /\ kind = "persist" => cfg = live
    BY <1>5 DEF StartsSave
  <2>2. job'.kind = kind /\ job'.cfg = cfg /\ job'.phase = "write"
    BY <2>1 DEF SaveJob
  <2>3. QED
    BY <1>5, <2>1, <2>2 DEF KindInv, Saving
<1>6. CASE FactoryReset
  BY <1>6 DEF FactoryReset, ResetJob, KindInv
<1>7. QED
  BY <1>1, <1>2, <1>3, <1>4, <1>5, <1>6, JobMoves

LEMMA IdentityIsStable ==
  ASSUME NEW cfg \in Configs
  PROVE  Identity(Identity(cfg)) = Identity(cfg) /\ Identity(cfg).token = cfg.token
BY DEF Identity, NewConfig

LEMMA ResetStep ==
  ASSUME TypeOK, DownInv, SlotsAreNeighbours, ResetInv, LiveInv, KindInv, SetupInv, Next
  PROVE  ResetInv'
<1>1. CASE job' = Idle
  BY <1>1 DEF ResetInv, Idle
<1>2. CASE /\ EraseTarget \/ Retries
           /\ UNCHANGED <<live, outcome>>
  <2>1. job \in Jobs /\ Saving
    BY <1>2, AtWork DEF EraseTarget, Retries, NotVerified, Phases, Saving
  <2>2. job'.kind = job.kind /\ job'.cfg = job.cfg /\ job'.slot = job.slot
    BY <1>2, <2>1 DEF EraseTarget, Retries, GoOn, Jobs
  <2>3. ASSUME job.slot = "A" PROVE flash'["B"] = flash["B"]
    BY <1>2, <2>3, OtherSectorKept DEF Retries, Slots
  <2>4. QED
    BY <1>2, <2>1, <2>2, <2>3 DEF ResetInv, Reads
<1>3. CASE EraseSlot /\ UNCHANGED <<live, outcome>>
  <2>1. job \in Jobs
    BY <1>3, AtWork DEF EraseSlot, Phases
  <2>2. job'.kind = job.kind /\ job'.cfg = job.cfg /\ ~Saving'
    BY <1>3, <2>1 DEF EraseSlot, GoOn, Jobs, Saving
  <2>3. QED
    BY <1>3, <2>2 DEF ResetInv
<1>4. CASE ResetWrites /\ UNCHANGED <<flash, live, outcome>>
  <2>1. job \in Jobs /\ ~Saving
    BY <1>4, AtWork DEF ResetWrites, Phases, Saving
  <2>2. job.kind = "reset"
    BY <2>1 DEF KindInv, Jobs, Kinds
  <2>3. job'.cfg = job.cfg /\ job'.slot = "A"
    BY <1>4 DEF ResetWrites, SaveJob, Target
  <2>4. ~Reads(flash, "B")
    BY <1>4, WinnerReads DEF ResetWrites
  <2>5. QED
    BY <1>4, <2>2, <2>3, <2>4 DEF ResetInv, Reads
<1>5. CASE StartsSave
  BY <1>5 DEF StartsSave, SaveJob, ResetInv
<1>6. CASE FactoryReset
  <2>1. Boots(flash) \in Configs
    BY BootsType DEF TypeOK
  <2>2. job'.cfg = Identity(Boots(flash)) /\ job'.phase = "eraseB"
    BY <1>6 DEF FactoryReset, ResetJob
  <2>3. outcome # "failed" => live.token = Boots(flash).token
    BY <1>6 DEF FactoryReset, ResetJob, LiveInv
  <2>4. live' = live /\ outcome' = outcome
    BY <1>6 DEF FactoryReset, ResetJob
  <2>5. QED
    BY <2>1, <2>2, <2>3, <2>4, IdentityIsStable DEF ResetInv, Saving
<1>7. QED
  BY <1>1, <1>2, <1>3, <1>4, <1>5, <1>6, JobMoves

\* The record that has just been programmed is in force.
LEMMA ProgramWins ==
  ASSUME TypeOK, BlankInv, SlotsAreNeighbours, SaveInv, job.phase = "program", Put(Record)
  PROVE  Winner(flash') = job.slot /\ Boots(flash') = job.cfg
<1>1. job \in Jobs /\ job.slot \in Slots /\ Record \in Sectors
  BY AtWork, RecordType DEF Phases, Jobs, Saving
<1>2. flash \in [Slots -> Sectors] /\ flash' = [flash EXCEPT ![job.slot] = Record]
  BY DEF TypeOK, Put
<1>3. flash' \in [Slots -> Sectors] /\ flash'[job.slot] = Record
  BY <1>1, <1>2
<1>4. flash'[OtherSlot(job.slot)] = flash[OtherSlot(job.slot)]
  BY <1>1, <1>2, OtherSlotType
<1>5. Reads(flash', job.slot)
  BY <1>1, <1>3, SeqModAssumption DEF Reads, Record, Jobs, NoSeq
<1>6. Reads(flash', OtherSlot(job.slot)) =>
        flash'[job.slot].seq = NextSeq(flash'[OtherSlot(job.slot)].seq)
  BY <1>3, <1>4 DEF SaveInv, Saving, Reads, Record
<1>7. Winner(flash') = job.slot /\ Boots(flash') = flash'[job.slot].cfg
  BY <1>1, <1>3, <1>5, <1>6, NextWins
<1>8. QED
  BY <1>3, <1>7 DEF Record

LEMMA LiveStep ==
  ASSUME IInv, Next
  PROVE  LiveInv'
<1> USE DEF IInv
<1>1. CASE Program
  <2>1. job \in Jobs /\ Put(Record) /\ job.phase = "program"
    BY <1>1, AtWork DEF Program, Record, Phases
  <2>2. Boots(flash') = job.cfg
    BY <2>1, ProgramWins
  <2>3. job.kind = "persist" => live = job.cfg
    BY DEF KindInv
  <2>4. job.kind # "reset" => live' = job.cfg
    BY <1>1, <2>1, <2>3 DEF Program, Succeed, Apply, Jobs, Kinds
  <2>5. job.kind = "reset" => power' = "down"
    BY <1>1 DEF Program, Succeed
  <2>6. QED
    BY <2>2, <2>4, <2>5 DEF LiveInv, Ready
<1>2. CASE ProveErased
  <2>1. job \in Jobs /\ ~Saving
    BY <1>2, AtWork DEF ProveErased, Phases, Saving
  <2>2. job.kind = "reset"
    BY <2>1 DEF KindInv, Jobs, Kinds
  <2>3. CASE Succeed
    BY <2>2, <2>3 DEF Succeed, LiveInv, Ready
  <2>4. CASE Fail
    BY <2>4 DEF Fail, LiveInv
  <2>5. CASE job' = SaveJob("reset", job.cfg)
    BY <2>5 DEF SaveJob, Idle, LiveInv, Ready
  <2>6. QED
    BY <1>2, <2>3, <2>4, <2>5 DEF ProveErased
<1>3. CASE EraseTarget \/ EraseSlot
  <2>1. job \in Jobs
    BY <1>3, AtWork DEF EraseTarget, EraseSlot, Phases
  <2>2. job'.phase # "none"
    BY <1>3, <2>1 DEF EraseTarget, EraseSlot, GoOn, Jobs
  <2>3. QED
    BY <2>2 DEF LiveInv, Ready, Idle
<1>4. CASE Locked \/ EraseRefused
  BY <1>4 DEF Locked, EraseRefused, Fail, LiveInv
<1>5. CASE NotVerified
  <2>1. job \in Jobs
    BY <1>5, AtWork DEF NotVerified, Phases
  <2>2. CASE Fail
    BY <2>2 DEF Fail, LiveInv
  <2>3. CASE job' = [job EXCEPT !.phase = "write", !.again = FALSE]
    BY <2>1, <2>3 DEF LiveInv, Ready, Idle, Jobs
  <2>4. QED
    BY <1>5, <2>2, <2>3 DEF NotVerified, RetryOrFail
<1>6. CASE Set \/ SetWifiRefused \/ PortalSet
  BY <1>6 DEF Set, SetWifiRefused, PortalSet, LiveInv, Ready
<1>7. CASE Commit \/ PortalCommit \/ Persist \/ FactoryReset
  <2>1. job'.phase # "none"
    BY <1>7 DEF Commit, PortalCommit, Persist, FactoryReset, ResetJob, SaveJob
  <2>2. QED
    BY <2>1 DEF LiveInv, Ready, Idle
<1>8. CASE Enrolled \/ Adopted
  <2>1. live \in Configs /\ pending'
    BY <1>8 DEF Enrolled, Adopted, TypeOK
  <2>2. live'.token = live.token /\ UNCHANGED <<flash, outcome, power, job>>
    BY <1>8, <2>1 DEF Enrolled, Adopted, Configs
  <2>3. QED
    BY <2>1, <2>2 DEF LiveInv, Ready
<1>9. CASE PortalRestart \/ PowerCut
  BY <1>9 DEF PortalRestart, PowerCut, LiveInv, Ready
<1>10. CASE Boot
  BY <1>10 DEF Boot, LiveInv
<1>11. QED
  BY <1>1, <1>2, <1>3, <1>4, <1>5, <1>6, <1>7, <1>8, <1>9, <1>10 DEF Next, FlashStep, Host

LEMMA SetupStep ==
  ASSUME IInv, Next
  PROVE  SetupInv'
<1> USE DEF IInv
<1>1. CASE FlashStep
  <2>1. job \in Jobs
    BY <1>1, AtWork DEF FlashStep, EraseTarget, Program, Locked, NotVerified, EraseSlot,
                        EraseRefused, ProveErased, Phases
  <2>2. power = "up" /\ setup' = setup
    BY <1>1, <2>1, AtWork DEF FlashStep, EraseTarget, Program, Locked, NotVerified, EraseSlot,
                      EraseRefused, ProveErased, Phases, DownInv, TypeOK
  <2>3. CASE UNCHANGED <<live, portal>>
    BY <2>2, <2>3 DEF SetupInv
  <2>4. CASE Succeed
    <3>1. job.kind # "reset" => job.cfg.enrolled = live.enrolled
      BY <2>1 DEF KindInv, Jobs, Kinds
    <3>2. CASE job.kind = "commit"
      BY <2>2, <2>4, <3>1, <3>2 DEF Succeed, Apply, SetupInv
    <3>3. CASE job.kind = "portal"
      BY <2>4, <3>3 DEF Succeed, SetupInv
    <3>4. CASE job.kind \in {"persist", "reset"}
      BY <2>2, <2>4, <3>4 DEF Succeed, SetupInv
    <3>5. QED
      BY <2>1, <3>2, <3>3, <3>4 DEF Jobs, Kinds
  <2>5. QED
    BY <1>1, <2>3, <2>4 DEF FlashStep, EraseTarget, Program, Locked, NotVerified, EraseSlot,
                            EraseRefused, ProveErased, Fail, GoOn, RetryOrFail
<1>2. CASE PortalSet
  <2>1. PICK cfg \in SetWifi(portal.cfg) \cup SetRelay(portal.cfg) \cup SetEmail(portal.cfg) :
          portal' = Staged(cfg)
    BY <1>2 DEF PortalSet
  <2>2. portal.cfg \in Configs
    BY DEF TypeOK, Stages
  <2>3. cfg.enrolled = portal.cfg.enrolled
    BY <2>1, <2>2, SettingsKeepEnrolled
  <2>4. portal'.cfg.enrolled = portal.cfg.enrolled
    BY <2>1, <2>3 DEF Staged
  <2>5. QED
    BY <1>2, <2>4 DEF PortalSet, Ready, SetupInv
<1>3. CASE Set \/ SetWifiRefused \/ Commit \/ PortalCommit \/ FactoryReset \/ Persist
  BY <1>3 DEF Set, SetWifiRefused, Commit, PortalCommit, FactoryReset, Persist, SetupInv
<1>4. CASE Enrolled \/ Adopted
  BY <1>4 DEF Enrolled, Adopted, SetupInv
<1>5. CASE PortalRestart \/ PowerCut
  BY <1>5 DEF PortalRestart, PowerCut, SetupInv
<1>6. CASE Boot
  BY <1>6 DEF Boot, SetupInv
<1>7. QED
  BY <1>1, <1>2, <1>3, <1>4, <1>5, <1>6 DEF Next, Host

(* ---- The inductive invariant ------------------------------------------------------------ *)

LEMMA InitFlash ==
  ASSUME Init
  PROVE  flash \in [Slots -> Sectors] /\ BlankInv /\ SlotsAreNeighbours
<1>1. CASE flash = [s \in Slots |-> Blank]
  BY <1>1, BlankType DEF BlankInv, SlotsAreNeighbours, Reads, Blank, Slots
<1>2. ASSUME NEW s \in Slots, NEW seq \in 0 .. SeqMod - 1, NEW cfg \in Found,
             NEW before \in Found \cup {NewConfig},
             flash = [t \in Slots |->
                        IF t = s THEN [seq |-> NextSeq(seq), cfg |-> cfg]
                        ELSE IF before = NewConfig THEN Blank ELSE [seq |-> seq, cfg |-> before]]
      PROVE  flash \in [Slots -> Sectors] /\ BlankInv /\ SlotsAreNeighbours
  <2>1. NextSeq(seq) \in 0 .. SeqMod - 1 /\ NextSeq(seq) # NoSeq /\ seq # NoSeq
    BY NextSeqType, SeqModAssumption DEF NoSeq
  <2>2. cfg \in Configs /\ before \in Configs
    BY NewConfigType, FoundAssumption
  <2>3. /\ [seq |-> NextSeq(seq), cfg |-> cfg] \in Sectors
        /\ [seq |-> seq, cfg |-> before] \in Sectors
    BY <2>1, <2>2 DEF Sectors
  <2>4. flash \in [Slots -> Sectors]
    BY <1>2, <2>3, BlankType
  <2>5. BlankInv
    BY <1>2, <2>1 DEF BlankInv, Reads
  <2>6. \A t \in Slots : t # s /\ Reads(flash, t) => flash[s].seq = NextSeq(flash[t].seq)
    BY <1>2 DEF Reads, Blank
  <2>7. SlotsAreNeighbours
    BY <2>6 DEF SlotsAreNeighbours, Slots
  <2>8. QED
    BY <2>4, <2>5, <2>7
<1>3. QED
  BY <1>1, <1>2 DEF Init

LEMMA InitIInv == Init => IInv
<1> SUFFICES ASSUME Init PROVE IInv
  OBVIOUS
<1>1. TypeCopies
  BY NewConfigType DEF Init, TypeCopies, Stages
<1>2. TypeFlags
  <2>1. power \in {"up", "down"} /\ outcome \in {"none", "ok", "failed"}
    BY DEF Init
  <2>2. setup \in BOOLEAN /\ pending \in BOOLEAN /\ leaving \in BOOLEAN
    BY Zenon DEF Init
  <2>3. QED
    BY <2>1, <2>2 DEF TypeFlags
<1>3. left \in Budgets /\ job = Idle
  BY BoundsAssumption DEF Init, Budgets
<1>4. TypeOK
  BY <1>1, <1>2, <1>3, InitFlash, TypeParts
<1>5. DownInv /\ SaveInv /\ KindInv /\ ResetInv
  BY <1>3 DEF Idle, DownInv, SaveInv, Saving, KindInv, ResetInv
<1>6. LiveInv /\ SetupInv
  BY DEF Init, LiveInv, Ready, SetupInv
<1>7. QED
  BY <1>4, <1>5, <1>6, InitFlash DEF IInv

LEMMA IInvStep == IInv /\ [Next]_vars => IInv'
<1>1. ASSUME IInv, Next PROVE IInv'
  <2>1. flash' \in [Slots -> Sectors] /\ BlankInv' /\ SlotsAreNeighbours'
    BY <1>1, SectorsStep DEF IInv
  <2>2. TypeCopies' /\ TypeFlags' /\ left' \in Budgets
    BY <1>1, CopiesStep, FlagsStep, BudgetStep DEF IInv
  <2>3. job' \in Jobs \cup {Idle} /\ DownInv'
    BY <1>1, JobStep DEF IInv
  <2>4. TypeOK'
    <3>1. flash' \in [Slots -> Sectors] /\ job' \in Jobs \cup {Idle} /\ left' \in Budgets
      BY <2>1, <2>2, <2>3
    <3>2. QED
      BY <2>2, <3>1, Zenon DEF TypeOK, TypeCopies, TypeFlags
  <2>5. SaveInv' /\ KindInv' /\ ResetInv'
    BY <1>1, SaveInvStep, KindStep, ResetStep DEF IInv
  <2>6. LiveInv' /\ SetupInv'
    BY <1>1, LiveStep, SetupStep
  <2>7. QED
    BY <2>1, <2>3, <2>4, <2>5, <2>6 DEF IInv
<1>2. ASSUME IInv, UNCHANGED vars PROVE IInv'
  <2>1. TypeOK'
    BY <1>2 DEF IInv, TypeOK, vars
  <2>2. BlankInv' /\ DownInv' /\ SlotsAreNeighbours'
    BY <1>2 DEF IInv, BlankInv, DownInv, SlotsAreNeighbours, Reads, vars
  <2>3. SaveInv' /\ KindInv' /\ ResetInv'
    BY <1>2 DEF IInv, SaveInv, KindInv, ResetInv, Saving, Record, Reads, vars
  <2>4. LiveInv' /\ SetupInv'
    BY <1>2 DEF IInv, LiveInv, SetupInv, Ready, vars
  <2>5. QED
    BY <2>1, <2>2, <2>3, <2>4 DEF IInv
<1>3. QED
  BY <1>1, <1>2

THEOREM Invariance == Spec => []IInv
BY InitIInv, IInvStep, PTL DEF Spec

(***************************************************************************)
(* The theorems.                                                           *)
(***************************************************************************)

\* TypeOK: every variable has its type, and no sequence number outgrows its field.
THEOREM TypeCorrect == Spec => []TypeOK
<1>1. IInv => TypeOK
  BY DEF IInv
<1>2. QED
  BY <1>1, Invariance, PTL

\* SlotsAreNeighbours: two records that read are one save apart.
THEOREM SlotsInOrder == Spec => []SlotsAreNeighbours
<1>1. IInv => SlotsAreNeighbours
  BY DEF IInv
<1>2. QED
  BY <1>1, Invariance, PTL

\* RunsWhatItWouldBoot: nothing that counts is in RAM only, or in flash only.
THEOREM RunsWhatIsStored == Spec => []RunsWhatItWouldBoot
<1>1. IInv => RunsWhatItWouldBoot
  BY DEF IInv, LiveInv, RunsWhatItWouldBoot
<1>2. QED
  BY <1>1, Invariance, PTL

\* Erasing the sector of a save takes nothing out of force, but for a record that
\* the save wrote before and could not verify.
LEMMA EraseKeepsWhatIsInForce ==
  ASSUME IInv, job.phase \in {"write", "program"}, Put(Blank)
  PROVE  \/ Boots(flash') = Boots(flash)
         \/ /\ job.phase = "write" /\ ~job.again
            /\ Boots(flash) = job.cfg /\ Boots(flash') = flash[OtherSlot(job.slot)].cfg
<1> DEFINE o == OtherSlot(job.slot)
<1>1. job \in Jobs /\ job.slot \in Slots /\ Saving
  BY AtWork DEF IInv, Phases, Jobs, Saving
<1>2. flash \in [Slots -> Sectors] /\ flash' = [flash EXCEPT ![job.slot] = Blank]
  BY DEF IInv, TypeOK, Put
<1>3. o \in Slots /\ o # job.slot /\ OtherSlot(o) = job.slot
  BY <1>1, OtherSlotType
<1>4. flash' \in [Slots -> Sectors] /\ flash'[job.slot] = Blank /\ flash'[o] = flash[o]
  BY <1>1, <1>2, <1>3, BlankType
<1>5. CASE ~Reads(flash, job.slot)
  <2>1. flash[job.slot] = Blank
    BY <1>1, <1>5 DEF IInv, BlankInv
  <2>2. flash' = flash
    BY <1>2, <2>1
  <2>3. QED
    BY <2>2
<1>6. CASE Reads(flash, job.slot)
  <2>1. job.phase = "write"
    BY <1>1, <1>6 DEF IInv, SaveInv, Saving
  <2>2. ~Reads(flash', job.slot)
    BY <1>4 DEF Reads, Blank
  <2>3. Boots(flash') = flash[o].cfg
    <3>1. CASE Reads(flash, o)
      <4>1. Reads(flash', o)
        BY <1>4, <3>1 DEF Reads
      <4>2. Boots(flash') = flash'[o].cfg
        BY <1>3, <1>4, <2>2, <4>1, NextWins
      <4>3. QED
        BY <1>4, <4>2
    <3>2. CASE ~Reads(flash, o)
      <4>1. flash[o] = Blank
        BY <1>3, <3>2 DEF IInv, BlankInv
      <4>2. ~Reads(flash', "A") /\ ~Reads(flash', "B")
        BY <1>1, <1>3, <1>4, <2>2, <3>2 DEF Reads, Slots
      <4>3. Boots(flash') = NewConfig
        BY <4>2, WinnerReads
      <4>4. QED
        BY <4>1, <4>3 DEF Blank
    <3>3. QED
      BY <3>1, <3>2
  <2>4. CASE flash[job.slot] = Record /\ ~job.again
    <3>1. Reads(flash, o) => flash[job.slot].seq = NextSeq(flash[o].seq)
      BY <1>1, <2>4 DEF IInv, SaveInv, Record
    <3>2. Boots(flash) = flash[job.slot].cfg
      BY <1>1, <1>2, <1>6, <3>1, NextWins
    <3>3. QED
      BY <2>1, <2>3, <2>4, <3>2 DEF Record
  <2>5. CASE Reads(flash, o) /\ flash[o].seq = NextSeq(flash[job.slot].seq)
    <3>1. Boots(flash) = flash[o].cfg
      BY <1>2, <1>3, <2>5, NextWins
    <3>2. QED
      BY <2>3, <3>1
  <2>6. QED
    BY <1>1, <1>6, <2>4, <2>5 DEF IInv, SaveInv
<1>7. QED
  BY <1>5, <1>6

\* Of any step outside a reset.
LEMMA AtomicStep ==
  ASSUME IInv, Next, job.kind # "reset"
  PROVE  \/ Boots(flash') = Boots(flash)
         \/ job.phase = "program" /\ Boots(flash') = job.cfg
         \/ /\ job.phase = "write" /\ ~job.again
            /\ Boots(flash) = job.cfg /\ Boots(flash') = flash[OtherSlot(job.slot)].cfg
<1>1. FlashMoves
  BY StepMovesFlash
<1>2. CASE UNCHANGED flash
  BY <1>2
<1>3. CASE job.phase \in {"write", "program"} /\ Put(Blank)
  BY <1>3, EraseKeepsWhatIsInForce
<1>4. CASE job.phase = "program" /\ Put(Record)
  BY <1>4, ProgramWins DEF IInv
<1>5. job.phase \notin {"eraseB", "eraseA"}
  <2>1. SUFFICES ASSUME job.phase \in {"eraseB", "eraseA"} PROVE FALSE
    OBVIOUS
  <2>2. job \in Jobs /\ ~Saving
    BY <2>1, AtWork DEF IInv, Phases, Saving
  <2>3. QED
    BY <2>2 DEF IInv, KindInv, Jobs, Kinds
<1>6. QED
  BY <1>1, <1>2, <1>3, <1>4, <1>5 DEF FlashMoves

\* SaveIsAtomic: what a boot loads changes when the record is programmed, and then
\* to the whole of it.
THEOREM SavesAreAtomic == Spec => SaveIsAtomic
<1>1. IInv /\ [Next]_vars =>
        [job.kind # "reset" =>
           \/ Boots(flash') = Boots(flash)
           \/ job.phase = "program" /\ Boots(flash') = job.cfg
           \/ /\ job.phase = "write" /\ ~job.again
              /\ Boots(flash) = job.cfg /\ Boots(flash') = flash[OtherSlot(job.slot)].cfg]_vars
  BY AtomicStep
<1>2. QED
  BY <1>1, Invariance, PTL DEF Spec, SaveIsAtomic

\* EnrolledIsKept: no save but a reset's clears a flag that is both live and stored.
THEOREM EnrolledStays == Spec => EnrolledIsKept
<1>1. ASSUME IInv, Next, live.enrolled, Boots(flash).enrolled, ~Boots(flash').enrolled
      PROVE  \/ job.kind = "reset"
             \/ job.phase = "write" /\ ~job.again /\ job.cfg.enrolled
  <2>1. CASE job.phase = "program" /\ Boots(flash') = job.cfg
    <3>1. job \in Jobs
      BY <1>1, <2>1, AtWork DEF IInv, Phases
    <3>2. QED
      BY <1>1, <2>1, <3>1 DEF IInv, KindInv, Jobs, Kinds
  <2>2. QED
    BY <1>1, <2>1, AtomicStep
<1>2. IInv /\ [Next]_vars =>
        [live.enrolled /\ Boots(flash).enrolled /\ ~Boots(flash').enrolled =>
           \/ job.kind = "reset"
           \/ job.phase = "write" /\ ~job.again /\ job.cfg.enrolled]_vars
  BY <1>1
<1>3. QED
  BY <1>2, Invariance, PTL DEF Spec, EnrolledIsKept

LEMMA ResetEnds ==
  ASSUME IInv, Next, job.kind = "reset", job' = Idle, outcome' = "ok"
  PROVE  /\ \A s \in Slots : flash'[s].cfg = Identity(flash'[s].cfg)
         /\ outcome # "failed" => Boots(flash').token = live.token
<1>0. job \in Jobs /\ job # Idle
  BY DEF IInv, TypeOK, Idle
<1>1. CASE Program
  <2>1. job.phase = "program" /\ Put(Record) /\ Saving /\ Record \in Sectors
    BY <1>1, RecordType DEF IInv, Program, Record, Saving
  <2>2. job.slot = "A" /\ ~Reads(flash, "B")
    BY <2>1 DEF IInv, ResetInv
  <2>3. flash["B"] = Blank
    BY <2>2 DEF IInv, BlankInv, Slots
  <2>4. flash'["A"] = Record /\ flash'["B"] = Blank
    BY <2>1, <2>2, <2>3 DEF IInv, TypeOK, Put, Slots
  <2>5. job.cfg = Identity(job.cfg) /\ NewConfig = Identity(NewConfig)
    BY DEF IInv, ResetInv, Identity, NewConfig
  <2>6. Boots(flash') = job.cfg
    BY <2>1, ProgramWins DEF IInv
  <2>7. \A s \in Slots : flash'[s].cfg = Identity(flash'[s].cfg)
    BY <2>4, <2>5 DEF Slots, Record, Blank
  <2>8. QED
    BY <2>6, <2>7 DEF IInv, ResetInv
<1>2. CASE ProveErased
  <2>1. Winner(flash) = "none" /\ job.cfg = NewConfig /\ flash' = flash
    BY <1>2 DEF ProveErased, Fail, SaveJob, Idle
  <2>2. \A s \in Slots : flash[s] = Blank
    BY <2>1, WinnerReads DEF IInv, BlankInv, Slots
  <2>3. NewConfig = Identity(NewConfig)
    BY DEF Identity, NewConfig
  <2>4. \A s \in Slots : flash'[s].cfg = Identity(flash'[s].cfg)
    BY <2>1, <2>2, <2>3 DEF Blank
  <2>5. Boots(flash') = NewConfig
    BY <2>1, WinnerReads
  <2>6. QED
    BY <2>1, <2>4, <2>5 DEF IInv, ResetInv
<1>3. CASE EraseTarget \/ EraseSlot
  <2>1. job'.phase # "none"
    BY <1>0, <1>3 DEF EraseTarget, EraseSlot, GoOn, Jobs
  <2>2. QED
    BY <2>1 DEF Idle
<1>4. CASE Locked \/ EraseRefused
  BY <1>4 DEF Locked, EraseRefused, Fail
<1>5. CASE NotVerified
  <2>1. CASE job' = [job EXCEPT !.phase = "write", !.again = FALSE]
    <3>1. job'.phase = "write"
      BY <1>0, <2>1 DEF Jobs
    <3>2. QED
      BY <3>1 DEF Idle
  <2>2. QED
    BY <1>5, <2>1 DEF NotVerified, RetryOrFail, Fail
<1>6. CASE Host \/ PortalRestart \/ Enrolled \/ Adopted \/ Persist
  BY <1>0, <1>6 DEF Host, Set, SetWifiRefused, Commit, PortalSet, PortalCommit, FactoryReset,
                    PortalRestart, Enrolled, Adopted, Persist, Ready
<1>7. CASE Boot \/ PowerCut
  BY <1>7 DEF Boot, PowerCut
<1>8. QED
  BY <1>1, <1>2, <1>3, <1>4, <1>5, <1>6, <1>7 DEF Next, FlashStep

\* ResetKeepsOnlyIdentity: a reset that reports success leaves the token and
\* nothing else, in both sectors.
THEOREM ResetKeepsTheToken == Spec => ResetKeepsOnlyIdentity
<1>1. IInv /\ [Next]_vars =>
        [job.kind = "reset" /\ job' = Idle /\ outcome' = "ok" =>
           /\ \A s \in Slots : flash'[s].cfg = Identity(flash'[s].cfg)
           /\ outcome # "failed" => Boots(flash').token = live.token]_vars
  BY ResetEnds
<1>2. QED
  BY <1>1, Invariance, PTL DEF Spec, ResetKeepsOnlyIdentity
===============================================================================
