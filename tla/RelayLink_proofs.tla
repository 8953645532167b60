--------------------------- MODULE RelayLink_proofs ----------------------------
(***************************************************************************)
(* The device's session with the relay, for every bound on the back-off    *)
(* and on the faults, whoever the device reaches and whatever COMMITs its  *)
(* settings see: session and socket agree, attempts are paid for, and      *)
(* trust and stopping for good have the reasons they should.               *)
(***************************************************************************)
EXTENDS RelayLink, TLAPS

\* SessionHasSocket, with the one state that an attempt without a pcb is left in.
SocketInv ==
  /\ session = "CONNECTING" =>
       ws \in {"RESOLVING", "CONNECTING", "HANDSHAKING"} \/ (poolEmpty /\ ws = "CLOSED")
  /\ session \in {"AUTHENTICATING", "READY"} => ws \in {"OPEN", "CLOSING"}
  /\ session = "AUTH_FAILED" => ws \in {"CLOSED", "CLOSING"}
  /\ session \in {"BACKOFF", "STOPPED"} => ws = "CLOSED"

\* What an attempt will have to be paid with, before and after the on_close that
\* ends the last one.
PaidInv ==
  /\ session # "STOPPED" => Doubled(backoff) >= owed
  /\ session \in {"BACKOFF", "AUTH_FAILED"} /\ ws = "CLOSED" => backoff >= owed

\* Who is at the other end, and what it can have said.
PeerInv ==
  /\ ws \in {"HANDSHAKING", "OPEN", "CLOSING"} => peer # "nobody"
  /\ home => peer # "stranger"
  /\ due # "nothing" => ws \in {"OPEN", "CLOSING"}
  /\ due = "ack" => provable
  /\ closeCode # "revoked"

IInv ==
  /\ TypeOK
  /\ SocketInv
  /\ PaidInv
  /\ PeerInv
  /\ ReadyIsProven
  /\ StoppedOnlyIfRevoked

\* The type invariant, in the parts that are proved on their own.
TypeLink ==
  /\ ws \in {"CLOSED", "RESOLVING", "CONNECTING", "HANDSHAKING", "OPEN", "CLOSING"}
  /\ closeCode \in Codes
  /\ session \in {"BACKOFF", "CONNECTING", "AUTHENTICATING", "READY", "AUTH_FAILED", "STOPPED"}
  /\ peer \in {"nobody", "relay", "stranger"}
  /\ due \in Replies
  /\ wire \in {"up", "dead"}
  /\ record \in Records

TypeCounters == backoff \in 1 .. MaxBackoff /\ owed \in 1 .. MaxBackoff /\ faults \in 0 .. Faults

TypeFlags ==
  /\ retryDue \in BOOLEAN /\ enrolling \in BOOLEAN /\ unsaved \in BOOLEAN
  /\ revoked \in BOOLEAN /\ net \in BOOLEAN
  /\ home \in BOOLEAN /\ poolEmpty \in BOOLEAN /\ provable \in BOOLEAN

TypeMemory == cfg \in Settings /\ flash \in Settings

LEMMA TypeParts == TypeOK <=> TypeLink /\ TypeCounters /\ TypeFlags /\ TypeMemory
BY DEF TypeOK, TypeLink, TypeCounters, TypeFlags, TypeMemory

\* Doubling stays in range, never shortens and keeps the order.
LEMMA DoubledBounds ==
  ASSUME NEW b \in 1 .. MaxBackoff, NEW c \in 1 .. MaxBackoff, b >= c
  PROVE  /\ Doubled(b) \in 1 .. MaxBackoff
         /\ Doubled(b) >= b
         /\ Doubled(b) >= Doubled(c)
BY BackoffAssumption DEF Doubled

LEMMA InitInv == Init => IInv
<1> SUFFICES ASSUME Init PROVE IInv
  OBVIOUS
<1>1. TypeOK
  <2>1. TypeLink
    BY DEF Init, TypeLink, Codes, Replies, Records
  <2>2. TypeCounters
    BY BackoffAssumption, FaultsAssumption DEF Init, TypeCounters
  <2>3. TypeFlags
    <3>1. home \in BOOLEAN
      BY DEF Init
    <3>2. poolEmpty \in BOOLEAN
      BY SetupAssumption DEF Init
    <3>3. QED
      BY <3>1, <3>2, Zenon DEF Init, TypeFlags
  <2>4. TypeMemory
    BY DEF Init, TypeMemory
  <2>5. QED
    BY <2>1, <2>2, <2>3, <2>4, TypeParts
<1>2. PaidInv
  BY <1>1, TypeParts, DoubledBounds DEF Init, PaidInv, TypeCounters
<1>3. SocketInv /\ PeerInv /\ ReadyIsProven /\ StoppedOnlyIfRevoked
  BY DEF Init, SocketInv, PeerInv, ReadyIsProven, StoppedOnlyIfRevoked
<1>4. QED
  BY <1>1, <1>2, <1>3 DEF IInv

\* From here on every step is expanded into what it does.
USE DEF Fault, NoFault, AfterClose, OnClose, Hangup, Teardown, Close, FailAuth,
        MayAttempt, MayEnrol, Attempt, AttemptFails, AttemptRefused, DnsDone, LookupFails,
        Connected, Upgraded, BackoffOnOpen, NeverOpens,
        Hears, AuthVerdict, EnrolVerdict, Sayings, StrangerSpeaks, Answered, Lost,
        ChallengeAuth, ChallengeEnrol, EnrolSent, ChallengeFails, ChallengeIgnored,
        Proven, HelloAck, HelloRefused, AdoptAck, PeerCloses, TransportLost, FrameRefused,
        Silent, IdleExpires, GraceExpires, KeepaliveFails,
        RetryTimer, Persist, Saved, Commit, Boots, CommitRestarts, Restart,
        NetDown, NetUp, WireDies, Revoke, Forget,
        socket, pace, memory, relay

LEMMA LinkStep ==
  ASSUME TypeLink, Next
  PROVE  TypeLink'
<1> USE DEF TypeLink, Codes, Replies, Records
<1>1. CASE Connecting
  BY <1>1, SMTT(60) DEF Connecting
<1>2. CASE Authenticating
  BY <1>2, SMTT(60) DEF Authenticating
<1>3. CASE Losing
  BY <1>3, SMTT(60) DEF Losing
<1>4. CASE Else
  BY <1>4, SMTT(60) DEF Else
<1>5. QED
  BY <1>1, <1>2, <1>3, <1>4 DEF Next, Step

LEMMA CountersStep ==
  ASSUME TypeCounters, Next
  PROVE  TypeCounters'
<1> USE BackoffAssumption, FaultsAssumption, DoubledBounds DEF TypeCounters
<1>1. CASE Connecting
  BY <1>1, SMTT(60) DEF Connecting
<1>2. CASE Authenticating
  BY <1>2, SMTT(60) DEF Authenticating
<1>3. CASE Losing
  BY <1>3, SMTT(60) DEF Losing
<1>4. CASE Else
  BY <1>4, SMTT(60) DEF Else
<1>5. QED
  BY <1>1, <1>2, <1>3, <1>4 DEF Next, Step

LEMMA FlagsStep ==
  ASSUME TypeFlags, Next
  PROVE  TypeFlags'
<1>u. UNCHANGED poolEmpty
  BY DEF Next, Step
<1> USE <1>u DEF TypeFlags
<1>1. CASE Connecting
  BY <1>1, Zenon DEF Connecting
<1>2. CASE Authenticating
  <2>1. CASE ChallengeAuth
    <3>1. provable' \in BOOLEAN
      BY <2>1
    <3>2. UNCHANGED <<retryDue, enrolling, unsaved, revoked, net, home>>
      BY <2>1
    <3>3. QED
      BY <3>1, <3>2
  <2>2. CASE ChallengeEnrol
    <3>1. provable' \in BOOLEAN
      BY <2>2
    <3>2. UNCHANGED <<retryDue, unsaved, revoked, net, home>> /\ enrolling' = TRUE
      BY <2>2
    <3>3. QED
      BY <3>1, <3>2
  <2>3. CASE ChallengeFails \/ ChallengeIgnored \/ HelloAck \/ HelloRefused \/ AdoptAck
    BY <2>3, Zenon
  <2>4. QED
    BY <1>2, <2>1, <2>2, <2>3 DEF Authenticating
<1>3. CASE Losing
  BY <1>3, Zenon DEF Losing
<1>4. CASE Else
  BY <1>4, Zenon DEF Else
<1>5. QED
  BY <1>1, <1>2, <1>3, <1>4 DEF Next, Step

\* Only an enrolment that is complete, an address that is taken over, COMMIT and
\* a restart change the settings; only Persist and COMMIT write them.
LEMMA MemoryStep ==
  ASSUME TypeMemory, Next
  PROVE  TypeMemory'
<1>1. CASE HelloAck
  <2>1. cfg' = cfg \/ cfg' = [cfg EXCEPT !.enrolled = TRUE]
    BY <1>1
  <2>2. [cfg EXCEPT !.enrolled = TRUE] \in Settings
    BY DEF TypeMemory, Settings
  <2>3. flash' = flash
    BY <1>1
  <2>4. QED
    BY <2>1, <2>2, <2>3 DEF TypeMemory
<1>2. CASE AdoptAck
  <2>1. cfg' = cfg \/ cfg' = [cfg EXCEPT !.owner = FALSE]
    BY <1>2
  <2>2. [cfg EXCEPT !.owner = FALSE] \in Settings
    BY DEF TypeMemory, Settings
  <2>3. flash' = flash
    BY <1>2
  <2>4. QED
    BY <2>1, <2>2, <2>3 DEF TypeMemory
<1>3. CASE Else
  BY <1>3, SMTT(30) DEF Else, TypeMemory
<1>4. CASE Connecting \/ Losing
  BY <1>4, SMTT(30) DEF Connecting, Losing, TypeMemory
<1>5. CASE ChallengeAuth \/ ChallengeEnrol \/ ChallengeFails \/ ChallengeIgnored \/ HelloRefused
  BY <1>5, SMTT(30) DEF TypeMemory
<1>6. QED
  BY <1>1, <1>2, <1>3, <1>4, <1>5 DEF Next, Step, Authenticating

\* Session and socket are changed together.
LEMMA SocketStep ==
  ASSUME SocketInv, Next
  PROVE  SocketInv'
<1>u. UNCHANGED poolEmpty
  BY DEF Next, Step
<1> USE <1>u DEF SocketInv
<1>1. CASE Connecting
  BY <1>1, SMTT(60) DEF Connecting
<1>2. CASE Authenticating
  BY <1>2, SMTT(60) DEF Authenticating
<1>3. CASE Losing
  BY <1>3, SMTT(60) DEF Losing
<1>4. CASE Else
  BY <1>4, SMTT(60) DEF Else
<1>5. QED
  BY <1>1, <1>2, <1>3, <1>4 DEF Next, Step

\* An ack is one that a holder of the token has computed, and a device of the
\* built-in relay has nobody but the relay at the other end.
LEMMA PeerStep ==
  ASSUME PeerInv, TypeLink, Next
  PROVE  PeerInv'
<1> USE DEF PeerInv
<1>1. CASE Connected
  <2>1. home' = home /\ (home => peer' # "stranger")
    BY <1>1
  <2>2. ws' \in {"HANDSHAKING", "OPEN", "CLOSING"} => peer' # "nobody"
    BY <1>1
  <2>3. closeCode' # "revoked" /\ due' = "nothing"
    BY <1>1
  <2>4. QED
    BY <1>1, <2>1, <2>2, <2>3
<1>2. CASE ChallengeAuth \/ ChallengeEnrol
  <2>1. peer \in {"relay", "stranger"} /\ (home => peer = "relay")
    BY <1>2 DEF TypeLink
  <2>2. UNCHANGED <<ws, closeCode, peer, home>>
    BY <1>2
  <2>3. due' = "ack" => provable'
    <3>1. CASE ChallengeAuth
      BY <3>1, <2>1
    <3>2. CASE ChallengeEnrol
      BY <3>2, <2>1
    <3>3. QED
      BY <1>2, <3>1, <3>2
  <2>4. due' # "nothing" => ws' \in {"OPEN", "CLOSING"}
    BY <1>2
  <2>5. QED
    BY <2>2, <2>3, <2>4
<1>3. CASE ChallengeFails \/ ChallengeIgnored \/ HelloAck \/ HelloRefused \/ AdoptAck
  BY <1>3, SMTT(30)
<1>4. CASE Attempt \/ AttemptFails \/ AttemptRefused \/ DnsDone \/ Upgraded \/ NeverOpens
  BY <1>4, SMTT(30)
<1>5. CASE Losing
  BY <1>5, SMTT(30) DEF Losing
<1>6. CASE Commit \/ CommitRestarts \/ Restart
  BY <1>6, SMTT(30)
<1>7. CASE RetryTimer \/ Persist \/ NetDown \/ NetUp \/ WireDies \/ Revoke \/ Forget
           \/ StrangerSpeaks
  BY <1>7, SMTT(30)
<1>8. QED
  BY <1>1, <1>2, <1>3, <1>4, <1>5, <1>6, <1>7 DEF Next, Step, Connecting, Authenticating, Else

\* An attempt adds a doubling to what is owed, and the on_close that must come
\* before the next attempt adds one to what is paid.
LEMMA PaidStep ==
  ASSUME PaidInv, SocketInv, TypeCounters, Next
  PROVE  PaidInv'
<1> USE DoubledBounds DEF PaidInv, SocketInv, TypeCounters
<1>1. 1 \in 1 .. MaxBackoff /\ Doubled(1) >= 1
  BY BackoffAssumption
<1>2. CASE HelloAck
  <2>1. backoff' = 1 /\ owed' = 1
    BY <1>2
  <2>2. QED
    BY <1>1, <2>1
<1>3. CASE Restart \/ CommitRestarts
  <2>1. backoff' = 1 /\ owed' = 1
    BY <1>3
  <2>2. QED
    BY <1>1, <2>1
<1>4. CASE Commit
  <2>1. owed' = backoff' /\ backoff' \in 1 .. MaxBackoff
    BY <1>4
  <2>2. QED
    BY <2>1
<1>5. CASE ChallengeAuth \/ ChallengeEnrol \/ ChallengeFails \/ ChallengeIgnored
           \/ HelloRefused \/ AdoptAck
  BY <1>5, SMTT(30)
<1>6. CASE Connecting
  BY <1>6, SMTT(60) DEF Connecting
<1>7. CASE Losing
  BY <1>7, SMTT(60) DEF Losing
<1>8. CASE RetryTimer \/ Persist \/ NetDown \/ NetUp \/ WireDies \/ Revoke \/ Forget
           \/ StrangerSpeaks
  BY <1>8
<1>9. QED
  BY <1>2, <1>3, <1>4, <1>5, <1>6, <1>7, <1>8 DEF Next, Step, Authenticating, Else

\* READY is reached by an ack only, and left with the connection; the proof that
\* the device waits for is another's only while it authenticates.
LEMMA TrustStep ==
  ASSUME ReadyIsProven, SocketInv, PeerInv, TypeLink, Next
  PROVE  ReadyIsProven'
<1> USE DEF ReadyIsProven
<1>1. CASE HelloAck
  <2>1. UNCHANGED <<provable, home, peer>> /\ provable
    BY <1>1 DEF PeerInv
  <2>2. home => peer = "relay"
    BY <1>1 DEF PeerInv, TypeLink
  <2>3. QED
    BY <2>1, <2>2
<1>2. CASE Connected
  <2>1. session # "READY" /\ (session' = session \/ session' = "BACKOFF")
    BY <1>2 DEF SocketInv
  <2>2. QED
    BY <2>1
<1>3. CASE Attempt \/ AttemptFails \/ AttemptRefused \/ DnsDone \/ Upgraded \/ NeverOpens
  BY <1>3
<1>4. CASE ChallengeAuth \/ ChallengeEnrol \/ ChallengeFails \/ ChallengeIgnored
           \/ HelloRefused \/ AdoptAck
  BY <1>4
<1>5. CASE Losing
  BY <1>5, SMTT(30) DEF Losing
<1>6. CASE Else
  BY <1>6, SMTT(30) DEF Else
<1>7. QED
  BY <1>1, <1>2, <1>3, <1>4, <1>5, <1>6 DEF Next, Step, Connecting, Authenticating

\* Only the peer's own close carries 4002, and no stranger's reaches a device of the
\* built-in relay; COMMIT starts a session that was stopped.
LEMMA StoppedStep ==
  ASSUME StoppedOnlyIfRevoked, PeerInv, Next
  PROVE  StoppedOnlyIfRevoked'
<1> DEFINE Stays == session' = "STOPPED" => session = "STOPPED" /\ UNCHANGED <<home, revoked>>
<1>1. CASE PeerCloses
  <2>1. closeCode # "revoked" /\ UNCHANGED <<home, revoked>> /\ (home => peer # "stranger")
    BY <1>1 DEF PeerInv
  <2>2. session' = "STOPPED" => session = "STOPPED" \/ revoked \/ peer = "stranger"
    BY <1>1, <2>1
  <2>3. QED
    BY <2>1, <2>2 DEF StoppedOnlyIfRevoked
<1>2. CASE Revoke
  BY <1>2 DEF StoppedOnlyIfRevoked
<1>3. ASSUME Stays
      PROVE  StoppedOnlyIfRevoked'
  BY <1>3 DEF StoppedOnlyIfRevoked
<1>4. CASE Connecting
  <2>1. Stays
    BY <1>4, SMTT(30) DEF Connecting
  <2>2. QED
    BY <2>1, <1>3
<1>5. CASE Authenticating
  <2>1. Stays
    BY <1>5, SMTT(30) DEF Authenticating
  <2>2. QED
    BY <2>1, <1>3
<1>6. CASE TransportLost \/ FrameRefused \/ IdleExpires \/ GraceExpires \/ KeepaliveFails
  <2>1. Stays
    BY <1>6, SMTT(30) DEF PeerInv
  <2>2. QED
    BY <2>1, <1>3
<1>7. CASE RetryTimer \/ Persist \/ Commit \/ CommitRestarts \/ Restart
           \/ NetDown \/ NetUp \/ WireDies \/ Forget \/ StrangerSpeaks
  <2>1. Stays
    BY <1>7, SMTT(30)
  <2>2. QED
    BY <2>1, <1>3
<1>8. QED
  BY <1>1, <1>2, <1>4, <1>5, <1>6, <1>7 DEF Next, Step, Losing, Else

LEMMA StepInv == IInv /\ [Next]_vars => IInv'
<1> SUFFICES ASSUME IInv, [Next]_vars PROVE IInv'
  OBVIOUS
<1>1. CASE Next
  <2>1. TypeLink /\ TypeCounters /\ TypeFlags /\ TypeMemory
    BY TypeParts DEF IInv
  <2>2. TypeLink' /\ TypeCounters' /\ TypeFlags' /\ TypeMemory'
    BY <1>1, <2>1, LinkStep, CountersStep, FlagsStep, MemoryStep
  <2>3. TypeOK'
    BY <2>2 DEF TypeOK, TypeLink, TypeCounters, TypeFlags, TypeMemory
  <2>4. SocketInv' /\ PaidInv' /\ PeerInv'
    BY <1>1, <2>1, SocketStep, PaidStep, PeerStep DEF IInv
  <2>5. ReadyIsProven' /\ StoppedOnlyIfRevoked'
    BY <1>1, <2>1, TrustStep, StoppedStep DEF IInv
  <2>6. QED
    BY <2>3, <2>4, <2>5 DEF IInv
<1>2. CASE UNCHANGED vars
  BY <1>2 DEF vars, IInv, TypeOK, SocketInv, PaidInv, PeerInv, ReadyIsProven,
              StoppedOnlyIfRevoked
<1>3. QED
  BY <1>1, <1>2

THEOREM Invariant == Spec => []IInv
<1>1. Init => IInv
  BY InitInv
<1>2. IInv /\ [Next]_vars => IInv'
  BY StepInv
<1>3. QED
  BY <1>1, <1>2, PTL DEF Spec

\* Every variable keeps its type, the back-off its bound (on_close, rw_relay_task).
THEOREM TypeCorrect == Spec => []TypeOK
<1>1. IInv => TypeOK
  BY DEF IInv
<1>2. QED
  BY <1>1, Invariant, PTL

\* A session that waits has a connection to wait for, and one that is to try
\* again has none, as long as lwIP can give a pcb to an address that arrives
\* (on_close, rw_relay_task, start_connect).
THEOREM Agreement == Spec => []SessionHasSocket
<1>1. IInv => SessionHasSocket
  BY DEF IInv, SocketInv, SessionHasSocket
<1>2. QED
  BY <1>1, Invariant, PTL

\* No attempt is made before every one since the last READY has been paid for
\* (on_close, handle_hello_ack, rw_relay_task).
THEOREM Paid == Spec => []AttemptsArePaid
<1>1. IInv => AttemptsArePaid
  BY DEF IInv, PaidInv, AttemptsArePaid
<1>2. QED
  BY <1>1, Invariant, PTL

\* Trust and giving up rest on what the relay has shown: a session is READY on a
\* proof that a holder of the token has computed, and a device of the built-in
\* relay, which nobody else can answer for, stops for good only if it is revoked
\* (handle_hello_ack, on_close).
THEOREM Grounds == Spec => [](ReadyIsProven /\ StoppedOnlyIfRevoked)
<1>1. IInv => ReadyIsProven /\ StoppedOnlyIfRevoked
  BY DEF IInv
<1>2. QED
  BY <1>1, Invariant, PTL
===============================================================================
