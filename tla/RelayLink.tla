------------------------------- MODULE RelayLink ------------------------------
(***************************************************************************)
(* The device's session with the relay, from the first attempt to connect  *)
(* to READY and back: the WebSocket client (firmware/src/ws/ws.c) and the  *)
(* half of firmware/src/proto/proto.c that connects, authenticates, enrols,*)
(* offers the owner's address, keeps alive, closes and backs off.  The     *)
(* commands a READY session carries are in RelayCommands.                  *)
(*                                                                         *)
(* The two files call each other: proto.c drives ws.c from its task, ws.c  *)
(* calls back on_open, on_text and on_close.  Each action below is one     *)
(* callback of the network stack, or one branch of rw_relay_task, with     *)
(* every call it makes.  The relay follows PROTOCOL.md; a stranger, that a *)
(* device may reach in its place when it is set up for another relay than  *)
(* the built-in one, says what it likes.  What the peer says next is kept  *)
(* in due, and what is on the wire is delivered in order or, once the wire *)
(* is dead, never.                                                         *)
(***************************************************************************)
EXTENDS Integers

CONSTANTS
  MaxBackoff,    \* the longest back-off, in units of the shortest
  Faults,        \* bound: faults of the network, the relay, the power
  Devices,       \* what the device may have been set up as, a set of Setups
  PcbMayFail     \* may the lwIP pool be empty when an address arrives? a set of answers

ASSUME BackoffAssumption == MaxBackoff \in Nat \ {0}
ASSUME FaultsAssumption == Faults \in Nat

\* As what the device starts.  fresh: never accepted by a relay, and may enrol.
\* enrolled: accepted before, by the built-in relay; enrolledElsewhere: by another.
\* byHand: points elsewhere, and that relay's operator gave it the token.
Setups == {"fresh", "enrolled", "enrolledElsewhere", "byHand"}

ASSUME SetupAssumption == Devices \subseteq Setups /\ PcbMayFail \subseteq BOOLEAN

VARIABLES
  home,      \* the settings name the built-in relay, and its certificate is validated
  poolEmpty, \* the lwIP pool may be empty when an address arrives
  ws,        \* rw_ws_client_t.state
  closeCode, \* the code of the close the device has sent, while CLOSING
  session,   \* s.state; OFFLINE does not outlive a step of a provisioned device
  backoff,   \* s.backoff_ms
  retryDue,  \* s.retry_at has been reached
  cfg,       \* the configuration in RAM: enrolled, and an owner's address staged
  flash,     \* the same, as last saved
  enrolling, \* s.enrolling
  unsaved,   \* s.persist_pending
  provable,  \* somebody who holds the token has answered the auth that s.expected_proof_s
             \* was computed for, so that the proof the device waits for exists
  peer,      \* who is at the other end of the connection
  due,       \* what the peer says next
  record,    \* what the relay has of the device: its token, another's, or nothing
  revoked,   \* the relay has deprovisioned this device
  wire,      \* "up", or "dead" when nothing gets through and nobody is told
  net,       \* rw_net_ready()
  faults,    \* faults left
  owed       \* the back-off that the attempts since READY or COMMIT call for

socket == <<ws, closeCode>>
pace == <<backoff, retryDue>>
memory == <<cfg, flash, enrolling, unsaved, provable>>
relay == <<home, record, revoked>>
vars == <<poolEmpty, socket, session, pace, memory, peer, due, relay, wire, net, faults, owed>>

\* may_enrol(): the built-in relay, with a certificate that is validated.
MayEnrol == home

\* PROTOCOL.md 3.4: "free" if it has no token, or one that nobody owns, and
\* "taken" if another's.
Records == {"free", "held", "taken"}

\* 1008, 4002, and all the others, which the device does not tell apart.
Codes == {"none", "policy", "revoked", "other"}
Replies == {"nothing", "challenge", "ack", "badProof", "reject", "adoptAck", "adoptRefused"}
Settings == [enrolled : BOOLEAN, owner : BOOLEAN]

TypeOK ==
  /\ home \in BOOLEAN /\ poolEmpty \in BOOLEAN /\ provable \in BOOLEAN
  /\ ws \in {"CLOSED", "RESOLVING", "CONNECTING", "HANDSHAKING", "OPEN", "CLOSING"}
  /\ closeCode \in Codes
  /\ session \in {"BACKOFF", "CONNECTING", "AUTHENTICATING", "READY", "AUTH_FAILED", "STOPPED"}
  /\ backoff \in 1 .. MaxBackoff /\ owed \in 1 .. MaxBackoff
  /\ retryDue \in BOOLEAN /\ enrolling \in BOOLEAN /\ unsaved \in BOOLEAN
  /\ cfg \in Settings /\ flash \in Settings
  /\ peer \in {"nobody", "relay", "stranger"}
  /\ due \in Replies
  /\ record \in Records /\ revoked \in BOOLEAN /\ net \in BOOLEAN
  /\ wire \in {"up", "dead"}
  /\ faults \in 0 .. Faults

Init ==
  /\ poolEmpty \in PcbMayFail
  /\ cfg \in Settings /\ flash = cfg
  /\ \E setup \in Devices :
       /\ home = (setup \in {"fresh", "enrolled"})
       /\ cfg.enrolled = (setup \in {"enrolled", "enrolledElsewhere"})
       /\ record = IF setup = "fresh" THEN "free" ELSE "held"
  /\ ws = "CLOSED" /\ closeCode = "none"
  /\ session = "BACKOFF"
  /\ backoff = 1 /\ owed = 1
  /\ retryDue = TRUE
  /\ enrolling = FALSE /\ unsaved = FALSE /\ provable = FALSE
  /\ peer = "nobody" /\ due = "nothing"
  /\ revoked = FALSE
  /\ wire = "up" /\ net = TRUE
  /\ faults = Faults

\* What goes wrong uses up a fault.
Fault == faults > 0 /\ faults' = faults - 1
NoFault == UNCHANGED faults

-------------------------------------------------------------------------------
\* Closing.

\* Doubled, up to the longest.
Doubled(b) == IF b > MaxBackoff \div 2 THEN MaxBackoff ELSE b * 2

\* Mutated form: any close by the relay's policy is taken for good.
AfterClose_Policy(from, code) ==
  IF code \in {"revoked", "policy"} THEN "STOPPED" ELSE "BACKOFF"

\* The state on_close leaves the session in.
AfterClose(from, code) ==
  IF code = "revoked" THEN "STOPPED"
  ELSE IF from = "AUTH_FAILED" \/ code = "policy" THEN "AUTH_FAILED"
  ELSE "BACKOFF"

\* on_close: the retry is drawn from what the back-off was, then it doubles.
OnClose(from, code) ==
  /\ session' = AfterClose(from, code)
  /\ IF code = "revoked"
     THEN UNCHANGED pace
     ELSE retryDue' = FALSE /\ backoff' = Doubled(backoff)

\* The connection is gone from ws.c.
Hangup == ws' = "CLOSED" /\ closeCode' = "none" /\ peer' = "nobody" /\ due' = "nothing"

\* ws_teardown of a live connection, and the on_close it calls.
Teardown(from, code) == Hangup /\ OnClose(from, code)

\* rw_ws_close of an open connection, whose frame is written: the peer's close
\* is awaited, and what the peer was about to say may still arrive.
Close(to, code, next) ==
  /\ ws' = "CLOSING" /\ closeCode' = code
  /\ session' = to
  /\ due' = next
  /\ UNCHANGED <<pace, peer>>

\* fail_auth, and the end of a rejected hello_ack.  A close frame that cannot be
\* written tears the connection down; one that is closing already is left alone.
FailAuth ==
  \/ ws = "OPEN" /\ Close("AUTH_FAILED", "policy", "nothing")
  \/ ws = "OPEN" /\ Teardown("AUTH_FAILED", "policy")
  \/ ws = "CLOSING" /\ Close("AUTH_FAILED", closeCode, "nothing")

-------------------------------------------------------------------------------
\* Connecting.

\* The tail of rw_relay_task may try: a connection lost and really gone, the
\* delay over, a network.
MayAttempt ==
  /\ session \in {"BACKOFF", "AUTH_FAILED"}
  /\ ws = "CLOSED"
  /\ retryDue
  /\ net

\* rw_ws_connect, whose address is to come or is cached.
Attempt ==
  /\ MayAttempt
  /\ session' = "CONNECTING"
  /\ ws' \in {"RESOLVING", "CONNECTING"}
  /\ wire' = "up"
  /\ owed' = Doubled(owed)
  /\ UNCHANGED <<closeCode, pace, memory, peer, due, relay, net, faults>>

\* rw_ws_connect returns false: no resolver or no pcb.
AttemptFails ==
  /\ MayAttempt
  /\ Fault
  /\ session' = "BACKOFF"
  /\ retryDue' = FALSE
  /\ backoff' = Doubled(backoff)
  /\ owed' = Doubled(owed)
  /\ UNCHANGED <<socket, memory, peer, due, relay, wire, net>>

\* The same when altcp_connect refuses a cached address: start_connect has
\* already torn the connection down, and on_close has run.
AttemptRefused ==
  /\ MayAttempt
  /\ Fault
  /\ session' = "BACKOFF"
  /\ retryDue' = FALSE
  /\ backoff' = Doubled(Doubled(backoff))
  /\ owed' = Doubled(owed)
  /\ UNCHANGED <<socket, memory, peer, due, relay, wire, net>>

\* Mutated form: the failed lookup is not passed on.
LookupFails_Silent == ws' = "CLOSED" /\ UNCHANGED <<closeCode, session, pace, peer, due>>

\* The address does not arrive, or altcp_connect refuses it.
LookupFails == Teardown(session, "none")

\* dns_done.
DnsDone ==
  /\ ws = "RESOLVING" /\ wire = "up"
  /\ \/ /\ ws' = "CONNECTING"
        /\ NoFault
        /\ UNCHANGED <<closeCode, session, pace, peer, due>>
     \/ Fault /\ LookupFails
     \/ /\ poolEmpty                  \* start_connect, whose result is dropped
        /\ Fault
        /\ ws' = "CLOSED"
        /\ UNCHANGED <<closeCode, session, pace, peer, due>>
  /\ UNCHANGED <<memory, relay, wire, net, owed>>

\* on_connected: whoever holds the address answers.  A certificate that is
\* validated against the built-in name lets only the relay through.
Connected ==
  /\ ws = "CONNECTING" /\ wire = "up"
  /\ \/ /\ ws' = "HANDSHAKING" /\ peer' = "relay" /\ NoFault
        /\ UNCHANGED <<closeCode, session, pace, due>>
     \/ /\ ~MayEnrol
        /\ ws' = "HANDSHAKING" /\ peer' = "stranger" /\ Fault
        /\ UNCHANGED <<closeCode, session, pace, due>>
     \/ Fault /\ Teardown(session, "none")
  /\ UNCHANGED <<memory, relay, wire, net, owed>>

\* Mutated form: an accepted connection resets the back-off.
BackoffOnOpen_Reset == backoff' = 1

BackoffOnOpen == UNCHANGED backoff

\* handle_handshake_bytes and on_open: hello is sent, or the connection given
\* up; an endpoint that is no relay is refused.
Upgraded ==
  /\ ws = "HANDSHAKING" /\ wire = "up"
  /\ \/ /\ ws' = "OPEN" /\ session' = "AUTHENTICATING"
        /\ due' = IF peer = "relay" THEN "challenge" ELSE "nothing"
        /\ BackoffOnOpen
        /\ NoFault
        /\ UNCHANGED <<closeCode, retryDue, peer>>
     \/ Fault /\ Teardown(session, "none")
  /\ UNCHANGED <<memory, relay, wire, net, owed>>

\* rw_ws_task: the connection never opened.
NeverOpens ==
  /\ ws \in {"RESOLVING", "CONNECTING", "HANDSHAKING"} /\ wire = "dead"
  /\ NoFault
  /\ Teardown(session, "none")
  /\ UNCHANGED <<memory, relay, wire, net, owed>>

-------------------------------------------------------------------------------
\* Authenticating: frames are delivered on a closing connection too.

Hears(reply) == ws \in {"OPEN", "CLOSING"} /\ wire = "up" /\ due = reply

\* The relay's answer to auth, and to enrol.  A relay that has revoked the token
\* completes the handshake and closes with 4002 then.
AuthVerdict == IF record = "held" THEN "ack" ELSE "reject"
EnrolVerdict == IF record = "taken" THEN "reject" ELSE "ack"

\* What a stranger may say: any frame of the handshake, at any time, but no proof
\* that nobody has computed.  One that passes the relay's on is part of the wire.
Sayings == IF provable THEN Replies ELSE Replies \ {"ack"}

StrangerSpeaks ==
  /\ peer = "stranger" /\ ws \in {"OPEN", "CLOSING"} /\ wire = "up" /\ due = "nothing"
  /\ Fault
  /\ due' \in Sayings
  /\ UNCHANGED <<socket, session, pace, memory, peer, relay, wire, net, owed>>

\* A frame that was sent and is answered, if by the relay, or is lost with the wire.
Answered(replies) ==
  /\ NoFault
  /\ due' \in IF peer = "relay" THEN replies ELSE {"nothing"}
  /\ UNCHANGED wire
Lost == Fault /\ due' = "nothing" /\ wire' = "dead"

\* handle_challenge of a device that was accepted before: send_auth.
ChallengeAuth ==
  /\ Hears("challenge") /\ session = "AUTHENTICATING"
  /\ cfg.enrolled
  /\ ws = "OPEN"
  /\ \/ Answered({AuthVerdict}) /\ provable' = (peer = "relay" /\ record = "held")
     \/ Lost /\ provable' = FALSE
  /\ UNCHANGED <<socket, session, pace, cfg, flash, enrolling, unsaved, peer, relay, net, owed>>

EnrolSent == UNCHANGED cfg

\* handle_challenge on first contact: send_enrol, and a relay that accepts it
\* keeps the token.
ChallengeEnrol ==
  /\ Hears("challenge") /\ session = "AUTHENTICATING"
  /\ ~cfg.enrolled /\ MayEnrol
  /\ ws = "OPEN"
  /\ enrolling' = TRUE
  /\ EnrolSent
  /\ \/ /\ Answered({EnrolVerdict})
        /\ provable' = (record # "taken")
        /\ record' = IF record = "taken" THEN "taken" ELSE "held"
     \/ Lost /\ provable' = FALSE /\ UNCHANGED record
  /\ UNCHANGED <<socket, session, pace, flash, unsaved, peer, home, revoked, net, owed>>

\* handle_challenge when there is no nonce to answer, when the answer may not be
\* sent, and when it cannot: the proof to wait for has then been computed.
ChallengeFails ==
  /\ Hears("challenge") /\ session = "AUTHENTICATING"
  /\ IF ws = "OPEN" /\ (cfg.enrolled \/ MayEnrol) THEN Fault ELSE NoFault
  /\ FailAuth
  /\ \/ UNCHANGED <<enrolling, provable>>
     \/ /\ cfg.enrolled \/ MayEnrol
        /\ enrolling' = (enrolling \/ ~cfg.enrolled)
        /\ provable' = FALSE
  /\ UNCHANGED <<cfg, flash, unsaved, relay, wire, net, owed>>

\* handle_challenge in any other state.
ChallengeIgnored ==
  /\ Hears("challenge") /\ session # "AUTHENTICATING"
  /\ due' = "nothing"
  /\ UNCHANGED <<socket, session, pace, memory, peer, relay, wire, net, faults, owed>>

\* proof_s verifies.
Proven == Hears("ack")

\* handle_hello_ack, accepted, in whatever state: READY, an enrolment is complete,
\* the owner's address is offered.
HelloAck ==
  /\ Proven
  /\ session' = "READY"
  /\ backoff' = 1 /\ owed' = 1
  /\ IF enrolling
     THEN cfg' = [cfg EXCEPT !.enrolled = TRUE] /\ unsaved' = TRUE /\ enrolling' = FALSE
     ELSE UNCHANGED <<cfg, unsaved, enrolling>>
  /\ IF cfg.owner /\ ws = "OPEN"
     THEN Answered({"adoptAck", "adoptRefused"}) \/ Lost
     ELSE Answered({"nothing"})
  /\ UNCHANGED <<socket, retryDue, flash, provable, peer, relay, net>>

\* handle_hello_ack, rejected or with a proof that does not verify.
HelloRefused ==
  /\ Hears("badProof") \/ Hears("reject")
  /\ FailAuth
  /\ UNCHANGED <<memory, relay, wire, net, faults, owed>>

\* handle_adopt_ack: the address is forgotten once the relay has it.
AdoptAck ==
  /\ Hears("adoptAck") \/ Hears("adoptRefused")
  /\ due' = "nothing"
  /\ IF due = "adoptAck"
     THEN cfg' = [cfg EXCEPT !.owner = FALSE] /\ unsaved' = TRUE
     ELSE UNCHANGED <<cfg, unsaved>>
  /\ UNCHANGED <<socket, session, pace, flash, enrolling, provable, peer, relay, wire, net, faults,
                 owed>>

-------------------------------------------------------------------------------
\* Losing the connection.

\* A close frame from the peer: the answer to ours, the one a revoked device is
\* owed once it has proved itself, or any other.  A stranger may send any code, in
\* any state.
PeerCloses ==
  /\ ws \in {"OPEN", "CLOSING"} /\ wire = "up"
  /\ \/ ws = "CLOSING" /\ NoFault /\ Teardown(session, closeCode)
     \/ /\ session = "READY" /\ peer = "relay" /\ revoked
        /\ NoFault /\ Teardown(session, "revoked")
     \/ Fault /\ \E code \in {"policy", "other"} : Teardown(session, code)
     \/ Fault /\ peer = "stranger" /\ Teardown(session, "revoked")
  /\ UNCHANGED <<memory, relay, wire, net, owed>>

\* on_err, the end of the stream, or a frame that cannot be sent.
TransportLost ==
  /\ ws # "CLOSED"
  /\ Fault
  /\ Teardown(session, "none")
  /\ UNCHANGED <<memory, relay, wire, net, owed>>

\* pump_frames refuses a frame: framing, size, or a binary frame not expected.
FrameRefused ==
  /\ ws = "OPEN" /\ wire = "up"
  /\ Fault
  /\ \E code \in {"policy", "other"} :
       Close(session, code, due) \/ Teardown(session, code)
  /\ UNCHANGED <<memory, relay, wire, net, owed>>

\* Nothing comes from the peer: the wire is dead, or a stranger is silent.
Silent == wire = "dead" \/ (peer = "stranger" /\ due = "nothing")

\* rw_ws_task: nothing has arrived for 75 s.
IdleExpires ==
  /\ ws = "OPEN" /\ Silent
  /\ NoFault
  /\ Close(session, "other", due)
  /\ UNCHANGED <<memory, relay, wire, net, owed>>

\* rw_ws_task: the peer's close does not come.
GraceExpires ==
  /\ ws = "CLOSING"
  /\ NoFault
  /\ Teardown(session, closeCode)
  /\ UNCHANGED <<memory, relay, wire, net, owed>>

\* rw_relay_task: READY, and no text for 75 s, or a ping that cannot be sent.
KeepaliveFails ==
  /\ session = "READY"
  /\ Silent \/ ws = "CLOSING"
  /\ NoFault
  /\ Teardown(session, "none")
  /\ UNCHANGED <<memory, relay, wire, net, owed>>

-------------------------------------------------------------------------------
\* Everything else.

RetryTimer ==
  /\ ~retryDue
  /\ retryDue' = TRUE
  /\ UNCHANGED <<socket, session, backoff, memory, peer, due, relay, wire, net, faults, owed>>

\* rw_relay_task writes what a callback changed; a failure is dropped.
Persist ==
  /\ unsaved
  /\ unsaved' = FALSE
  /\ \/ flash' = cfg /\ NoFault
     \/ UNCHANGED flash /\ Fault
  /\ UNCHANGED <<socket, session, pace, cfg, enrolling, provable, peer, due, relay, wire, net, owed>>

\* cmd_commit: the flag is carried over, the address is what the host staged.  The
\* relay and the token may be others than before, of which the relay, as yet, has
\* revoked neither.
Saved ==
  /\ cfg' \in {c \in Settings : c.enrolled = cfg.enrolled}
  /\ flash' = cfg'
  /\ \/ UNCHANGED relay
     \/ home' \in BOOLEAN /\ record' \in Records /\ revoked' = FALSE

\* COMMIT without a restart: the session is stopped and started, whatever state it
\* is in.
Commit ==
  /\ Fault
  /\ Saved
  /\ Hangup
  /\ session' = "BACKOFF"
  /\ backoff' = IF ws = "CLOSED" THEN backoff ELSE Doubled(backoff)
  /\ owed' = backoff'
  /\ retryDue' = TRUE
  /\ UNCHANGED <<enrolling, unsaved, provable, wire, net>>

\* main() up to rw_relay_start.
Boots ==
  /\ Hangup
  /\ session' = "BACKOFF"
  /\ backoff' = 1 /\ owed' = 1 /\ retryDue' = TRUE
  /\ enrolling' = FALSE /\ unsaved' = FALSE /\ provable' = FALSE
  /\ UNCHANGED <<wire, net>>

\* COMMIT of what is read once at boot: the device restarts, a moment later.
CommitRestarts == Fault /\ Saved /\ Boots

\* The power is cut, or the device restarts.
Restart == Fault /\ cfg' = flash /\ Boots /\ UNCHANGED <<flash, relay>>

\* The world: the network goes and comes, a live connection goes half open, the
\* relay deprovisions the device.
NetDown == net /\ Fault /\ net' = FALSE
  /\ UNCHANGED <<socket, session, pace, memory, peer, due, relay, wire, owed>>

NetUp == ~net /\ net' = TRUE
  /\ UNCHANGED <<socket, session, pace, memory, peer, due, relay, wire, faults, owed>>

WireDies == ws # "CLOSED" /\ wire = "up" /\ Fault /\ wire' = "dead"
  /\ UNCHANGED <<socket, session, pace, memory, peer, due, relay, net, owed>>

Revoke == record = "held" /\ ~revoked /\ Fault /\ revoked' = TRUE
  /\ UNCHANGED <<socket, session, pace, memory, peer, due, home, record, wire, net, owed>>

\* The record is dropped, or displaced by another's.
Forget == record = "held" /\ ~revoked /\ Fault /\ record' \in Records \ {"held"}
  /\ UNCHANGED <<socket, session, pace, memory, peer, due, home, revoked, wire, net, owed>>

-------------------------------------------------------------------------------
Connecting == Attempt \/ AttemptFails \/ AttemptRefused \/ DnsDone \/ Connected \/ Upgraded
              \/ NeverOpens
Authenticating == ChallengeAuth \/ ChallengeEnrol \/ ChallengeFails \/ ChallengeIgnored
                  \/ HelloAck \/ HelloRefused \/ AdoptAck
Losing == PeerCloses \/ TransportLost \/ FrameRefused \/ IdleExpires \/ GraceExpires
          \/ KeepaliveFails
Else == RetryTimer \/ Persist \/ Commit \/ CommitRestarts \/ Restart
        \/ NetDown \/ NetUp \/ WireDies \/ Revoke \/ Forget \/ StrangerSpeaks

\* The size of the pool outlives every step.
Step(action) == action /\ UNCHANGED poolEmpty

Next == Step(Connecting \/ Authenticating \/ Losing \/ Else)

Spec == Init /\ [][Next]_vars

\* The main loop runs, its timers expire, and a network and a relay that suffer
\* no more faults do their part.
Fairness ==
  /\ WF_vars(Step(Connecting)) /\ WF_vars(Step(Authenticating)) /\ WF_vars(Step(IdleExpires))
  /\ WF_vars(Step(PeerCloses)) /\ WF_vars(Step(GraceExpires)) /\ WF_vars(Step(KeepaliveFails))
  /\ WF_vars(Step(RetryTimer)) /\ WF_vars(Step(NetUp))

FairSpec == Spec /\ Fairness

-------------------------------------------------------------------------------
\* The session and the socket agree: a session that waits for a connection has
\* one, and a session that is to try again has none left.  Otherwise
\* rw_relay_task would wait for a callback that never comes.
SessionHasSocket ==
  /\ session = "CONNECTING" /\ ~poolEmpty => ws \in {"RESOLVING", "CONNECTING", "HANDSHAKING"}
  /\ session \in {"AUTHENTICATING", "READY"} => ws \in {"OPEN", "CLOSING"}
  /\ session = "AUTH_FAILED" => ws \in {"CLOSED", "CLOSING"}
  /\ session \in {"BACKOFF", "STOPPED"} => ws = "CLOSED"

\* Every attempt since the last READY has been paid for when the next may begin,
\* however the attempts ended (on_close, rw_relay_task).
AttemptsArePaid == MayAttempt => backoff >= owed

\* A session is READY only on a proof that a holder of the token has computed, and
\* with the relay itself if it is the built-in one (handle_hello_ack).
ReadyIsProven == session = "READY" => provable /\ (home => peer = "relay")

\* A device of the built-in relay stops for good only if the relay has deprovisioned
\* it, whatever codes its connections were closed with (on_close).
StoppedOnlyIfRevoked == session = "STOPPED" /\ home => revoked

\* The same of every device, as proto.c and PROTOCOL.md have it of 4002: a device
\* that has stopped for good has been deprovisioned (on_close).  The code does not
\* have it.
StopIsDeserved == session = "STOPPED" => revoked

\* The relay would accept the device, by the flag that the device goes by.
Welcome == IF cfg.enrolled THEN record = "held" ELSE MayEnrol /\ record # "taken"

\* Once the faults are over, a device that its relay would accept is back in a
\* session that works, unless it was told to stop.
ComesBack ==
  ~poolEmpty =>
    <>[](~Welcome \/ session = "STOPPED" \/ (session = "READY" /\ ws = "OPEN" /\ wire = "up"))

\* A device whose operator gave the relay its token by hand gets to READY: for
\* this, self-hosting needs no enrolment (handle_challenge, may_enrol).
ByHandConnects == ~home /\ ~cfg.enrolled /\ record = "held" => <>(session = "READY")
===============================================================================
