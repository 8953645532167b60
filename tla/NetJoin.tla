------------------------------- MODULE NetJoin --------------------------------
(***************************************************************************)
(* The network join (firmware/src/net/net.c): association, address, clock, *)
(* and the attempts, back-off and ladder of handshakes that bring them     *)
(* back.  rw_net_task() runs once in each turn of the main loop and looks  *)
(* at one link status; each of its branches is an action.                  *)
(*                                                                         *)
(* Time passes in ticks.  A deadline is a count of the ticks left, and is  *)
(* reached at zero.  Between two ticks the loop has run as often as it had *)
(* something to do, except while a command pumps the stack (MaxPump).  The *)
(* radio and SNTP are the environment.                                     *)
(***************************************************************************)
EXTENDS Radio

CONSTANTS
  MinBackoff,    \* JOIN_BACKOFF_MIN_MS
  MaxBackoff,    \* JOIN_BACKOFF_MAX_MS
  JoinTimeout,   \* JOIN_TIMEOUT_MS
  DhcpTimeout,   \* DHCP_TIMEOUT_MS, counted from where the join's ends
  AddrGrace,     \* ADDR_LOST_GRACE_MS
  SntpTimeout,   \* SNTP_TIMEOUT_MS
  MaxPump        \* for so long a command that pumps may keep rw_net_task() waiting

\* What the constants are assumed to be; FirstBoot assumes it of its own.
ConstantsOK ==
  /\ MinBackoff \in Nat \ {0} /\ MaxBackoff \in Nat /\ MinBackoff <= MaxBackoff
  /\ JoinTimeout \in Nat \ {0} /\ DhcpTimeout \in Nat \ {0}
  /\ AddrGrace \in Nat \ {0} /\ SntpTimeout \in Nat
  /\ MaxPump \in Nat /\ MaxFaults \in Nat

VARIABLES
  psk,        \* s_psk: is the password "right" or "wrong"?
  auth,       \* s_auth, the configured handshake
  clock,      \* rw_wallclock_valid()
  state,      \* s_state
  attempt,    \* s_auth_attempt, modulo the length of the ladder
  backoff,    \* s_backoff_ms
  timer,      \* the deadlines, in ticks left
  addrLost,   \* s_addr_lost
  lastError,  \* s_last_error
  sntp,       \* s_sntp_started
  warned,     \* s_sntp_warned
  late,       \* for how long the loop has been kept from something it has to do
  since,      \* history: ticks in this attempt
  bare        \* history: ticks since a joined device was last seen with an address

settings == <<psk, auth>>
history == <<since, bare>>
vars == <<radio, faults, settings, clock, state, attempt, backoff, timer, addrLost, lastError,
          sntp, warned, late, history>>

Failures == Refusals \cup {"connect_failed", "join_timeout", "dhcp_timeout", "link_lost",
                           "addr_lost"}
Deadlines == [retry : Nat, join : Nat, dhcp : Nat, grace : Nat, sntp : Nat]

TypeOK ==
  /\ RadioTypeOK
  /\ psk \in {"right", "wrong"} /\ auth \in Modes \cup {"auto"} /\ clock \in BOOLEAN
  /\ state \in {"idle", "joining", "joined", "failed"}
  /\ attempt \in 0 .. 2
  /\ backoff \in MinBackoff .. MaxBackoff
  /\ timer \in Deadlines
  /\ addrLost \in BOOLEAN
  /\ lastError \in Failures \cup {"none", "sntp_timeout"}
  /\ sntp \in BOOLEAN /\ warned \in BOOLEAN
  /\ late \in 0 .. MaxPump
  /\ since \in Nat /\ bare \in Nat

-------------------------------------------------------------------------------
(* Helpers *)

\* k_auto_auth: the transitional mode, then each of the two it covers.
Ladder(n) == IF n = 0 THEN "mixed" ELSE IF n = 1 THEN "wpa2" ELSE "wpa3"

\* auth_to_cyw43, for a network with a password.
AuthToCyw43 == IF auth = "auto" THEN Ladder(attempt) ELSE auth

\* jittered: random(0, backoff).
Jittered(window) == 0 .. window - 1

\* The window after a failure: doubled, up to the cap.
Widened(window) == IF 2 * window > MaxBackoff THEN MaxBackoff ELSE 2 * window

\* schedule_retry, with the window as it is before the call.
ScheduleRetry(why, window) ==
  /\ lastError' = why
  /\ state' = "failed"
  /\ \E delay \in Jittered(window) : timer' = [timer EXCEPT !.retry = delay]
  /\ backoff' = Widened(window)
  /\ since' = 0
  /\ bare' = 0

\* A turn of the loop has got to rw_net_task().
Turn == late' = 0 /\ UNCHANGED <<faults, settings, clock>>

\* Associated, or still at it, and not addressed: for DHCP's deadline to end.
Unaddressed_OnceAssociated == {"noip"}
Unaddressed == {"join", "noip"}

\* What is left of a loss of the address when one is back.
LossOnceAddressed_Kept == addrLost
LossOnceAddressed == FALSE

\* The error once there is a clock.
Withdrawn_Never == lastError
Withdrawn == IF lastError = "sntp_timeout" THEN "none" ELSE lastError

\* The next rung of the ladder; mutated, every failure stays on the same one.
NextRung_Same == attempt
NextRung == (attempt + 1) % 3

-------------------------------------------------------------------------------
\* net.c's variables after a restart.
Rest ==
  /\ state = "idle" /\ attempt = 0 /\ backoff = MinBackoff
  /\ timer = [retry |-> 0, join |-> 0, dhcp |-> 0, grace |-> 0, sntp |-> 0]
  /\ addrLost = FALSE /\ lastError = "none" /\ sntp = FALSE /\ warned = FALSE
  /\ late = 0 /\ since = 0 /\ bare = 0

Init ==
  /\ air = TRUE /\ accepts \in (SUBSET Modes) \ {{}}
  /\ psk \in {"right", "wrong"} /\ auth \in {"auto", "wpa2"}
  /\ link = "down" /\ addr = FALSE /\ clock = FALSE /\ faults = 0
  /\ Rest

\* rw_net_start, from main(): attempt at once.
Start ==
  /\ state = "idle"
  /\ state' = "failed"
  /\ attempt' = 0 /\ backoff' = MinBackoff /\ lastError' = "none"
  /\ timer' = [timer EXCEPT !.retry = 0]
  /\ Turn
  /\ UNCHANGED <<radio, addrLost, sntp, warned, history>>

-------------------------------------------------------------------------------
(* rw_net_task *)

\* begin_join
BeginJoin ==
  /\ state = "failed" /\ timer.retry = 0
  /\ state' = "joining"
  /\ timer' = [timer EXCEPT !.join = JoinTimeout, !.dhcp = JoinTimeout + DhcpTimeout]
  /\ Dial
  /\ since' = 0
  /\ Turn
  /\ UNCHANGED <<attempt, backoff, addrLost, lastError, sntp, warned, bare>>

\* begin_join when the driver will not have it.
ConnectFails ==
  /\ state = "failed" /\ timer.retry = 0
  /\ faults < MaxFaults
  /\ ScheduleRetry("connect_failed", backoff)
  /\ faults' = faults + 1 /\ late' = 0
  /\ UNCHANGED <<radio, settings, clock, attempt, addrLost, sntp, warned>>

\* BADAUTH, NONET and FAIL; only the last is one another handshake may help.
Refused ==
  /\ state \in {"joining", "joined"}
  /\ link \in Refusals
  /\ attempt' = IF link = "fail" THEN NextRung ELSE attempt
  /\ ScheduleRetry(link, backoff)
  /\ Turn
  /\ UNCHANGED <<radio, addrLost, sntp, warned>>

\* start_sntp_once: the clock is asked for once, and its deadline runs from there.
StartSntpOnce ==
  /\ sntp' = TRUE
  /\ IF sntp THEN UNCHANGED <<timer, warned>>
             ELSE timer' = [timer EXCEPT !.sntp = SntpTimeout] /\ warned' = FALSE

\* JOINING and an address is held.
Joined ==
  /\ state = "joining" /\ link = "up"
  /\ state' = "joined"
  /\ backoff' = MinBackoff
  /\ lastError' = "none"
  /\ addrLost' = FALSE
  /\ StartSntpOnce
  /\ since' = 0 /\ bare' = 0
  /\ Turn
  /\ UNCHANGED <<radio, attempt>>

\* Associated, or still associating, and never addressed.
DhcpExpires ==
  /\ state = "joining" /\ link \in Unaddressed
  /\ timer.dhcp = 0
  /\ Leave
  /\ ScheduleRetry("dhcp_timeout", backoff)
  /\ Turn
  /\ UNCHANGED <<attempt, addrLost, sntp, warned>>

\* Nothing came of the attempt at all.
JoinExpires ==
  /\ state = "joining" /\ link = "down"
  /\ timer.join = 0
  /\ ScheduleRetry("join_timeout", backoff)
  /\ Turn
  /\ UNCHANGED <<radio, attempt, addrLost, sntp, warned>>

\* JOINED, and the link is no longer up; it is not left.
LinkLost ==
  /\ state = "joined" /\ link \in {"down", "join", "noip"}
  /\ ScheduleRetry("link_lost", MinBackoff)
  /\ Turn
  /\ UNCHANGED <<radio, attempt, addrLost, sntp, warned>>

Bare == state = "joined" /\ link = "up" /\ ~addr

\* An association without an address is given a grace.
AddrGone ==
  /\ Bare /\ ~addrLost
  /\ addrLost' = TRUE
  /\ timer' = [timer EXCEPT !.grace = AddrGrace]
  /\ Turn
  /\ UNCHANGED <<radio, state, attempt, backoff, lastError, sntp, warned, history>>

\* The grace is over: leave, and join afresh.
AddrExpires ==
  /\ Bare /\ addrLost
  /\ timer.grace = 0
  /\ Leave
  /\ addrLost' = FALSE
  /\ ScheduleRetry("addr_lost", MinBackoff)
  /\ Turn
  /\ UNCHANGED <<attempt, sntp, warned>>

\* An ordinary turn of a joined device: what is over is withdrawn, and a clock
\* that does not come is complained of once.
Settles ==
  /\ state = "joined" /\ link = "up" /\ addr
  /\ addrLost' = LossOnceAddressed
  /\ IF clock
       THEN /\ lastError' = Withdrawn
            /\ warned' = FALSE
       ELSE IF ~warned /\ timer.sntp = 0
            THEN lastError' = "sntp_timeout" /\ warned' = TRUE
            ELSE UNCHANGED <<lastError, warned>>
  /\ bare' = 0
  /\ Turn
  /\ UNCHANGED <<radio, state, attempt, backoff, timer, sntp, since>>

Task ==
  \/ BeginJoin \/ ConnectFails \/ Refused \/ Joined \/ DhcpExpires \/ JoinExpires
  \/ LinkLost \/ AddrGone \/ AddrExpires \/ Settles

\* The next turn of the loop has something to do.
Due ==
  \/ state = "idle"
  \/ state = "failed" /\ timer.retry = 0
  \/ state \in {"joining", "joined"} /\ link \in Refusals
  \/ state = "joining" /\ link = "up"
  \/ state = "joining" /\ link \in Unaddressed /\ timer.dhcp = 0
  \/ state = "joining" /\ link = "down" /\ timer.join = 0
  \/ state = "joined" /\ link \in {"down", "join", "noip"}
  \/ Bare /\ (addrLost => timer.grace = 0)
  \/ /\ state = "joined" /\ link = "up" /\ addr
     /\ \/ addrLost
        \/ clock /\ (lastError = "sntp_timeout" \/ warned)
        \/ ~clock /\ ~warned /\ timer.sntp = 0

Less(n) == IF n = 0 THEN 0 ELSE n - 1

\* Time passes; beyond what is due only while a command pumps.
Tick ==
  /\ Due => late < MaxPump
  /\ late' = IF Due THEN late + 1 ELSE 0
  /\ timer' = [d \in DOMAIN timer |-> Less(timer[d])]
  /\ since' = IF state = "joining" THEN since + 1 ELSE 0
  /\ bare' = IF state # "joined" \/ (addr /\ ~addrLost) THEN 0 ELSE bare + 1
  /\ UNCHANGED <<radio, faults, settings, clock, state, attempt, backoff, addrLost, lastError,
                 sntp, warned>>

-------------------------------------------------------------------------------
(* The radio and SNTP *)

Within(radioStep) ==
  /\ radioStep
  /\ UNCHANGED <<settings, clock, state, attempt, backoff, timer, addrLost, lastError, sntp,
                 warned, late, history>>

Radios == Within(Surroundings(AuthToCyw43, psk = "right"))

\* SNTP answers.
ClockSet ==
  /\ sntp /\ link = "up" /\ addr /\ ~clock
  /\ clock' = TRUE
  /\ UNCHANGED <<radio, faults, settings, state, attempt, backoff, timer, addrLost, lastError,
                 sntp, warned, late, history>>

Next == Start \/ Task \/ Tick \/ Radios \/ ClockSet

\* What a turn of the loop must do at once, and what the network must do in the end.
Turns ==
  \/ Start \/ BeginJoin \/ Refused \/ Joined \/ DhcpExpires \/ JoinExpires \/ LinkLost
  \/ AddrGone \/ AddrExpires
TakenIn    == Within(Associates(AuthToCyw43, psk = "right"))
TurnedAway == Within(Refuses(AuthToCyw43, psk = "right"))
Addressed  == Within(Leased)

\* The loop runs and time passes; a network that is there answers an attempt
\* now and then, if not every one.
Fairness ==
  /\ WF_vars(Turns) /\ WF_vars(Settles) /\ WF_vars(Tick)
  /\ SF_vars(TakenIn) /\ SF_vars(TurnedAway) /\ SF_vars(Addressed)

Spec == Init /\ [][Next]_vars /\ Fairness

-------------------------------------------------------------------------------
(* Properties *)

\* No attempt lasts longer than its deadlines, and no association is held
\* without an address for longer than its grace, however the driver's status
\* moves meanwhile: three times a device sat for hours in the second of these
\* (net.c:346), where the stuck-link detector does not look.
NothingStalls ==
  /\ since <= JoinTimeout + DhcpTimeout + MaxPump
  /\ bare <= AddrGrace + 2 * MaxPump

\* A joined device goes back to joining.
GivenUp == state = "joined" /\ state' = "failed"

\* Whatever has a joined device join again, the link status is not "up", or the
\* device has been without an address, as far as the loop could see, for the whole
\* of the grace: neither a loss noted in an earlier association nor one that was
\* made good shortens it.  The exception is net.c:341, which takes every other
\* status for a lost link, and with them the association that is held and has lost
\* its address ("noip"): it gets no grace.
GraceIsWhole == [][GivenUp => link # "up" \/ (~addr /\ bare >= AddrGrace)]_vars

\* Without that exception, as the grace is described (net.c:43: "How long an
\* association may hold no address before it is treated as a lost link.  Not
\* instantaneous"): what has a device join again before the grace is over is that
\* it has no association.  The code does not have it.
RebindIsWaitedOut ==
  [][GivenUp => link \in Refusals \cup {"down", "join"} \/ (~addr /\ bare >= AddrGrace)]_vars

\* An error does not outlive its cause: a joined device whose clock has come
\* blames nothing in the end, though the complaint was raised after the join
\* that clears all the others (net.c:386).
ErrorsPass == (state = "joined" /\ clock) ~> (lastError = "none" \/ state # "joined")

===============================================================================
