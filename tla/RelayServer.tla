------------------------------ MODULE RelayServer -----------------------------
(***************************************************************************)
(* The reference relay (relay-reference/server.js), as one device and the  *)
(* HTTP callers who want it see it: the sockets that claim to be the       *)
(* device, the one registered for it, and the requests that wait on one.   *)
(*                                                                         *)
(* The relay is one event loop: each handler runs to its end.  What a      *)
(* handler asks of a socket (close, terminate) ends in a close event later; *)
(* until then frames still come in, and the socket can still be the one    *)
(* that is registered.  The sockets (the ws library), the device's side of *)
(* them and the callers are the environment.                               *)
(***************************************************************************)
EXTENDS Naturals

CONSTANTS MaxConns, MaxRequests    \* bounds: sockets, and requests, in one run

ASSUME BoundsAssumption == MaxConns \in Nat \ {0} /\ MaxRequests \in Nat

VARIABLES
  state,        \* Connection.state, of each socket; "none" before it connects
  ws,           \* its readyState: "open", "closing" or "closed"
  live,         \* is the device still at the other end?
  handshake,    \* is handshakeTimer armed?
  last,         \* is the timer armed that terminates a socket told to close?
  registered,   \* DeviceRecord.conn, 0 for null
  request,      \* what has become of each HTTP request
  on,           \* the socket whose `pending` has it
  serving,      \* has the relay not been told to stop?
  latest        \* history: the last socket to authenticate

sockets == <<state, ws, live, handshake, last>>
requests == <<request, on>>
vars == <<sockets, registered, requests, serving, latest>>

Conns == 1 .. MaxConns
Requests == 1 .. MaxRequests
Outcomes == {"frame", "timeout", "disconnected", "send_failed", "offline", "refused"}

TypeOK ==
  /\ state \in [Conns -> {"none", "hello", "auth", "open", "closed"}]
  /\ ws \in [Conns -> {"open", "closing", "closed"}]
  /\ live \in [Conns -> BOOLEAN]
  /\ handshake \in [Conns -> BOOLEAN]
  /\ last \in [Conns -> BOOLEAN]
  /\ registered \in Conns \cup {0} /\ latest \in Conns \cup {0}
  /\ request \in [Requests -> {"new", "waiting"} \cup Outcomes]
  /\ on \in [Requests -> Conns \cup {0}]
  /\ serving \in BOOLEAN

-------------------------------------------------------------------------------
(* Helpers *)

\* Its close event has not come yet.
Here(c) == state[c] \in {"hello", "auth", "open"}

\* Connection.close for the sockets of a set: the state stays what it is. The
\* timer to terminate is what ends a socket whose peer has gone.
LastResort_None == FALSE
LastResort == TRUE
Close(cs) ==
  /\ ws' = [c \in Conns |-> IF c \in cs /\ ws[c] = "open" THEN "closing" ELSE ws[c]]
  /\ handshake' = [c \in Conns |-> handshake[c] /\ c \notin cs]
  /\ last' = [c \in Conns |-> last[c] \/ (c \in cs /\ LastResort)]

\* settleAll of the sockets of a set.
Waiting(cs) == {r \in Requests : request[r] = "waiting" /\ on[r] \in cs}
SettleAll(cs, outcome) ==
  request' = [r \in Requests |-> IF r \in Waiting(cs) THEN outcome ELSE request[r]]

\* The sockets a newly authenticated one supersedes.
Previous(c) == {registered} \ {0, c}

\* What a supersession settles, and what it closes.
Orphaned_None(c) == {}
Orphaned(c) == Previous(c)
Superseded_None(c) == {}
Superseded(c) == Previous(c)

\* What onClose leaves registered.
Unregistered_Always(c) == 0
Unregistered(c) == IF registered = c THEN 0 ELSE registered

-------------------------------------------------------------------------------
Init ==
  /\ state = [c \in Conns |-> "none"]
  /\ ws = [c \in Conns |-> "closed"]
  /\ live = [c \in Conns |-> FALSE]
  /\ handshake = [c \in Conns |-> FALSE]
  /\ last = [c \in Conns |-> FALSE]
  /\ registered = 0 /\ latest = 0
  /\ request = [r \in Requests |-> "new"]
  /\ on = [r \in Requests |-> 0]
  /\ serving = TRUE

-------------------------------------------------------------------------------
(* Sockets *)

\* The upgrade is accepted, and a Connection made.
Connects(c) ==
  /\ serving /\ state[c] = "none" /\ \A d \in Conns : d < c => state[d] # "none"
  /\ state' = [state EXCEPT ![c] = "hello"]
  /\ ws' = [ws EXCEPT ![c] = "open"]
  /\ live' = [live EXCEPT ![c] = TRUE]
  /\ handshake' = [handshake EXCEPT ![c] = TRUE]
  /\ UNCHANGED <<last, registered, requests, serving, latest>>

\* onHello with a version and an id that will do: a challenge, whoever asks.
OnHello(c) ==
  /\ state[c] = "hello"
  /\ state' = [state EXCEPT ![c] = "auth"]
  /\ UNCHANGED <<ws, live, handshake, last, registered, requests, serving, latest>>

\* A frame the relay closes on: a bad hello, a wrong proof, a binary frame, or
\* one that does not parse before the socket is open.
Rejects(c) ==
  /\ Here(c)
  /\ Close({c})
  /\ UNCHANGED <<state, live, registered, requests, serving, latest>>

\* onAuth with the right proof: registered first, then the one before it is
\* superseded. A frame that comes after close() is looked at like any other.
OnAuth(c) ==
  /\ state[c] = "auth"
  /\ state' = [state EXCEPT ![c] = "open"]
  /\ registered' = c /\ latest' = c
  /\ SettleAll(Orphaned(c), "disconnected")
  /\ ws' = [d \in Conns |-> IF d \in Superseded(c) /\ ws[d] = "open" THEN "closing" ELSE ws[d]]
  /\ handshake' = [d \in Conns |-> handshake[d] /\ d \notin Superseded(c) \cup {c}]
  /\ last' = [d \in Conns |-> last[d] \/ (d \in Superseded(c) /\ LastResort)]
  /\ UNCHANGED <<live, on, serving>>

\* handshakeTimer
HandshakeExpires(c) ==
  /\ Here(c) /\ handshake[c]
  /\ Close({c})
  /\ UNCHANGED <<state, live, registered, requests, serving, latest>>

\* The sweeper: nothing has been heard for IDLE_TIMEOUT_MS, which of a device
\* that answers pings is not so.
Sweep(c) ==
  /\ serving /\ Here(c) /\ ~live[c]
  /\ Close({c})
  /\ UNCHANGED <<state, live, registered, requests, serving, latest>>

\* onClose: requests are settled and the registration goes, if it was this one's.
OnClose(c) ==
  /\ state' = [state EXCEPT ![c] = "closed"]
  /\ ws' = [ws EXCEPT ![c] = "closed"]
  /\ live' = [live EXCEPT ![c] = FALSE]
  /\ handshake' = [handshake EXCEPT ![c] = FALSE]
  /\ last' = [last EXCEPT ![c] = FALSE]
  /\ SettleAll({c}, "disconnected")
  /\ registered' = Unregistered(c)
  /\ UNCHANGED <<on, serving, latest>>

\* The device closes, or answers a close, or the socket fails.
PeerCloses(c) == Here(c) /\ OnClose(c)

\* terminate(), five seconds after close().
Terminates(c) == Here(c) /\ last[c] /\ OnClose(c)

\* The device drops a socket without a word: it restarts, or its link breaks.
Abandons(c) ==
  /\ live[c]
  /\ live' = [live EXCEPT ![c] = FALSE]
  /\ UNCHANGED <<state, ws, handshake, last, registered, requests, serving, latest>>

\* close() of the relay: every socket is told to go, and terminated.
Shutdown ==
  /\ serving
  /\ serving' = FALSE
  /\ Close({c \in Conns : Here(c)})
  /\ UNCHANGED <<state, live, registered, requests, latest>>

-------------------------------------------------------------------------------
(* Requests *)

\* POST /wake and POST /status as far as the device: nobody is registered; the
\* device cannot, or has been asked too often; the socket is on its way out;
\* or the frame goes, and the request waits.
Asks(r) ==
  /\ serving /\ request[r] = "new" /\ \A q \in Requests : q < r => request[q] # "new"
  /\ \/ /\ registered = 0
        /\ request' = [request EXCEPT ![r] = "offline"] /\ UNCHANGED on
     \/ /\ registered # 0
        /\ request' = [request EXCEPT ![r] = "refused"] /\ UNCHANGED on
     \/ /\ registered # 0 /\ ws[registered] # "open"
        /\ request' = [request EXCEPT ![r] = "send_failed"] /\ UNCHANGED on
     \/ /\ registered # 0 /\ ws[registered] = "open"
        /\ request' = [request EXCEPT ![r] = "waiting"]
        /\ on' = [on EXCEPT ![r] = registered]
  /\ UNCHANGED <<sockets, registered, serving, latest>>

\* onAppFrame: an answer on the socket whose `pending` has the request; one to
\* a request that is settled finds nothing.
Answers(r) ==
  /\ request[r] = "waiting" /\ state[on[r]] = "open"
  /\ request' = [request EXCEPT ![r] = "frame"]
  /\ UNCHANGED <<sockets, registered, on, serving, latest>>

\* The request's own timer.
TimesOut(r) ==
  /\ request[r] = "waiting"
  /\ request' = [request EXCEPT ![r] = "timeout"]
  /\ UNCHANGED <<sockets, registered, on, serving, latest>>

-------------------------------------------------------------------------------
Next ==
  \/ \E c \in Conns :
       \/ Connects(c) \/ OnHello(c) \/ OnAuth(c) \/ Rejects(c) \/ HandshakeExpires(c)
       \/ Sweep(c) \/ PeerCloses(c) \/ Terminates(c) \/ Abandons(c)
  \/ \E r \in Requests : Asks(r) \/ Answers(r) \/ TimesOut(r)
  \/ Shutdown

\* The event loop fires the timers that are due.
Fairness ==
  /\ \A c \in Conns : WF_vars(HandshakeExpires(c)) /\ WF_vars(Sweep(c)) /\ WF_vars(Terminates(c))
  /\ \A r \in Requests : WF_vars(TimesOut(r))

Spec == Init /\ [][Next]_vars /\ Fairness

-------------------------------------------------------------------------------
(* Properties *)

\* The registration is that of the last socket to authenticate, until its own
\* close event and no other: the one it superseded closes after it and must not
\* take the registration with it (server.js:569).
RegisteredIsLatest ==
  registered = IF latest # 0 /\ state[latest] = "open" THEN latest ELSE 0

\* Of the sockets that have authenticated only the registered one is still
\* open: the device is never talked to on two.
OneOpenSocket ==
  \A c \in Conns : state[c] = "open" /\ ws[c] = "open" => c = registered

\* A request waits only on the registered socket: what was asked of one that is
\* superseded or closed is told so at once, and does not sit out its timeout.
WaitsOnTheRegistered ==
  \A r \in Requests : request[r] = "waiting" => on[r] = registered

\* A socket whose device has gone, or that never authenticates, is closed in the
\* end, though its peer answers no close.
Lost(c) == Here(c) /\ (~live[c] \/ state[c] # "open")
NothingLingers == \A c \in Conns : Lost(c) ~> ~Lost(c)

===============================================================================
