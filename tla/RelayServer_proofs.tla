-------------------------- MODULE RelayServer_proofs --------------------------
(***************************************************************************)
(* The reference relay, for any number of sockets and of requests: which   *)
(* of a device's sockets is the registered one, and what waits on it.      *)
(***************************************************************************)
EXTENDS RelayServer, TLAPS

\* A request waits on a socket, and on the registered one.
WaitInv == \A r \in Requests : request[r] = "waiting" => on[r] = registered /\ on[r] # 0

IInv ==
  /\ TypeOK
  /\ RegisteredIsLatest
  /\ OneOpenSocket
  /\ WaitInv

LEMMA ZeroIsNoSocket == 0 \notin Conns
BY BoundsAssumption DEF Conns

LEMMA InitInv == Init => IInv
BY ZeroIsNoSocket, BoundsAssumption
   DEF Init, IInv, TypeOK, RegisteredIsLatest, OneOpenSocket, WaitInv, Outcomes

-------------------------------------------------------------------------------
(* What the helpers do to one socket and one request *)

LEMMA CloseType ==
  ASSUME TypeOK, NEW cs, Close(cs)
  PROVE  /\ ws' \in [Conns -> {"open", "closing", "closed"}]
         /\ handshake' \in [Conns -> BOOLEAN]
         /\ last' \in [Conns -> BOOLEAN]
         /\ \A d \in Conns : ws'[d] = "open" => ws[d] = "open" /\ d \notin cs
BY DEF TypeOK, Close, LastResort

LEMMA SettleAllType ==
  ASSUME TypeOK, NEW cs, SettleAll(cs, "disconnected")
  PROVE  /\ request' \in [Requests -> {"new", "waiting"} \cup Outcomes]
         /\ \A r \in Requests :
              request'[r] = "waiting" => request[r] = "waiting" /\ on[r] \notin cs
BY DEF TypeOK, SettleAll, Waiting, Outcomes

-------------------------------------------------------------------------------
(* One lemma for each handler that does more than one thing *)

LEMMA OnAuthStep ==
  ASSUME IInv, NEW c \in Conns, OnAuth(c)
  PROVE  IInv'
<1> USE ZeroIsNoSocket DEF IInv, OnAuth
<1>1. Superseded(c) = Previous(c) /\ Orphaned(c) = Previous(c)
  BY DEF Superseded, Orphaned
<1>2. TypeOK'
  <2>1. request' \in [Requests -> {"new", "waiting"} \cup Outcomes]
    BY SettleAllType
  <2>2. /\ ws' \in [Conns -> {"open", "closing", "closed"}]
        /\ handshake' \in [Conns -> BOOLEAN] /\ last' \in [Conns -> BOOLEAN]
    BY DEF TypeOK, LastResort
  <2>3. QED
    BY <2>1, <2>2 DEF TypeOK
<1>3. RegisteredIsLatest'
  BY DEF TypeOK, RegisteredIsLatest
<1>4. OneOpenSocket'
  <2> SUFFICES ASSUME NEW d \in Conns, state'[d] = "open", ws'[d] = "open", d # c
               PROVE  FALSE
    BY DEF OneOpenSocket
  <2>1. state[d] = "open" /\ ws[d] = "open" /\ d \notin Superseded(c)
    BY DEF TypeOK
  <2>2. d = registered
    BY <2>1 DEF OneOpenSocket
  <2>3. QED
    BY <1>1, <2>1, <2>2 DEF Previous
<1>5. WaitInv'
  <2> SUFFICES ASSUME NEW r \in Requests, request'[r] = "waiting"
               PROVE  on'[r] = registered' /\ on'[r] # 0
    BY DEF WaitInv
  <2>1. request[r] = "waiting" /\ on[r] \notin Orphaned(c)
    BY SettleAllType
  <2>2. on[r] = registered /\ on[r] # 0
    BY <2>1 DEF WaitInv
  <2>3. on[r] = c
    BY <1>1, <2>1, <2>2 DEF Previous
  <2>4. QED
    BY <2>2, <2>3
<1>6. QED
  BY <1>2, <1>3, <1>4, <1>5

LEMMA OnCloseStep ==
  ASSUME IInv, NEW c \in Conns, OnClose(c)
  PROVE  IInv'
<1> USE ZeroIsNoSocket DEF IInv, OnClose
<1>1. TypeOK'
  <2>1. request' \in [Requests -> {"new", "waiting"} \cup Outcomes]
    BY SettleAllType
  <2>2. registered' \in Conns \cup {0}
    BY DEF TypeOK, Unregistered
  <2>3. QED
    BY <2>1, <2>2 DEF TypeOK
<1>2. RegisteredIsLatest'
  BY DEF TypeOK, RegisteredIsLatest, Unregistered
<1>3. OneOpenSocket'
  BY DEF TypeOK, OneOpenSocket, Unregistered
<1>4. WaitInv'
  <2> SUFFICES ASSUME NEW r \in Requests, request'[r] = "waiting"
               PROVE  on'[r] = registered' /\ on'[r] # 0
    BY DEF WaitInv
  <2>1. request[r] = "waiting" /\ on[r] # c
    BY SettleAllType
  <2>2. on[r] = registered /\ on[r] # 0
    BY <2>1 DEF WaitInv
  <2>3. QED
    BY <2>1, <2>2 DEF Unregistered
<1>5. QED
  BY <1>1, <1>2, <1>3, <1>4

\* close() leaves a socket in its state, and the registration where it was.
LEMMA CloseStep ==
  ASSUME IInv, NEW cs, Close(cs),
         UNCHANGED <<state, live, registered, requests, latest>>, serving' \in BOOLEAN
  PROVE  IInv'
<1> USE DEF IInv, requests
<1>1. TypeOK'
  BY CloseType DEF TypeOK
<1>2. RegisteredIsLatest'
  BY DEF RegisteredIsLatest
<1>3. OneOpenSocket'
  BY CloseType DEF OneOpenSocket
<1>4. WaitInv'
  BY DEF WaitInv
<1>5. QED
  BY <1>1, <1>2, <1>3, <1>4

LEMMA SocketStep ==
  ASSUME IInv, NEW c \in Conns, Connects(c) \/ OnHello(c) \/ Abandons(c)
  PROVE  IInv'
<1> USE ZeroIsNoSocket DEF IInv, requests
<1>1. TypeOK'
  BY DEF TypeOK, Connects, OnHello, Abandons
<1>2. RegisteredIsLatest'
  BY DEF TypeOK, RegisteredIsLatest, Connects, OnHello, Abandons
<1>3. OneOpenSocket'
  BY DEF TypeOK, OneOpenSocket, Connects, OnHello, Abandons
<1>4. WaitInv'
  BY DEF WaitInv, Connects, OnHello, Abandons
<1>5. QED
  BY <1>1, <1>2, <1>3, <1>4

LEMMA RequestStep ==
  ASSUME IInv, NEW r \in Requests, Asks(r) \/ Answers(r) \/ TimesOut(r)
  PROVE  IInv'
<1> USE ZeroIsNoSocket DEF IInv, sockets
<1>1. TypeOK'
  BY DEF TypeOK, Outcomes, Asks, Answers, TimesOut
<1>2. RegisteredIsLatest' /\ OneOpenSocket'
  BY DEF RegisteredIsLatest, OneOpenSocket, Asks, Answers, TimesOut
<1>3. WaitInv'
  BY DEF TypeOK, WaitInv, Asks, Answers, TimesOut
<1>4. QED
  BY <1>1, <1>2, <1>3

LEMMA StepInv == IInv /\ [Next]_vars => IInv'
<1> SUFFICES ASSUME IInv, [Next]_vars PROVE IInv'
  OBVIOUS
<1>1. ASSUME NEW c \in Conns, Connects(c) \/ OnHello(c) \/ Abandons(c) PROVE IInv'
  BY <1>1, SocketStep
<1>2. ASSUME NEW c \in Conns, OnAuth(c) PROVE IInv'
  BY <1>2, OnAuthStep
<1>3. ASSUME NEW c \in Conns, Rejects(c) \/ HandshakeExpires(c) \/ Sweep(c) PROVE IInv'
  BY <1>3, CloseStep DEF Rejects, HandshakeExpires, Sweep, IInv, TypeOK
<1>4. ASSUME NEW c \in Conns, PeerCloses(c) \/ Terminates(c) PROVE IInv'
  BY <1>4, OnCloseStep DEF PeerCloses, Terminates
<1>5. ASSUME NEW r \in Requests, Asks(r) \/ Answers(r) \/ TimesOut(r) PROVE IInv'
  BY <1>5, RequestStep
<1>6. CASE Shutdown
  BY <1>6, CloseStep DEF Shutdown
<1>7. CASE UNCHANGED vars
  BY <1>7 DEF vars, sockets, requests, IInv, TypeOK, RegisteredIsLatest, OneOpenSocket, WaitInv
<1>8. QED
  BY <1>1, <1>2, <1>3, <1>4, <1>5, <1>6, <1>7 DEF Next

LEMMA Invariant == Spec => []IInv
<1>1. QED
  BY InitInv, StepInv, PTL DEF Spec

-------------------------------------------------------------------------------
\* Every variable keeps its type (Connection, DeviceRecord).
THEOREM TypeCorrect == Spec => []TypeOK
<1>1. IInv => TypeOK
  BY DEF IInv
<1>2. QED
  BY <1>1, Invariant, PTL

\* The registration is the latest's until its own close event, however late the
\* close events of the sockets before it come (onAuth, onClose).
THEOREM LatestIsRegistered == Spec => []RegisteredIsLatest
<1>1. IInv => RegisteredIsLatest
  BY DEF IInv
<1>2. QED
  BY <1>1, Invariant, PTL

\* However many sockets claim to be the device, one is open (onAuth, supersede).
THEOREM OneIsOpen == Spec => []OneOpenSocket
<1>1. IInv => OneOpenSocket
  BY DEF IInv
<1>2. QED
  BY <1>1, Invariant, PTL

\* Nobody is left to wait on a socket that is not the device's any more
\* (onAuth, onClose, settleAll).
THEOREM NobodyWaitsInVain == Spec => []WaitsOnTheRegistered
<1>1. IInv => WaitsOnTheRegistered
  BY DEF IInv, WaitInv, WaitsOnTheRegistered
<1>2. QED
  BY <1>1, Invariant, PTL
===============================================================================
