--------------------------------- MODULE Radio --------------------------------
(***************************************************************************)
(* The station side of the radio as the firmware sees it through           *)
(* cyw43_tcpip_link_status(): the driver, the access point and its DHCP    *)
(* server.  None of it is the repository's code; net.c and provisioning.c  *)
(* call it and wait for it, and the two modules of theirs extend this one. *)
(***************************************************************************)
EXTENDS Naturals

CONSTANT MaxFaults    \* bound: what the surroundings may do to the device

VARIABLES
  air,        \* is the access point there?
  accepts,    \* the handshakes it takes
  link,       \* cyw43_tcpip_link_status()
  addr,       \* has the interface an address?
  faults

radio == <<air, accepts, link, addr>>

Modes    == {"mixed", "wpa2", "wpa3"}
Refusals == {"badauth", "nonet", "fail"}
Links    == Refusals \cup {"down", "join", "noip", "up"}

RadioTypeOK ==
  /\ air \in BOOLEAN /\ accepts \subseteq Modes
  /\ link \in Links /\ addr \in BOOLEAN
  /\ faults \in 0 .. MaxFaults

-------------------------------------------------------------------------------
(* What the firmware asks of it *)

\* cyw43_arch_wifi_connect_async, taken up; on a live association the driver may
\* also let that stand.
Dial ==
  /\ \/ link' = "join" /\ addr' = FALSE
     \/ link \in {"noip", "up"} /\ UNCHANGED <<link, addr>>
  /\ UNCHANGED <<air, accepts>>

\* cyw43_wifi_leave
Leave == link' = "down" /\ addr' = FALSE /\ UNCHANGED <<air, accepts>>

-------------------------------------------------------------------------------
(* What it does of itself; `mode` is the handshake the device offers, `known` *)
(* says whether it has the password.                                          *)

\* The access point takes the handshake.
Associates(mode, known) ==
  /\ link = "join" /\ air /\ known /\ mode \in accepts
  /\ link' = "noip"
  /\ UNCHANGED <<air, accepts, addr, faults>>

\* It does not, and the driver says why.
Refuses(mode, known) ==
  /\ link = "join"
  /\ air /\ known => mode \notin accepts
  /\ link' = IF ~air THEN "nonet" ELSE IF mode \notin accepts THEN "fail" ELSE "badauth"
  /\ UNCHANGED <<air, accepts, addr, faults>>

\* DHCP answers, for the first time or at a rebind.
Leased ==
  /\ link \in {"noip", "up"} /\ ~addr /\ air
  /\ link' = "up" /\ addr' = TRUE
  /\ UNCHANGED <<air, accepts, faults>>

\* The address goes and the association stays: with the link status following
\* it, as net.c:280 has it, or not, as net.c:351 saw it.
AddressGoes ==
  /\ addr /\ faults < MaxFaults
  /\ addr' = FALSE /\ link' \in {"noip", "up"}
  /\ faults' = faults + 1
  /\ UNCHANGED <<air, accepts>>

\* The link breaks, or an access point that is starting up refuses at random.
LinkBreaks ==
  /\ link \in {"join", "noip", "up"} /\ faults < MaxFaults
  /\ link' \in Refusals \cup {"down"} /\ addr' = FALSE
  /\ faults' = faults + 1
  /\ UNCHANGED <<air, accepts>>

\* The access point goes, and takes its associations with it; it comes back.
AirChanges ==
  /\ \/ /\ air /\ faults < MaxFaults
        /\ faults' = faults + 1
        /\ link' = IF link \in {"noip", "up"} THEN "down" ELSE link
        /\ addr' = FALSE
     \/ ~air /\ UNCHANGED <<faults, link, addr>>
  /\ air' = ~air
  /\ UNCHANGED accepts

Surroundings(mode, known) ==
  \/ Associates(mode, known) \/ Refuses(mode, known) \/ Leased
  \/ AddressGoes \/ LinkBreaks \/ AirChanges

===============================================================================
