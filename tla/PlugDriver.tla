------------------------------ MODULE PlugDriver ------------------------------
(***************************************************************************)
(* What the plug driver (firmware/src/plug/plug.h) promises the relay      *)
(* session: one operation at a time, begun by a start, ended by one call   *)
(* of the caller's callback or by a cancellation.  A cycle that is past    *)
(* the probe survives its cancellation, without its callback.              *)
(*                                                                         *)
(* Plug implements this module; RelayCommands is built on it.              *)
(***************************************************************************)
EXTENDS Naturals

VARIABLES
  stage,     \* idle; probe and found, before and after an address was looked up; act and cut
  cycle,     \* the operation is a cycle
  caller,    \* s.cb # NULL
  sweeping,  \* rw_plug_task() is inside rw_lan_sweep(), which pumps the stack
  heard      \* how often the operation has called back

plugDriver == <<stage, cycle, caller, sweeping, heard>>

DriverTypeOK ==
  /\ stage \in {"idle", "probe", "found", "act", "cut"}
  /\ cycle \in BOOLEAN /\ caller \in BOOLEAN /\ sweeping \in BOOLEAN
  /\ heard \in 0 .. 1

DriverInit ==
  /\ stage = "idle" /\ cycle = FALSE /\ caller = FALSE /\ sweeping = FALSE /\ heard = 0

\* A cycle past the probe has cut the power, or is about to.
Acting == IF cycle THEN "cut" ELSE "act"

CallsBack == heard' = heard + (IF caller THEN 1 ELSE 0)

DriverBusy == stage # "idle"

\* An operation begins.
DriverStarts(c) ==
  /\ stage = "idle" /\ ~sweeping
  /\ stage' = "probe" /\ cycle' = c /\ caller' = TRUE /\ heard' = 0
  /\ UNCHANGED sweeping

\* It is over before the start returns: the first leg found no pcb.
DriverStartFails(c) ==
  /\ stage = "idle" /\ ~sweeping
  /\ cycle' = c /\ caller' = TRUE /\ heard' = 1
  /\ UNCHANGED <<stage, sweeping>>

\* The plug answers the probe, or its address is looked up in the cache.
DriverWorks ==
  /\ ~sweeping
  /\ \/ stage = "probe" /\ stage' \in {"found", Acting}
     \/ stage = "found" /\ stage' = Acting
  /\ UNCHANGED <<cycle, caller, sweeping, heard>>

DriverSweeps ==
  /\ stage = "probe" /\ ~sweeping
  /\ stage' = "found" /\ sweeping' = TRUE
  /\ UNCHANGED <<cycle, caller, heard>>

\* The sweep returns with an address, and the operation goes on: also the one
\* that was cancelled meanwhile.
DriverFinds ==
  /\ sweeping /\ sweeping' = FALSE /\ stage' = "found"
  /\ UNCHANGED <<cycle, caller, heard>>

\* The operation ends, in rw_plug_task() or in the sweep it called.
DriverEnds ==
  /\ sweeping \/ stage # "idle"
  /\ stage' = "idle" /\ sweeping' = FALSE
  /\ CallsBack
  /\ UNCHANGED <<cycle, caller>>

\* rw_plug_cancel()
DriverCancels ==
  /\ stage' = IF stage = "cut" THEN "cut" ELSE "idle"
  /\ caller' = FALSE
  /\ UNCHANGED <<cycle, sweeping, heard>>

DriverNext ==
  \/ \E c \in BOOLEAN : DriverStarts(c) \/ DriverStartFails(c)
  \/ DriverWorks \/ DriverSweeps \/ DriverFinds \/ DriverEnds \/ DriverCancels

DriverSpec == DriverInit /\ [][DriverNext]_plugDriver

===============================================================================
