------------------------------ MODULE MCRpuPower ------------------------------
(* An instance of RpuBus, and of DeferredWork beside it, for TLC. *)
EXTENDS RpuBus, DeferredWork

\* dts/nrf70_rpi_interposer.dts: spi-max-frequency = <112000000>, 0x06acfc00.
MCDtsSpeed == <<6, 172, 252, 0>>

\* The two share no state, so every step of one commutes with every step of the
\* other: it is enough to let one of them move.
MCInit == BusInit /\ WorkInit
MCNext == \/ BusNext /\ WorkInit /\ UNCHANGED workVars
          \/ WorkNext /\ BusInit /\ UNCHANGED hostVars

MCSpec == MCInit /\ [][MCNext]_<<hostVars, workVars>>
===============================================================================
