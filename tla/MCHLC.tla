------------------------------- MODULE MCHLC -------------------------------
(***************************************************************************)
(* HLC on two devices, one of which records two ops and the other one.     *)
(***************************************************************************)
EXTENDS HLC

MCDevices == {1, 2}
MCMaxOps == [d \in MCDevices |-> IF d = 1 THEN 2 ELSE 1]
=============================================================================
