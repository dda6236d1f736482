-------------------------- MODULE MCConfigLifecycle --------------------------
(* Instances of ConfigLifecycle for TLC. *)
EXTENDS ConfigLifecycleInv

CONSTANTS t1, t2, good, better, bad

MCThreads == {t1, t2}
MCOneThread == {t1}
MCConfigs == {good, better, bad}
MCValidConfigs == {good, better}
=============================================================================
