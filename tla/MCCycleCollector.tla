-------------------------- MODULE MCCycleCollector --------------------------
(* Three objects with one member each, enough for a chain that hangs on a cycle,
   and two variables; the constants are in MCGC.cfg.                          *)
EXTENDS CycleCollector
=============================================================================
