----------------------------- MODULE MCPlugins ------------------------------
(* One event that stays and one that comes and goes; ids enough for a row, *)
(* a goroutine and the clean-up to hold one and another to be fresh.       *)
EXTENDS Plugins
=============================================================================
