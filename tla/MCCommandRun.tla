---------------------------- MODULE MCCommandRun ----------------------------
(* Two runs, each for files of the engine, profiles, metrics or nothing. *)
EXTENDS CommandRun

MCFlagSets ==
  {{"metadata", "split", "config", "output"}, {"metadata", "output", "cpu", "trace"},
   {"output", "metrics"}, {}}

MCLevels == {"normal", "critical"}
=============================================================================
