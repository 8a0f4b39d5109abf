---------------------------- MODULE MCFstPlugin -----------------------------
(* FstPlugin with the banks that the host of the TLC runs loads. *)
EXTENDS FstPlugin

\* banks with one program that is not as new, in either place
MCHostBanks ==
  {[i \in Programs |-> IF i = named
                         THEN [name |-> BuiltInName, settings |-> [id \in ParamId |-> "on"]]
                         ELSE [name |-> DefaultName, settings |-> Defaults]] : named \in Programs}
=============================================================================
