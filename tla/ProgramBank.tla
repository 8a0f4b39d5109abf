---------------------------- MODULE ProgramBank -----------------------------
(***************************************************************************)
(* What programs promise to the player: each program has a name and        *)
(* settings, the current one is played and edited, and changing to another *)
(* program changes nothing in any program.  Only a bank that is loaded     *)
(* replaces other programs, and all of them.                               *)
(***************************************************************************)
CONSTANTS
  Programs,      \* indices of programs
  ProgramSet,    \* what a program may be
  BankSet,       \* the banks that may be loaded
  SettingSet,    \* what the settings of a program may be
  NameSet        \* and its name

VARIABLES
  programs,      \* the programs, [name, settings] records
  current        \* the index of the program that is played

bank_vars == <<programs, current>>

BankInit == programs \in [Programs -> ProgramSet] /\ current \in Programs

Edit(settings) ==
  /\ programs' = [programs EXCEPT ![current].settings = settings]
  /\ UNCHANGED current

Rename(name) ==
  /\ programs' = [programs EXCEPT ![current].name = name]
  /\ UNCHANGED current

Select(index) ==
  /\ current' = index
  /\ UNCHANGED programs

Load(new_programs) ==
  /\ programs' = new_programs
  /\ UNCHANGED current

BankNext ==
  \/ \E settings \in SettingSet : Edit(settings)
  \/ \E name \in NameSet : Rename(name)
  \/ \E index \in Programs : Select(index)
  \/ \E new_programs \in BankSet : Load(new_programs)

BankSpec == BankInit /\ [][BankNext]_bank_vars
=============================================================================
