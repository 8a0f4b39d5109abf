---------------------------- MODULE MCFstEvents -----------------------------
(* FstEvents with the messages and parameters of the TLC runs. *)
EXTENDS FstEvents

\* a controller twice with running status, a note, no note, a controller cut short by
\* another status byte, a channel mode message, pitch bend, clock
MCBuffers ==
  {<<176, 1, 64, 0>>, <<1, 65, 0, 0>>, <<144, 60, 100, 0>>, <<144, 60, 0, 0>>,
   <<177, 1, 208, 5>>, <<176, 123, 0, 0>>, <<224, 0, 64, 0>>, <<248, 0, 0, 0>>}

\* a helper, a parameter of Proxy, and the one that stands for neither
MCParameters == {1, 122, SettingsChanged}
=============================================================================
