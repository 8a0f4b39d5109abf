------------------------------ MODULE MCProxy -------------------------------
(* Values of Proxy's constants for TLC. *)
EXTENDS Proxy

Lower(count) == [channel_count |-> count, manager_channel |-> 0,
                 offset_below_anchor |-> 0, offset_above_anchor |-> 0,
                 anchor |-> 40]

\* the other manager channel, notes clamped at both ends, note 40 below the anchor
Upper(count) == [channel_count |-> count, manager_channel |-> 15,
                 offset_below_anchor |-> -48, offset_above_anchor |-> 48,
                 anchor |-> 41]

LowerAndUpper == {Lower(2), Upper(1)}

OneLower == {Lower(3)}

\* everything but keys, which no guard and no property of ProxyAllocation reads
WithoutKeys == <<params, note_vars, is_sustain_pedal_on, previous_pedal_message,
                 lifecycle_vars>>
=============================================================================
