---------------------------- MODULE MCProxyRules ----------------------------
(* Values of ProxyRules' constants for TLC. *)
EXTENDS ProxyRules

Lower == [manager_channel |-> 0, member_channels |-> <<1, 2>>, anchor |-> 40]
Upper == [manager_channel |-> 15, member_channels |-> <<14>>, anchor |-> 41]

BothZones == {Lower, Upper}

Rule(target, reset) ==
  [target |-> target, reset |-> reset, in_cc |-> "bend", out_cc |-> "bend",
   init_value |-> 0, invert |-> TRUE, fallback |-> FALSE]

Single == [pick : Picks, side : Sides]
Newest == [pick |-> "newest", side |-> "any"]
AllAbove == [pick |-> "all", side |-> "above"]
Global == [pick |-> "global", side |-> "any"]

WithFallback(rule) == [rule EXCEPT !.fallback = TRUE]
Pressing(rule) == [rule EXCEPT !.out_cc = "press", !.invert = FALSE]

\* one rule of each kind, and pairs of rules with the same input
OneRule == {<<Rule(t, r)>> : t \in Target, r \in {"last", "init"}}
             \cup {<<WithFallback(Rule(Newest, r))>> : r \in {"last", "init"}}
             \cup {<<Rule(t, "off")>> : t \in {Newest, Global}}
             \cup {<<[Rule(Newest, "init") EXCEPT !.in_cc = "none"]>>}

TwoRules == {<<Rule(Newest, "init"), Pressing(Rule(AllAbove, "last"))>>,
             <<WithFallback(Rule(Newest, "last")), [Rule(Global, "init") EXCEPT !.invert = FALSE]>>,
             <<[Rule(Newest, "last") EXCEPT !.in_cc = "learn"],
               [Pressing(Rule(Global, "init")) EXCEPT !.in_cc = "press"]>>}

OneOrTwoRules == OneRule \cup TwoRules

SomeEdits == {<<Rule(Newest, "off"), Rule(Newest, "init")>>,
              <<Rule(Newest, "init"), Rule(AllAbove, "last")>>,
              <<Rule(Global, "off"), Rule(Global, "last")>>}

BendInputs == {<<"bend", 0>>, <<"bend", 2>>}
=============================================================================
