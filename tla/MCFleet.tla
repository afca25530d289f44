------------------------------- MODULE MCFleet -------------------------------
(* Instance of Fleet for TLC: a chain, a run that waits for the ceiling and independent runs. *)
EXTENDS Fleet

CONSTANTS a, b, c

MCOrder == <<a, b, c>>
MCAllowed == (a :> {1, 2}) @@ (b :> {2}) @@ (c :> {2})
MCBudget == (a :> 1) @@ (b :> 1) @@ (c :> 3)

Deps(ofB, ofC) == (a :> {}) @@ (b :> ofB) @@ (c :> ofC)
Setting(deps, cross, tokens, check, limit, upsets) ==
  [deps |-> deps, cross |-> cross, max_tokens |-> tokens, dep_check |-> check,
   max_ticks |-> limit, max_faults |-> upsets]
MCPrograms ==
  {Setting(Deps({a}, {b}), {<<b, c>>}, 3, "injected", TRUE, 2),
   Setting(Deps({a}, {}), {}, 3, "injected", FALSE, 2),
   Setting(Deps({}, {}), {}, 2, "injected", FALSE, 1),
   Setting(Deps({a}, {}), {}, 3, "production", FALSE, 0)}
==============================================================================
