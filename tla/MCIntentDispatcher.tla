------------------------- MODULE MCIntentDispatcher -------------------------
(* Small instances of IntentDispatcher: one namespace, two cells (so three *)
(* areas: {c1}, {c2} and {c1, c2}, with partial overlaps and inclusions).  *)
EXTENDS IntentDispatcher

CONSTANTS i1, i2, i3, n1, c1, c2

A1 == {c1}
A2 == {c2}
A12 == {c1, c2}

\* i1 wants the narrow area, i2 the wide one (the scenario of two intents
\* over overlapping areas); i2 may later add {c2}
MCInitSpec == [i \in Intents |-> IF i = i1 THEN {<<n1, A1>>} ELSE {<<n1, A12>>}]
MCInitialQueue == <<i1>>
MCAddSpecs == {{<<n1, A2>>}}

\* i2's SessionInit names no capability the store holds
MCInitSpecFail == [i \in Intents |-> CASE i = i1 -> {<<n1, A1>>}
                                       [] i = i2 -> Unauthorised
                                       [] OTHER  -> {<<n1, A12>>}]
MCAddSpecsFail == {Unauthorised}

MCSessionEvents ==
    { Ev("Reconciled", n1, A1), Ev("Reconciled", n1, A12),
      Ev("InterestIntersection", n1, A2), Ev("CapabilityIntersection", n1, A12),
      Abort }

=============================================================================
