--------------------------- MODULE MCEventWindow ---------------------------
(* A small instance of EventWindow for TLC: two noise kinds that differ in  *)
(* a field outside the collapse key, and one plain kind.                    *)
EXTENDS EventWindow

CONSTANTS mdns, mdnsRule, tcp

MCKinds     == {mdns, mdnsRule, tcp}
MCKey       == [k \in MCKinds |-> IF k = mdnsRule THEN mdns ELSE k]
MCPassSets  == {MCKinds, {mdns, tcp}}
MCNoiseSets == {{mdns, mdnsRule}, {}}
MCRequests  == {1, 3, 9}
=============================================================================
