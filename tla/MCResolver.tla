----------------------------- MODULE MCResolver -----------------------------
(***************************************************************************)
(* Two names and two voters: the first voter blocks "bad", nobody blocks   *)
(* "good".  The downloadable list holds only "bad", so the bubble admits a *)
(* name the quorum blocks and shuts out one it allows; "good" stands for a *)
(* blanket suffix where the bubble the service starts with has it.         *)
(***************************************************************************)
EXTENDS Resolver

CONSTANTS v1, v2, bad, good, l1

MCBlocks == [v \in Voters |-> IF v = v1 THEN {bad} \cap Domains ELSE {}]
MCListZone == [l \in Lists |-> {bad}]

Settings(mode, providers, filterOn, zone) ==
    [runtime |-> [mode |-> mode, fallback |-> FALSE],
     overrides |-> [d \in Domains |-> "none"],
     cache |-> 1,
     countries |-> FALSE,
     providers |-> providers,
     ratingConfig |-> [enabled |-> filterOn, lists |-> Lists],
     zone |-> zone, removed |-> {}, personal |-> {}, bundles |-> {},
     offline |-> FALSE, paused |-> FALSE]

BootOff == Settings("FailOpen", Voters, FALSE, {})
\* The lists were loaded before the filter was switched off.
BootLoaded == Settings("FailOpen", Voters, FALSE, {bad})
BootClosed == Settings("FailClosed", Voters, TRUE, Domains)

ResetFile ==
    [runtime |-> [mode |-> "FailClosed", fallback |-> TRUE],
     providers |-> {v1},
     overrides |-> [d \in Domains |-> "none"],
     countries |-> TRUE,
     ratingConfig |-> [enabled |-> TRUE, lists |-> Lists]]
MCFiles == {ResetFile}

\* Every field in a step of its own.
EachField == [i \in DOMAIN ReadOrder |-> {ReadOrder[i]}]

\* Where only the cache, the rating filter, its zone and the hygiene change.
RatingFields == <<{"runtime", "overrides", "cache", "countries", "providers"},
                  {"ratingConfig"}, {"zone"},
                  {"removed", "personal", "bundles", "offline", "paused"}>>
=============================================================================
