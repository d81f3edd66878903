----------------------------- MODULE MCAppData -----------------------------
(***************************************************************************)
(* Which disturbances a behaviour combines.                                *)
(***************************************************************************)
EXTENDS AppData

MCScenarios ==
    {{"reset", "runtime", "rating", "crash"}, {"reset", "rating", "fail", "crash"},
     {"overrides", "reset", "edit", "crash"}, {"overrides", "reset", "fail"},
     {"maxmind", "clear", "reset", "fail", "geoip timer"},
     {"maxmind", "clear", "releases", "geoip timer"}, {"maxmind", "crash", "releases", "geoip timer"},
     {"learn", "keys", "crash", "fail"}, {"learn", "edit", "crash", "reset"},
     {"bundles", "reset"}, {"lists", "a week", "bundles timer"},
     {"lists", "crash", "a week"}, {"lists", "fail", "bundles timer"},
     {"visits", "crash"},
     {"certificates", "step fails", "crash"}, {"certificates", "quit", "crash"},
     {"certificates", "tls key", "crash"}}

MCMaxDisturbances ==
    [s \in MCScenarios |-> CASE "visits" \in s -> 4
                             [] "certificates" \in s -> 2
                             [] OTHER -> 3]

MCThresholds == {[frequency |-> 1, regularity |-> 2, top |-> 1, days |-> 2],
                 [frequency |-> 1, regularity |-> 1, top |-> 1, days |-> 1]}
=============================================================================
