----------------------------- MODULE ConfigStore -----------------------------
(***************************************************************************)
(* The settings of the service: what is in force (AppState), the files and *)
(* the credential store they are kept in, and the admin routes that change *)
(* both while other requests, a crash or the user's editor interfere.      *)
(*                                                                         *)
(* A route takes the lock of each file it works on, writes the value in    *)
(* force, then the whole file from what is in force, and lets go.  Reset   *)
(* takes all three locks, loads both files, and puts them in force.  What a*)
(* setting means is abstract: `runtime` stands for every section that only *)
(* a route and reset write (timeout, providers, cache, GeoIP countries,    *)
(* ccTLDs), `fixed` for what a start alone reads (port, limits, persist flags).*)
(*                                                                         *)
(* `acked`, `drift` and `typos` are history; `disturbances` bounds what    *)
(* users, faults and timers do.                                            *)
(***************************************************************************)
EXTENDS Naturals, Sequences, FiniteSets

CONSTANTS
    Requests,       \* admin requests that may be served at a time
    Sources,        \* the public blocklists that may be selected
    Scenarios,      \* sets of kinds of disturbance; a behaviour has one set's
    MaxDisturbances \* bound of each: requests, edits, faults, crashes and visits

Kinds == {"runtime", "rating", "bundles", "overrides", "maxmind", "clear", "reset",
          "edit", "crash", "fail", "learn", "keys", "lists", "releases", "a week",
          "bundles timer", "geoip timer", "visits", "certificates",
          "step fails", "quit", "tls key"}
ASSUME ScenariosAssumption == Scenarios \subseteq SUBSET Kinds
ASSUME BoundAssumption == MaxDisturbances \in [Scenarios -> Nat]

VARIABLES
    phase,        \* of the service: down, loading its files in order, or up
    live,         \* section -> the value in force
    startup,      \* PersistTarget: the sections as the last start read them
    overrides,    \* the override lists in force, and the lines not understood
    source,       \* where the GeoIP database comes from
    health,       \* what is known of the MaxMind credentials
    wake,         \* the updaters with a permit left by notify_one
    config,       \* resolver_config.toml
    overridesFile,\* overrides.toml
    creds,        \* MaxMind credentials in the OS credential store
    request,      \* request -> its handler
    locks,        \* lock -> the request that holds it
    acked,        \* section -> the value its last route answered `persisted` for
    drift,        \* file -> a failure or an edit has set it apart from memory
    typos,        \* a misspelt line of overrides.toml has been loaded
    scenario, disturbances

memory == <<phase, live, startup, overrides, source, health>>
disk == <<config, overridesFile, creds>>
handlers == <<request, locks>>
notes == <<acked, drift, typos>>
bounds == <<scenario, disturbances>>
configVars == <<memory, wake, disk, handlers, notes, bounds>>

Broken == [broken |-> TRUE]  \* a file that does not load
Sections == {"runtime", "rating", "bundles", "zone", "fixed"}
Choices(s) == IF s = "bundles" THEN SUBSET Sources ELSE BOOLEAN
Default == [runtime |-> FALSE, rating |-> FALSE, bundles |-> {}, zone |-> FALSE,
            fixed |-> FALSE]
Config == [runtime : BOOLEAN, rating : BOOLEAN, bundles : SUBSET Sources,
           zone : BOOLEAN, fixed : BOOLEAN]
Overrides == [rule : BOOLEAN, typo : BOOLEAN]
NoOverrides == [rule |-> FALSE, typo |-> FALSE]
None == "none"
Idle == [kind |-> None, step |-> None, held |-> 0, value |-> None]

ASSUME RequestsAssumption == Requests # {} /\ None \notin Requests

\* Something of kind `k` happens to the service, within the bounds.
Disturb(k) == /\ k \in scenario
              /\ disturbances < MaxDisturbances[scenario]
              /\ disturbances' = disturbances + 1
\* A step that fails, or not.
Outcome(fails) == IF fails THEN Disturb("fail") ELSE UNCHANGED disturbances

\* What a start or a reset makes of the credentials it read.
SourceOf(stored) == IF stored = None THEN "default" ELSE stored
\* update_geoip_source: nothing is known yet of new credentials.
HealthOf(origin) == IF origin = "default" THEN "not applicable" ELSE "pending"

-----------------------------------------------------------------------------
(* Requests and locks.                                                     *)

\* The locks a route takes, in order: reset is the only one to hold several.
Locks_Unordered(kind) ==
    CASE kind = "reset" -> <<"geoip", "persist", "overrides">>
      [] kind = "overrides" -> <<"overrides", "persist">>
      [] kind \in {"maxmind", "clear"} -> <<"geoip">>
      [] OTHER -> <<"persist">>
Locks_ResetTakesTwo(kind) ==
    CASE kind = "reset" -> <<"geoip", "overrides">>
      [] kind = "overrides" -> <<"overrides">>
      [] kind \in {"maxmind", "clear"} -> <<"geoip">>
      [] OTHER -> <<"persist">>
Locks(kind) ==
    CASE kind = "reset" -> <<"geoip", "persist", "overrides">>
      [] kind = "overrides" -> <<"overrides">>
      [] kind \in {"maxmind", "clear"} -> <<"geoip">>
      [] OTHER -> <<"persist">>

\* A POST that passed the CSRF gate and parsed, with the value it asks for.
Post(r, kind, value) ==
    /\ phase = "up" /\ request[r].kind = None
    /\ Disturb(kind)
    /\ request' = [request EXCEPT ![r] =
                      [kind |-> kind, step |-> "lock", held |-> 0, value |-> value]]
    /\ UNCHANGED <<memory, wake, disk, locks, notes, scenario>>

Acquire(r) ==
    /\ request[r].step = "lock"
    /\ \E n \in {request[r].held + 1} :
       \E lock \in {Locks(request[r].kind)[n]} :
          /\ locks[lock] = None
          /\ locks' = [locks EXCEPT ![lock] = r]
          /\ request' = [request EXCEPT
                ![r].held = n,
                ![r].step = IF n = 1 /\ request[r].kind = "reset" THEN "credentials"
                            ELSE IF n < Len(Locks(request[r].kind)) THEN "lock"
                            ELSE "apply"]
    /\ UNCHANGED <<memory, wake, disk, notes, bounds>>

\* The handler goes on to `step`, or answers: its guards are dropped.
Goes(r, step) == /\ request' = [request EXCEPT ![r].step = step]
                 /\ UNCHANGED locks
Answers_Bug(r) == /\ request' = [request EXCEPT ![r] = Idle]
                  /\ locks' = [locks EXCEPT ![Locks(request[r].kind)[1]] = None]
Answers(r) == /\ request' = [request EXCEPT ![r] = Idle]
              /\ locks' = [l \in DOMAIN locks |-> IF locks[l] = r THEN None ELSE locks[l]]

-----------------------------------------------------------------------------
(* The sections of resolver_config.toml.                                   *)

\* live_resolver_config: what is in force, and the rest as the start read it.
LiveResolverConfig_Bug == [live EXCEPT !.fixed = startup.fixed, !.rating = startup.rating]
LiveResolverConfig == [live EXCEPT !.fixed = startup.fixed]

Handles(r, kinds, step) == request[r].kind \in kinds /\ request[r].step = step
SectionRoutes == {"runtime", "rating", "bundles"}

\* apply_admin_config and its siblings, to persist_live_config.
ApplySection(r) ==
    /\ Handles(r, SectionRoutes, "apply")
    /\ live' = [live EXCEPT ![request[r].kind] = request[r].value]
    /\ wake' = wake \cup ({request[r].kind} \cap {"bundles"})
    /\ Goes(r, "save")
    /\ UNCHANGED <<phase, startup, overrides, source, health, disk, notes, bounds>>

\* persist_live_config and the answer.
SaveSection(r) ==
    /\ Handles(r, SectionRoutes, "save")
    /\ \E fails \in BOOLEAN :
          /\ Outcome(fails)
          /\ config' = IF fails THEN config ELSE LiveResolverConfig
          /\ acked' = [acked EXCEPT ![request[r].kind] =
                          IF fails THEN {} ELSE {request[r].value}]
          /\ drift' = [drift EXCEPT !.config = fails]
    /\ Answers(r)
    /\ UNCHANGED <<memory, wake, overridesFile, creds, typos, scenario>>

-----------------------------------------------------------------------------
(* overrides.toml and the MaxMind credentials.                             *)

\* apply_overrides_change up to the write of the lists in force.
ApplyOverrides(r) ==
    /\ Handles(r, {"overrides"}, "apply")
    /\ overrides' = [overrides EXCEPT !.rule = request[r].value]
    /\ request' = [request EXCEPT ![r].step = "save", ![r].value = overrides']
    /\ UNCHANGED <<phase, live, startup, source, health, wake, disk, locks, notes, bounds>>

\* ... and from there: the lists computed are saved with the lines not understood.
SaveOverrides(r) ==
    /\ Handles(r, {"overrides"}, "save")
    /\ \E fails \in BOOLEAN :
          /\ Outcome(fails)
          /\ overridesFile' = IF fails THEN overridesFile ELSE request[r].value
          /\ drift' = [drift EXCEPT !.overrides = fails]
    /\ Answers(r)
    /\ UNCHANGED <<memory, wake, config, creds, acked, typos, scenario>>

\* geoip_credentials::save or ::clear
StoreCredentials(r) ==
    /\ Handles(r, {"maxmind", "clear"}, "apply")
    /\ \E fails \in BOOLEAN :
          /\ Outcome(fails)
          /\ creds' = IF fails THEN creds
                      ELSE IF request[r].kind = "clear" THEN None ELSE request[r].value
          /\ drift' = [drift EXCEPT !.creds = IF fails THEN TRUE ELSE @]
          /\ IF fails /\ request[r].kind = "maxmind" THEN Answers(r) ELSE Goes(r, "source")
    /\ UNCHANGED <<memory, wake, config, overridesFile, acked, typos, scenario>>

(***************************************************************************)
(* update_geoip_source, after the credentials are read back; a miss leaves *)
(* the source as it was.  The source returns to the default even when the  *)
(* credentials could not be deleted.                                       *)
(***************************************************************************)
UpdateSource(r) ==
    /\ Handles(r, {"maxmind", "clear"}, "source")
    /\ \E missed \in BOOLEAN :
          /\ missed => request[r].kind = "maxmind"
          /\ Outcome(missed)
          /\ source' = IF missed THEN source
                       ELSE IF request[r].kind = "clear" THEN "default" ELSE creds
          /\ health' = IF missed THEN health ELSE HealthOf(source')
          /\ wake' = IF missed THEN wake ELSE wake \cup {"geoip"}
          /\ drift' = [drift EXCEPT !.creds = missed \/ SourceOf(creds) # source']
    /\ Answers(r)
    /\ UNCHANGED <<phase, live, startup, overrides, disk, acked, typos, scenario>>

-----------------------------------------------------------------------------
(* apply_admin_reset.                                                      *)

\* The credentials are read; an error keeps the source.
ResetReadsCredentials(r) ==
    /\ Handles(r, {"reset"}, "credentials")
    /\ \E fails \in BOOLEAN :
          /\ Outcome(fails)
          /\ request' = [request EXCEPT ![r].step = "lock",
                            ![r].value = [source |-> IF fails THEN source ELSE SourceOf(creds)]]
    /\ UNCHANGED <<memory, wake, disk, locks, notes, scenario>>

\* Both files are loaded; one that does not load ends the reset.
ResetLoads(r) ==
    /\ Handles(r, {"reset"}, "apply")
    /\ IF Broken \in {config, overridesFile} THEN Answers(r) /\ UNCHANGED typos
       ELSE /\ request' = [request EXCEPT ![r].step = "commit",
                 ![r].value = [source |-> request[r].value.source,
                               config |-> config, overrides |-> overridesFile]]
            /\ typos' = (typos \/ overridesFile.typo)
            /\ UNCHANGED locks
    /\ UNCHANGED <<memory, wake, disk, acked, drift, bounds>>

\* The lines not understood are kept for the next save.
ResetOverrides_Bug(loaded) == [loaded EXCEPT !.typo = FALSE]
ResetOverrides(loaded) == loaded

ResetCommits(r) ==
    /\ Handles(r, {"reset"}, "commit")
    /\ \E loaded \in {request[r].value} :
          /\ live' = [loaded.config EXCEPT !.fixed = startup.fixed]
          /\ overrides' = ResetOverrides(loaded.overrides)
          /\ source' = loaded.source
          /\ health' = HealthOf(source')
          /\ drift' = [config |-> drift.config /\ config # loaded.config,
                       overrides |-> drift.overrides /\ overridesFile # loaded.overrides,
                       creds |-> SourceOf(creds) # loaded.source]
    /\ wake' = wake \cup {"bundles", "geoip"}
    /\ Answers(r)
    /\ UNCHANGED <<phase, startup, disk, acked, typos, bounds>>

-----------------------------------------------------------------------------
(* The user's editor, and starts and ends of the service.                  *)

Edited(f) == drift' = [drift EXCEPT ![f] = TRUE]

EditConfig ==
    /\ Disturb("edit")
    /\ \E base \in {IF config = Broken THEN Default ELSE config} :
          config' \in {Broken} \cup {[base EXCEPT ![s] = ~@] : s \in {"rating", "zone", "fixed"}}
    /\ acked' = [s \in SectionRoutes |-> {}]
    /\ Edited("config")
    /\ UNCHANGED <<memory, wake, overridesFile, creds, handlers, typos, scenario>>

EditOverrides ==
    /\ Disturb("edit")
    /\ overridesFile' \in {Broken} \cup Overrides
    /\ typos' = FALSE
    /\ Edited("overrides")
    /\ UNCHANGED <<memory, wake, config, creds, handlers, acked, scenario>>

(***************************************************************************)
(* run, up to what AppState is built from: a config that does not load ends*)
(* the start, an overrides.toml that does not load is started without, and *)
(* so are credentials that cannot be read.                                 *)
(***************************************************************************)
Start ==
    /\ phase = "down"
    /\ config # Broken
    /\ phase' = "log"
    /\ live' = config /\ startup' = config
    /\ overrides' = IF overridesFile = Broken THEN NoOverrides ELSE overridesFile
    /\ typos' = (typos \/ overrides'.typo)
    /\ \E fails \in BOOLEAN :
          /\ Outcome(fails)
          /\ source' = IF fails THEN "default" ELSE SourceOf(creds)
    /\ health' = HealthOf(source')
    /\ drift' = [config |-> FALSE, overrides |-> overridesFile = Broken,
                 creds |-> SourceOf(creds) # source']
    /\ wake' = {}
    /\ UNCHANGED <<disk, handlers, acked, scenario>>

\* The process ends, by a crash or by /admin/shutdown, wherever it is.
Crash ==
    /\ phase # "down"
    /\ Disturb("crash")
    /\ phase' = "down"
    /\ request' = [r \in Requests |-> Idle]
    /\ locks' = [l \in DOMAIN locks |-> None]
    /\ UNCHANGED <<live, startup, overrides, source, health, wake, disk, notes, scenario>>

-----------------------------------------------------------------------------
ConfigInit ==
    /\ phase = "up"
    /\ scenario \in Scenarios /\ disturbances = 0
    /\ live = [Default EXCEPT !.fixed = TRUE, !.zone = "visits" \in scenario,
                              !.bundles = IF "lists" \in scenario THEN Sources ELSE {}]
    /\ startup = live /\ config = live
    /\ overrides = NoOverrides /\ overridesFile = NoOverrides
    /\ source = "default" /\ creds = None /\ health = HealthOf(source)
    /\ wake = {}
    /\ request = [r \in Requests |-> Idle]
    /\ locks = [l \in {"geoip", "persist", "overrides"} |-> None]
    /\ acked = [s \in SectionRoutes |-> {}]
    /\ drift = [f \in {"config", "overrides", "creds"} |-> FALSE]
    /\ typos = FALSE

\* Requests have no names of their own: a new one takes the first that is free.
AdminPost ==
    \E r \in {CHOOSE q \in Requests : (\E p \in Requests : request[p].kind = None)
                                         => request[q].kind = None} :
        \/ \E kind \in SectionRoutes : \E v \in Choices(kind) : Post(r, kind, v)
        \/ \E rule \in BOOLEAN : Post(r, "overrides", rule)
        \/ Post(r, "maxmind", "key")
        \/ \E kind \in {"clear", "reset"} : Post(r, kind, None)

Handle(r) ==
    \/ Acquire(r)
    \/ ApplySection(r) \/ SaveSection(r)
    \/ ApplyOverrides(r) \/ SaveOverrides(r)
    \/ StoreCredentials(r) \/ UpdateSource(r)
    \/ ResetReadsCredentials(r) \/ ResetLoads(r) \/ ResetCommits(r)

-----------------------------------------------------------------------------
ConfigTypeOK ==
    /\ live \in Config /\ startup \in Config /\ config \in Config \cup {Broken}
    /\ overrides \in Overrides /\ overridesFile \in Overrides \cup {Broken}
    /\ source \in {"default", "key"} /\ creds \in {None, "key"}
    /\ health \in {"not applicable", "pending", "accepted", "rejected"}
    /\ wake \in SUBSET {"bundles", "geoip"}
    /\ \A r \in Requests : request[r].held = Cardinality({l \in DOMAIN locks : locks[l] = r})
    /\ locks \in [{"geoip", "persist", "overrides"} -> Requests \cup {None}]
    /\ disturbances \in 0 .. MaxDisturbances[scenario]

(* What a route has answered `persisted` is what a restart would find,     *)
(* until the user edits the file: not one of the changes made since, by    *)
(* whatever routes in whatever order, saved or not, has written over it. *)
AcknowledgedIsOnDisk ==
    \A s \in SectionRoutes : \A v \in acked[s] : config # Broken /\ config[s] = v

(* Memory and disk agree whenever nothing failed, nobody edited a file and *)
(* no route is at work: routes and resets that run side by side leave no   *)
(* file behind that says other than what is in force. *)
Quiet(lock) == phase = "up" /\ locks[lock] = None
MemoryAgreesWithDisk ==
    /\ Quiet("persist") /\ ~drift.config => [config EXCEPT !.fixed = startup.fixed] = live
    /\ Quiet("overrides") /\ ~drift.overrides => overridesFile = overrides
    /\ Quiet("geoip") /\ ~drift.creds => SourceOf(creds) = source

(* A line of overrides.toml the service has loaded and not understood is   *)
(* still there however often the service has saved the lists since. *)
TyposSurvive == typos => overridesFile # Broken /\ overridesFile.typo

(* Every admin request is answered: the routes do not wait for each other  *)
(* for ever. *)
RequestsAreAnswered ==
    \A r \in Requests : (request[r].kind # None) ~> (request[r].kind = None)
=============================================================================
