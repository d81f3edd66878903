---------------------------- MODULE ListUpdaters ----------------------------
(***************************************************************************)
(* The tasks that fetch what the settings select: the blocklist bundles,   *)
(* each source vetted before it replaces the file kept from last time, and *)
(* the GeoIP database.  Both park between cycles until their timer runs out*)
(* or a settings route has left them a permit (`wake`).                    *)
(*                                                                         *)
(* Time is abstract: in a behaviour long enough for it (`scenario`), a     *)
(* timer may run out whenever its task is parked.                          *)
(* `skewed` is history.                                                    *)
(***************************************************************************)
EXTENDS ConfigStore

VARIABLES
    feed,       \* source -> what a download gets: a body, or nothing
    bundles,    \* the bundle task: [step, selected, todo, got, last]
    text,       \* source -> the body kept in <id>.txt
    count,      \* source -> the body whose entries <id>.count counts
    aged,       \* the sources whose <id>.count is past the grace period
    published,  \* the bundle in force: set of [source, body]
    geoip,      \* the GeoIP task: [step, source]
    database,   \* the GeoIP database in force: where it came from
    mmdb,       \* geoip.mmdb
    skewed      \* the sources whose <id>.count was not written with <id>.txt

bundleVars == <<bundles, text, count, aged, published, skewed>>
geoipVars == <<geoip, database, mmdb>>
updaterVars == <<feed, bundleVars, geoipVars>>

\* Lists by their number of entries, and one that is not what it claims to be.
Bodies == {"few", "some", "many", "tampered"}
Size == [few |-> 1, some |-> 6, many |-> 40, tampered |-> 6]
Floor == 5   \* MIN_COUNT_BASELINE
Factor == 5  \* MAX_COUNT_GROWTH_MULTIPLIER, MIN_COUNT_RETENTION_DIVISOR
Origins == {"default", "key"}

Parked(selected) == [step |-> "parked", selected |-> selected, todo |-> {}, got |-> {},
                     last |-> None]

-----------------------------------------------------------------------------
(* The blocklist bundles.                                                  *)

\* validate_hashes: enough of the lines are names, and none of the canaries is there.
Valid(body) == body # "tampered"

\* delta_verdict within the grace period.
WithinDelta(new, previous) ==
    \/ previous = None
    \/ Size[previous] < Floor
    \/ Size[new] <= Size[previous] * Factor /\ Size[new] * Factor >= Size[previous]
Accepted(s) == /\ feed[s] # None /\ Valid(feed[s])
               /\ s \in aged \/ WithinDelta(feed[s], count[s])

BundleStep(step) == phase = "up" /\ bundles.step = step

\* run_blocklist_updater begins: what the files of the selected sources hold is
\* published, and the first cycle waits when all of them are fresh.
WarmLoad ==
    /\ BundleStep("begin")
    /\ \E here \in {{s \in bundles.selected : text[s] # None}} :
          /\ published' = IF here = {} THEN published
                          ELSE {[source |-> s, body |-> text[s]] : s \in here}
          /\ \E fresh \in {FALSE} \cup {here = bundles.selected /\ here # {}} :
                bundles' = [Parked(bundles.selected) EXCEPT
                               !.step = IF fresh THEN "parked" ELSE "cycle"]
    /\ UNCHANGED <<wake, disturbances, text, count, aged, skewed>>

\* park_until_due: the timer, or a permit, left before the task parked or since.
Due(task, timer) == \/ task \in wake /\ wake' = wake \ {task}
                    \/ timer \in scenario /\ UNCHANGED wake

Unpark ==
    /\ BundleStep("parked")
    /\ Due("bundles", "bundles timer")
    /\ bundles' = [bundles EXCEPT !.step = "cycle"]
    /\ UNCHANGED <<disturbances, text, count, aged, published, skewed>>

\* refresh_all_sources: nothing is done, nor unpublished, when nothing is selected.
BeginCycle_Bug ==
    /\ BundleStep("cycle")
    /\ bundles' = [Parked(live.bundles) EXCEPT
                      !.step = IF live.bundles = {} THEN "done" ELSE "fetch",
                      !.todo = live.bundles]
    /\ UNCHANGED <<wake, disturbances, text, count, aged, published, skewed>>
BeginCycle ==
    /\ BundleStep("cycle")
    /\ bundles' = [Parked(live.bundles) EXCEPT
                      !.step = IF live.bundles = {} THEN "parked" ELSE "fetch",
                      !.todo = live.bundles]
    /\ UNCHANGED <<wake, disturbances, text, count, aged, published, skewed>>

\* The cycle uses `body` for `s`, and goes on to `step`.
Uses(s, body, step) ==
    bundles' = [bundles EXCEPT !.step = step, !.last = s, !.todo = @ \ {s},
                               !.got = @ \cup {[source |-> s, body |-> body]}]

(***************************************************************************)
(* refresh_one_source and its fallback: a body that is refused touches     *)
(* neither file, and the cycle uses what was kept.                         *)
(***************************************************************************)
Fetch_Bug ==  \* written first, vetted afterwards
    /\ BundleStep("fetch")
    /\ \E s \in bundles.todo :
          /\ text' = IF feed[s] # None THEN [text EXCEPT ![s] = feed[s]] ELSE text
          /\ Uses(s, text'[s], IF Accepted(s) THEN "count" ELSE "fetch")
    /\ UNCHANGED <<wake, disturbances, count, aged, published, skewed>>
Fetch_NoFallback ==
    /\ BundleStep("fetch")
    /\ \E s \in bundles.todo :
          /\ text' = IF Accepted(s) THEN [text EXCEPT ![s] = feed[s]] ELSE text
          /\ Uses(s, IF Accepted(s) THEN feed[s] ELSE None,
                  IF Accepted(s) THEN "count" ELSE "fetch")
    /\ UNCHANGED <<wake, disturbances, count, aged, published, skewed>>
Fetch_CountsRefused ==
    /\ BundleStep("fetch")
    /\ \E s \in bundles.todo :
          /\ text' = IF Accepted(s) THEN [text EXCEPT ![s] = feed[s]] ELSE text
          /\ count' = IF ~Accepted(s) /\ feed[s] # None THEN [count EXCEPT ![s] = feed[s]]
                      ELSE count
          /\ Uses(s, text'[s], IF Accepted(s) THEN "count" ELSE "fetch")
    /\ UNCHANGED <<wake, disturbances, aged, published, skewed>>
Fetch ==
    /\ BundleStep("fetch")
    /\ \E s \in bundles.todo :
          /\ text' = IF Accepted(s) THEN [text EXCEPT ![s] = feed[s]] ELSE text
          /\ Uses(s, text'[s], IF Accepted(s) THEN "count" ELSE "fetch")
    /\ UNCHANGED <<wake, disturbances, count, aged, published, skewed>>

\* write_new_count: a failure is logged.
WriteCount ==
    /\ BundleStep("count")
    /\ \E fails \in BOOLEAN : \E s \in {bundles.last} :
          /\ Outcome(fails)
          /\ count' = IF fails THEN count ELSE [count EXCEPT ![s] = text[s]]
          /\ aged' = IF fails THEN aged ELSE aged \ {s}
          /\ skewed' = IF fails THEN skewed \cup {s} ELSE skewed \ {s}
    /\ bundles' = [bundles EXCEPT !.step = "fetch"]
    /\ UNCHANGED <<wake, text, published>>

\* The whole set is swapped in.
Publish_Bug ==  \* the permit left meanwhile is taken for an old one
    /\ BundleStep("fetch") /\ bundles.todo = {}
    /\ published' = bundles.got
    /\ bundles' = Parked(bundles.selected)
    /\ wake' = wake \ {"bundles"}
    /\ UNCHANGED <<disturbances, text, count, aged, skewed>>
Publish ==
    /\ BundleStep("fetch") /\ bundles.todo = {}
    /\ published' = bundles.got
    /\ bundles' = Parked(bundles.selected)
    /\ UNCHANGED <<wake, disturbances, text, count, aged, skewed>>

\* Seven days pass without a refresh of `s` that succeeds.
AgesOut(s) ==
    /\ count[s] # None /\ s \notin aged
    /\ Disturb("a week")
    /\ aged' = aged \cup {s}
    /\ UNCHANGED <<wake, bundles, text, count, published, skewed>>

-----------------------------------------------------------------------------
(* The GeoIP database.                                                     *)

\* run_geoip_updater begins: only the default source's first cycle may wait.
GeoipBegin ==
    /\ phase = "up" /\ geoip.step = "begin"
    /\ \E fresh \in {FALSE} \cup {source = "default" /\ database # None} :
          geoip' = [step |-> IF fresh THEN "parked" ELSE "cycle", source |-> source]
    /\ UNCHANGED <<wake, health, database, mmdb>>

GeoipUnpark ==
    /\ phase = "up" /\ geoip.step = "parked"
    /\ Due("geoip", "geoip timer")
    /\ geoip' = [geoip EXCEPT !.step = "cycle"]
    /\ UNCHANGED <<health, database, mmdb>>

GeoipSnapshot ==
    /\ phase = "up" /\ geoip.step = "cycle"
    /\ geoip' = [step |-> "refresh", source |-> source]
    /\ UNCHANGED <<wake, health, database, mmdb>>

\* The body is not downloaded when its checksum is that of the file in use.
Unchanged_Bug(origin) == origin = "default" /\ database # None
Unchanged(origin) == origin = "default" /\ database # None /\ mmdb = origin

\* health_after_refresh; `body` is what the download came to.
HealthAfter(origin, body) ==
    CASE origin = "default" -> "not applicable"
      [] body = "tampered" -> "rejected"
      [] body = None -> health
      [] OTHER -> "accepted"

(***************************************************************************)
(* refresh_once with the source the cycle began with, whatever the settings*)
(* have become meanwhile: a refused or failed download keeps the database. *)
(***************************************************************************)
GeoipRefresh ==
    /\ phase = "up" /\ geoip.step = "refresh"
    /\ \E origin \in {geoip.source} :
       \E fetched \in {feed[origin] \notin {None, "tampered"} /\ ~Unchanged(origin)} :
          /\ mmdb' = IF fetched THEN origin ELSE mmdb
          /\ database' = IF fetched THEN origin ELSE database
          /\ health' = HealthAfter(origin, feed[origin])
    /\ geoip' = [geoip EXCEPT !.step = "parked"]
    /\ UNCHANGED wake

-----------------------------------------------------------------------------
\* The publisher of a list or a database changes what it serves, or is not reached.
FeedChanges ==
    /\ \/ /\ Disturb("lists")
          /\ \E s \in Sources : \E b \in Bodies \cup {None} : feed' = [feed EXCEPT ![s] = b]
       \/ /\ Disturb("releases")
          /\ \E o \in Origins : \E b \in {"some", "tampered", None} : feed' = [feed EXCEPT ![o] = b]
    /\ UNCHANGED <<wake, health, bundleVars, geoipVars>>

BundlesNext == \/ WarmLoad \/ Unpark \/ BeginCycle \/ Fetch \/ WriteCount \/ Publish
GeoipNext == GeoipBegin \/ GeoipUnpark \/ GeoipSnapshot \/ GeoipRefresh

\* A service that has been up for long: every task is parked.
UpdatersInit ==
    /\ feed = [s \in Sources \cup Origins |-> "some"]
    /\ bundles = Parked(live.bundles)
    /\ text = [s \in Sources |-> IF s \in live.bundles THEN feed[s] ELSE None]
    /\ count = text
    /\ published = {[source |-> s, body |-> text[s]] : s \in live.bundles}
    /\ aged = {} /\ skewed = {}
    /\ geoip = [step |-> "parked", source |-> source]
    /\ database = "default" /\ mmdb = "default"

\* A start: geoip.mmdb is loaded if it can be, and both tasks are spawned.
UpdatersStart ==
    /\ bundles' = [Parked(live'.bundles) EXCEPT !.step = "begin"]
    /\ published' = {}
    /\ geoip' = [step |-> "begin", source |-> source']
    /\ database' \in {mmdb, None}
    /\ UNCHANGED <<feed, text, count, aged, mmdb, skewed>>

\* A crash between <id>.txt and <id>.count.
UpdatersCrash ==
    /\ skewed' = IF bundles.step = "count" THEN skewed \cup {bundles.last} ELSE skewed
    /\ bundles' = Parked({})
    /\ UNCHANGED <<feed, text, count, aged, published, geoipVars>>

\* Of the settings, an updater reads what it needs and takes its permit.
Elsewhere == <<phase, live, startup, overrides, source, disk, handlers, notes, scenario>>
BundlesStep == BundlesNext /\ UNCHANGED <<Elsewhere, health, feed, geoipVars>>
GeoipStep == GeoipNext /\ UNCHANGED <<Elsewhere, disturbances, feed, bundleVars>>
UpdatersStep ==
    \/ BundlesStep \/ GeoipStep
    \/ FeedChanges /\ UNCHANGED Elsewhere
    \/ (\E s \in Sources : AgesOut(s)) /\ UNCHANGED <<Elsewhere, health, feed, geoipVars>>

-----------------------------------------------------------------------------
(* A list that is not what it claims to be is never in force, nor kept for *)
(* a later cycle or start to fall back on. *)
RefusedIsNeverUsed ==
    /\ \A s \in Sources : text[s] # None => Valid(text[s])
    /\ \A p \in published : p.body # None => Valid(p.body)

(* Between cycles, what is in force of each source is what its file keeps: *)
(* one source's failure takes nothing away, and a restart finds the same.  *)
PublishedIsKept ==
    phase = "up" /\ bundles.step = "parked" =>
        \A p \in published : p.body = text[p.source]

(* Within the grace period a list grows or shrinks five-fold at most from  *)
(* one version in use to the next, however often the source is refused,    *)
(* restarted or retried in between - unless its count could not be written. *)
NoSuddenChange ==
    [][\A s \in Sources \ (aged \cup skewed) :
          text'[s] # text[s] => WithinDelta(text'[s], text[s])]_<<text, count, aged, skewed>>

(* No wake is lost: a task that has parked with a selection that is no     *)
(* longer in force has a permit waiting for it. *)
ChangesWakeTheTasks ==
    phase = "up" =>
        /\ bundles.step = "parked" /\ bundles.selected # live.bundles => "bundles" \in wake
        /\ geoip.step = "parked" /\ geoip.source # source => "geoip" \in wake

(* A selection that lasts is what is published in the end. *)
BundlesFollowTheSelection ==
    \A selected \in SUBSET Sources \ {{}} :
        <>[](phase = "up" /\ live.bundles = selected) =>
            <>[]({p.source : p \in published} = selected)

(* A GeoIP source that lasts and can be reached provides the database in   *)
(* force, whatever a cycle for another source was about to publish, and    *)
(* the credentials' health says so. *)
GeoipFollowsTheSource ==
    \A origin \in Origins :
        <>[](phase = "up" /\ source = origin /\ feed[origin] = "some") =>
            <>[](database = origin /\ health = HealthAfter(origin, "some"))
=============================================================================
