------------------------------ MODULE Resolver ------------------------------
(***************************************************************************)
(* The resolution path of the service beside the writers of its settings.  *)
(* A DoH query snapshots the live settings one lock at a time, runs the    *)
(* pipeline of `handle_query` on the snapshot (overrides, cache, rating    *)
(* filter, quorum), and awaits upstreams in between; admin routes, the     *)
(* pause watcher, the reachability prober and the list updater write the   *)
(* live settings meanwhile, each of them one field at a time.              *)
(*                                                                         *)
(* A verdict cache is a GENERATION: `live.cache` names the one the state   *)
(* points at, and a query keeps the generation it snapshotted (an Arc)     *)
(* until it ends, whatever is swapped in meanwhile.  `ver` counts the      *)
(* writes of each field and is history: no action reads it but to record   *)
(* it.  The quorum's fan-out is reduced to what it returns (module VoterQuorum).*)
(* A definition named X_Bug is X as a plausible mistake would have it; it  *)
(* is used by nothing here, and shows which property notices.              *)
(***************************************************************************)
EXTENDS Naturals, Sequences

CONSTANTS
    Queries,      \* the requests that may be in flight at once
    Domains, Qtypes, Voters, Lists,
    Blocks,       \* Blocks[v]: the domains voter v answers with a block
    ListZone,     \* ListZone[l]: the domains of downloadable list l
    Evictable,    \* the domains that ARE a hygiene-eligible registrable
    Boot,         \* the settings the service starts with
    Files,        \* the settings a reset may find on disk
    Reads,        \* the fields read in each step of a snapshot
    Operations,   \* the writers at work in this instance
    MaxChanges,   \* bound: writer operations in a behaviour
    MaxGenerations \* bound: caches built in a behaviour

ASSUME BlocksAssumption == Blocks \in [Voters -> SUBSET Domains]
ASSUME ListZoneAssumption == ListZone \in [Lists -> SUBSET Domains]
ASSUME EvictableAssumption == Evictable \subseteq Domains
ASSUME QtypesAssumption == Qtypes \subseteq {"A", "Other"}
ASSUME BoundsAssumption == MaxChanges \in Nat /\ MaxGenerations \in Nat \ {0}

\* The settings, in the order `resolve_doh_request` reads them.
ReadOrder == <<"runtime", "overrides", "cache", "countries", "providers",
               "ratingConfig", "zone", "removed", "personal", "bundles",
               "offline", "paused">>
Fields == {ReadOrder[i] : i \in DOMAIN ReadOrder}

(***************************************************************************)
(* An instance may read neighbours in one step, which loses no behaviour   *)
(* where nothing but one of them is ever written.  Reads[i] is the set of  *)
(* fields of the i-th step; the steps follow ReadOrder.                    *)
(***************************************************************************)
ASSUME ReadsAssumption ==
    /\ Reads \in Seq(SUBSET Fields) /\ UNION {Reads[i] : i \in DOMAIN Reads} = Fields
    /\ \A i, j \in DOMAIN ReadOrder, m, n \in DOMAIN Reads :
          (i < j /\ ReadOrder[i] \in Reads[m] /\ ReadOrder[j] \in Reads[n]) => m <= n
    /\ \A m, n \in DOMAIN Reads : m # n => Reads[m] \cap Reads[n] = {}

Modes == {"FailOpen", "FailClosed", "Degraded"}
Generations == 1 .. MaxGenerations

SettingsType ==
    [runtime : [mode : Modes, fallback : BOOLEAN],
     overrides : [Domains -> {"none", "allow", "block"}],
     cache : Generations,
     countries : BOOLEAN,          \* the resolved country is a blocked one
     providers : SUBSET Voters,    \* the enabled voters
     ratingConfig : [enabled : BOOLEAN, lists : SUBSET Lists],
     zone : SUBSET Domains, removed : SUBSET Domains, personal : SUBSET Domains,
     bundles : SUBSET Domains,     \* bundle and ccTLD blocks together
     offline : BOOLEAN, paused : BOOLEAN]

ASSUME BootAssumption ==
    Boot \in SettingsType /\ Boot.cache = 1
ASSUME FilesAssumption ==
    Files \subseteq [runtime : [mode : Modes, fallback : BOOLEAN],
                     providers : SUBSET Voters,
                     overrides : [Domains -> {"none", "allow", "block"}],
                     countries : BOOLEAN,
                     ratingConfig : [enabled : BOOLEAN, lists : SUBSET Lists]]

\* The settings a cached verdict was reached under.
JudgedBy == {"providers", "ratingConfig", "zone"}

VARIABLES
    live,        \* AppState: the settings in force
    ver,         \* history: how often each JudgedBy field has been written
    caches,      \* generation -> domain -> entry
    born,        \* history: `ver` when a generation was put in force
    changes,     \* writer operations started (bounded by MaxChanges)
    configOp,    \* the operation holding persist_lock and its writes to come
    overridesOp, \* the operation holding overrides_persist_lock
    refresh,     \* the list selection run_topn_updater is downloading
    visits,      \* the hosts the personal-zone learner has recorded
    pc, domain, qtype, read, snap, snapVer, outcome   \* per query

appState == <<live, ver, caches, born, visits>>
writers == <<changes, configOp, overridesOp, refresh>>
requests == <<pc, domain, qtype, read, snap, snapVer, outcome>>
vars == <<appState, writers, requests>>

Zero == [f \in JudgedBy |-> 0]

NoEntry == [verdict |-> "None", voters |-> {}, answered |-> {}, mode |-> "FailOpen",
            filterOn |-> FALSE, ver |-> Zero]
EmptyCache == [d \in Domains |-> NoEntry]

\* What `handle_query` decided, the voters that had answered included.
Logged(decision, source) ==
    [decision |-> decision, source |-> source, answered |-> {}, removal |-> FALSE]
NoOutcome == Logged("None", "None")

Idle == [name |-> "none", todo |-> <<>>]
NoRefresh == [running |-> FALSE, lists |-> {}]

-----------------------------------------------------------------------------
(* One query: snapshot, pipeline, effects.                                 *)

Arrive(q) ==
    /\ pc[q] = "idle"
    /\ \E d \in Domains, t \in Qtypes :
          /\ domain' = [domain EXCEPT ![q] = d]
          /\ qtype' = [qtype EXCEPT ![q] = t]
    /\ pc' = [pc EXCEPT ![q] = "reading"]
    /\ UNCHANGED <<appState, writers, read, snap, snapVer, outcome>>

\* The next `RwLock` read of the snapshot; nothing holds two of them together.
ReadNext(q) ==
    LET fields == Reads[read[q] + 1] IN
    /\ pc[q] = "reading"
    /\ snap' = [snap EXCEPT ![q] =
                   [f \in Fields |-> IF f \in fields THEN live[f] ELSE @[f]]]
    /\ snapVer' = [snapVer EXCEPT ![q] =
                   [f \in JudgedBy |-> IF f \in fields THEN ver[f] ELSE @[f]]]
    /\ read' = [read EXCEPT ![q] = @ + 1]
    /\ pc' = [pc EXCEPT ![q] = IF read[q] + 1 = Len(Reads) THEN "routing" ELSE @]
    /\ UNCHANGED <<appState, writers, domain, qtype, outcome>>

\* A direct call to the baseline, which answers or fails.
ViaBaseline(source) == {Logged("Allowed", source), Logged("Failed", source)}

\* How the steps above the cache end the query; none of them applies: {}.
ShortCircuits(q) ==
    LET d == domain[q]
        s == snap[q] IN
    CASE s.overrides[d] = "allow"         -> ViaBaseline("Allowlist")
      [] s.overrides[d] = "block"         -> {Logged("Blocked", "Blocklist")}
      [] s.overrides[d] = "none" /\ d \in s.bundles -> {Logged("Blocked", "Blocklist")}
      [] OTHER ->
           CASE qtype[q] # "A"            -> {Logged("None", "Proxy")}
             [] qtype[q] = "A" /\ s.offline -> {Logged("Failed", "Quorum")}
             [] /\ qtype[q] = "A" /\ ~s.offline
                /\ s.paused \/ s.providers = {} -> ViaBaseline("Quorum")
             [] OTHER                     -> {}

End(q, o) ==
    /\ outcome' = [outcome EXCEPT ![q] = o]
    /\ pc' = [pc EXCEPT ![q] = "replying"]

ShortCircuit(q) ==
    /\ pc[q] = "routing"
    /\ \E o \in ShortCircuits(q) : End(q, o)
    /\ UNCHANGED <<appState, writers, domain, qtype, read, snap, snapVer>>

FilterActive(s) == s.ratingConfig.enabled /\ s.zone # {}
InZone(s, d) == d \notin s.removed /\ d \in s.zone \cup s.personal

Entry(q) == caches[snap[q].cache][domain[q]]

\* Refuses an ALLOW that has left the bubble, where CacheMiss still sees one.
CacheHit_Bug(q) ==
    /\ pc[q] = "routing" /\ ShortCircuits(q) = {}
    /\ \/ Entry(q).verdict = "Block" /\ End(q, Logged("Blocked", "Cache"))
       \/ /\ Entry(q).verdict = "Allow"
          /\ FilterActive(snap[q]) => InZone(snap[q], domain[q])
          /\ End(q, IF snap[q].countries THEN Logged("Blocked", "Geoip")
                                         ELSE Logged("Allowed", "Cache"))
    /\ UNCHANGED <<appState, writers, domain, qtype, read, snap, snapVer>>

\* A fresh entry answers; GeoIP is looked up live, on the replayed address.
CacheHit(q) ==
    /\ pc[q] = "routing" /\ ShortCircuits(q) = {}
    /\ \/ Entry(q).verdict = "Block" /\ End(q, Logged("Blocked", "Cache"))
       \/ /\ Entry(q).verdict = "Allow"
          /\ End(q, IF snap[q].countries THEN Logged("Blocked", "Geoip")
                                         ELSE Logged("Allowed", "Cache"))
    /\ UNCHANGED <<appState, writers, domain, qtype, read, snap, snapVer>>

ExactHit_Bug(s, d) ==
    FilterActive(s) /\ d \notin s.removed /\ d \in s.zone \cup s.personal
\* The zone entry matched is the domain itself, and may be evicted.
ExactHit(s, d) ==
    /\ FilterActive(s) /\ d \notin s.removed
    /\ IF d \in s.zone THEN d \in Evictable ELSE d \in s.personal

CacheMiss(q) ==
    LET blocked == FilterActive(snap[q]) /\ ~InZone(snap[q], domain[q]) IN
    /\ pc[q] = "routing" /\ ShortCircuits(q) = {} /\ Entry(q).verdict = "None"
    /\ \/ blocked /\ End(q, Logged("Blocked", "RatingFilter"))
       \/ /\ ~blocked
          /\ pc' = [pc EXCEPT ![q] = "resolving"]
          /\ UNCHANGED outcome
    /\ UNCHANGED <<appState, writers, domain, qtype, read, snap, snapVer>>

(***************************************************************************)
(* `quorum::resolve` returned, with the voters in `answered` heard and     *)
(* those in `failed` known to have timed out or failed: a block as soon as *)
(* one of them counts as one, an ALLOW once all of them have settled.      *)
(* `filters_unreachable` is raised when none has been heard.               *)
(***************************************************************************)
Returns(q, verdict, answered, failed) ==
    LET blocked == \/ \E v \in answered : domain[q] \in Blocks[v]
                   \/ snap[q].runtime.mode = "FailClosed" /\ failed # {} IN
    /\ answered \cap failed = {}
    /\ IF verdict = "Block" THEN blocked
                            ELSE ~blocked /\ answered \cup failed = snap[q].providers

Verdict(q, decision, answered, removal) ==
    [decision |-> decision, source |-> "Quorum", answered |-> answered,
     removal |-> removal]

ResolveBlock(q) ==
    /\ pc[q] = "resolving"
    /\ \E answered \in (SUBSET snap[q].providers) \ {{}}, failed \in SUBSET snap[q].providers :
          /\ Returns(q, "Block", answered, failed)
          /\ outcome' = [outcome EXCEPT ![q] =
                Verdict(q, "Blocked", answered, ExactHit(snap[q], domain[q]))]
    /\ pc' = [pc EXCEPT ![q] = "storing"]
    /\ UNCHANGED <<appState, writers, domain, qtype, read, snap, snapVer>>

\* The answer is usable and goes on to the cache, or is an honest SERVFAIL.
ResolveAllow(q) ==
    /\ pc[q] = "resolving"
    /\ \E answered \in (SUBSET snap[q].providers) \ {{}}, failed \in SUBSET snap[q].providers :
          /\ Returns(q, "Allow", answered, failed)
          /\ \/ /\ outcome' = [outcome EXCEPT ![q] = Verdict(q, "Allowed", answered, FALSE)]
                /\ pc' = [pc EXCEPT ![q] = "storing"]
             \/ End(q, Verdict(q, "Failed", answered, FALSE))
    /\ UNCHANGED <<appState, writers, domain, qtype, read, snap, snapVer>>

ResolveUnreachable_Bug(q) ==
    /\ pc[q] = "resolving"
    /\ \E failed \in (SUBSET snap[q].providers) \ {{}}, verdict \in {"Allow", "Block"} :
          /\ Returns(q, verdict, {}, failed)
          /\ outcome' = [outcome EXCEPT ![q] =
                Logged(IF verdict = "Block" THEN "Blocked" ELSE "Allowed", "BaselineFallback")]
    /\ pc' = [pc EXCEPT ![q] = "storing"]
    /\ UNCHANGED <<appState, writers, domain, qtype, read, snap, snapVer>>

\* No voter was heard: the baseline's answer, or the timeout mode's verdict.
ResolveUnreachable(q) ==
    /\ pc[q] = "resolving"
    /\ \E failed \in (SUBSET snap[q].providers) \ {{}}, verdict \in {"Allow", "Block"} :
          /\ Returns(q, verdict, {}, failed)
          /\ \E o \in ViaBaseline("BaselineFallback") \cup {Logged("Blocked", "BaselineFallback")} :
                /\ (o.decision = "Blocked") <=>
                      (verdict = "Block" /\ ~snap[q].runtime.fallback)
                /\ End(q, o)
    /\ UNCHANGED <<appState, writers, domain, qtype, read, snap, snapVer>>

JudgedEntry_Bug(q) ==
    [verdict |-> outcome[q].decision,
     voters |-> snap[q].providers, answered |-> outcome[q].answered,
     mode |-> snap[q].runtime.mode, filterOn |-> snap[q].ratingConfig.enabled,
     ver |-> snapVer[q]]
JudgedEntry(q) ==
    [verdict |-> IF outcome[q].decision = "Blocked" THEN "Block" ELSE "Allow",
     voters |-> snap[q].providers, answered |-> outcome[q].answered,
     mode |-> snap[q].runtime.mode, filterOn |-> snap[q].ratingConfig.enabled,
     ver |-> snapVer[q]]

\* Looks the cache up again instead of keeping the snapshot's.
Store_Bug(q) ==
    /\ pc[q] = "storing"
    /\ \/ caches' = [caches EXCEPT ![live.cache][domain[q]] = JudgedEntry(q)]
       \/ UNCHANGED caches
    /\ End(q, IF outcome[q].decision = "Allowed" /\ snap[q].countries
              THEN Logged("Blocked", "Geoip") ELSE outcome[q])
    /\ UNCHANGED <<live, ver, born, visits, writers, domain, qtype, read, snap, snapVer>>

\* The verdict goes into the query's own generation unless its TTL is zero;
\* GeoIP then overrides the reply, never the entry.
Store(q) ==
    /\ pc[q] = "storing"
    /\ \/ caches' = [caches EXCEPT ![snap[q].cache][domain[q]] = JudgedEntry(q)]
       \/ UNCHANGED caches
    /\ End(q, IF outcome[q].decision = "Allowed" /\ snap[q].countries
              THEN Logged("Blocked", "Geoip") ELSE outcome[q])
    /\ UNCHANGED <<live, ver, born, visits, writers, domain, qtype, read, snap, snapVer>>

Learns(o) == o.decision = "Allowed" /\ o.source \in {"Quorum", "Cache"}

\* Lazy hygiene, the learner, the log; the request leaves the service.
Reply(q) ==
    /\ pc[q] = "replying"
    /\ live' = IF outcome[q].removal
               THEN [live EXCEPT !.removed = @ \cup {domain[q]}] ELSE live
    /\ visits' = IF Learns(outcome[q]) THEN visits \cup {domain[q]} ELSE visits
    /\ pc' = [pc EXCEPT ![q] = "idle"]
    /\ read' = [read EXCEPT ![q] = 0]
    /\ snap' = [snap EXCEPT ![q] = Boot]
    /\ snapVer' = [snapVer EXCEPT ![q] = Zero]
    /\ outcome' = [outcome EXCEPT ![q] = NoOutcome]
    /\ UNCHANGED <<ver, caches, born, writers, domain, qtype>>

-----------------------------------------------------------------------------
(* The writers: each operation is the list of writes it makes in order.    *)

Write(f, v) == [kind |-> "write", field |-> f, value |-> v]
SwapCache == [kind |-> "swap", field |-> "cache", value |-> {}]
Invalidate(D) == [kind |-> "invalidate", field |-> "cache", value |-> D]

Perform(w) ==
    \/ /\ w.kind = "write"
       /\ live' = [live EXCEPT ![w.field] = w.value]
       /\ ver' = IF w.field \in JudgedBy THEN [ver EXCEPT ![w.field] = @ + 1] ELSE ver
       /\ UNCHANGED <<caches, born>>
    \/ /\ w.kind = "swap"
       /\ live' = [live EXCEPT !.cache = @ + 1]
       /\ born' = [born EXCEPT ![live.cache + 1] = ver]
       /\ UNCHANGED <<ver, caches>>
    \/ /\ w.kind = "invalidate"
       /\ caches' = [caches EXCEPT ![live.cache] =
                       [d \in Domains |-> IF d \in w.value THEN NoEntry ELSE @[d]]]
       /\ UNCHANGED <<live, ver, born>>

\* A route takes persist_lock and computes what it will write.
StartConfig(name, todo) ==
    /\ name \in Operations /\ configOp = Idle
    /\ changes < MaxChanges
    /\ (\E i \in DOMAIN todo : todo[i] = SwapCache) => live.cache < MaxGenerations
    /\ changes' = changes + 1
    /\ configOp' = [name |-> name, todo |-> todo]
    /\ UNCHANGED <<appState, requests, overridesOp, refresh>>

ApplyAdminConfig ==
    \E runtime \in [mode : Modes, fallback : BOOLEAN] :
        StartConfig("config", <<Write("runtime", runtime)>>)

ApplyCacheConfig == StartConfig("cacheConfig", <<SwapCache>>)

ApplyGeoipChange ==
    \E blocked \in BOOLEAN : StartConfig("geoip", <<Write("countries", blocked)>>)

\* The live cache is cleared in place, then the voters are written.
ApplyProviderChange ==
    \E after \in SUBSET Voters :
        StartConfig("providers",
            (IF after # live.providers THEN <<Invalidate(Domains)>> ELSE <<>>)
               \o <<Write("providers", after)>>)

ApplyRatingFilterChange_Bug ==
    \E new \in [enabled : BOOLEAN, lists : SUBSET Lists] :
        StartConfig("rating",
            (IF new.enabled /\ new # live.ratingConfig THEN <<SwapCache>> ELSE <<>>)
               \o <<Write("ratingConfig", new)>>)

\* A change that leaves the filter on is followed by a new cache.
ApplyRatingFilterChange ==
    \E new \in [enabled : BOOLEAN, lists : SUBSET Lists] :
        StartConfig("rating",
            <<Write("ratingConfig", new)>>
               \o (IF new.enabled /\ new # live.ratingConfig THEN <<SwapCache>> ELSE <<>>))

ApplyOverridesChange ==
    /\ "overrides" \in Operations /\ overridesOp = Idle /\ configOp.name # "reset"
    /\ changes < MaxChanges
    /\ \E d \in Domains, kind \in {"none", "allow", "block"} :
          /\ kind # live.overrides[d]
          /\ overridesOp' = [name |-> "overrides",
                             todo |-> <<Write("overrides", [live.overrides EXCEPT ![d] = kind]),
                                        Invalidate({d})>>]
    /\ changes' = changes + 1
    /\ UNCHANGED <<appState, requests, configOp, refresh>>

\* Both files load, then the settings are written one after the other, under
\* both locks.
ApplyAdminReset ==
    \E file \in Files :
        /\ overridesOp = Idle
        /\ StartConfig("reset",
               <<Write("runtime", file.runtime), Write("providers", file.providers),
                 Write("overrides", file.overrides), SwapCache,
                 Write("countries", file.countries),
                 Write("ratingConfig", file.ratingConfig)>>)

Advance(op) == IF Len(op.todo) = 1 THEN Idle ELSE [op EXCEPT !.todo = Tail(@)]

ConfigStep ==
    /\ configOp # Idle
    /\ Perform(Head(configOp.todo))
    /\ configOp' = Advance(configOp)
    /\ UNCHANGED <<visits, requests, changes, overridesOp, refresh>>

OverridesStep ==
    /\ overridesOp # Idle
    /\ Perform(Head(overridesOp.todo))
    /\ overridesOp' = Advance(overridesOp)
    /\ UNCHANGED <<visits, requests, changes, configOp, refresh>>

\* The pause watcher and the reachability prober publish what they saw.
Publish(name, f, value) ==
    /\ name \in Operations /\ changes < MaxChanges
    /\ live[f] # value
    /\ live' = [live EXCEPT ![f] = value]
    /\ changes' = changes + 1
    /\ UNCHANGED <<ver, caches, born, visits, requests, configOp, overridesOp, refresh>>

PauseTick == \E paused \in BOOLEAN : Publish("pause", "paused", paused)
ProbeCycle == \E offline \in BOOLEAN : Publish("probe", "offline", offline)
BundlesRefreshed == \E b \in SUBSET Domains : Publish("bundles", "bundles", b)

\* run_topn_updater: the selection is read first, the zone written at the end,
\* from the lists that were fetched or still on disk.
RefreshStart ==
    /\ "updater" \in Operations /\ changes < MaxChanges
    /\ ~refresh.running
    /\ live.ratingConfig.enabled /\ live.ratingConfig.lists # {}
    /\ refresh' = [running |-> TRUE, lists |-> live.ratingConfig.lists]
    /\ changes' = changes + 1
    /\ UNCHANGED <<appState, requests, configOp, overridesOp>>

RefreshPublish ==
    /\ refresh.running
    /\ \E loaded \in SUBSET refresh.lists :
          live' = [live EXCEPT !.zone = UNION {ListZone[l] : l \in loaded}]
    /\ ver' = [ver EXCEPT !["zone"] = @ + 1]
    /\ refresh' = NoRefresh
    /\ UNCHANGED <<caches, born, visits, requests, changes, configOp, overridesOp>>

\* The personal-zone task derives a zone from the hosts learned so far.
PersonalRefresh ==
    /\ "personal" \in Operations
    /\ \E zone \in SUBSET visits : live' = [live EXCEPT !.personal = zone]
    /\ UNCHANGED <<ver, caches, born, visits, writers, requests>>

\* An entry's TTL runs out, or moka evicts it.
Expire(d) ==
    /\ "expire" \in Operations
    /\ caches[live.cache][d] # NoEntry
    /\ caches' = [caches EXCEPT ![live.cache][d] = NoEntry]
    /\ UNCHANGED <<live, ver, born, visits, writers, requests>>

-----------------------------------------------------------------------------
Init ==
    /\ live = Boot
    /\ ver = Zero
    /\ caches = [g \in Generations |-> EmptyCache]
    /\ born = [g \in Generations |-> Zero]
    /\ changes = 0 /\ configOp = Idle /\ overridesOp = Idle /\ refresh = NoRefresh
    /\ visits = {}
    /\ pc = [q \in Queries |-> "idle"]
    /\ domain \in [Queries -> Domains] /\ qtype \in [Queries -> Qtypes]
    /\ read = [q \in Queries |-> 0]
    /\ snap = [q \in Queries |-> Boot]
    /\ snapVer = [q \in Queries |-> Zero]
    /\ outcome = [q \in Queries |-> NoOutcome]

Progress(q) ==
    \/ ReadNext(q) \/ ShortCircuit(q) \/ CacheHit(q) \/ CacheMiss(q)
    \/ ResolveBlock(q) \/ ResolveAllow(q) \/ ResolveUnreachable(q)
    \/ Store(q) \/ Reply(q)

StartOperation ==
    \/ ApplyAdminConfig \/ ApplyCacheConfig \/ ApplyGeoipChange \/ ApplyProviderChange
    \/ ApplyRatingFilterChange \/ ApplyOverridesChange \/ ApplyAdminReset

Background ==
    \/ PauseTick \/ ProbeCycle \/ BundlesRefreshed \/ RefreshStart \/ RefreshPublish
    \/ PersonalRefresh
    \/ \E d \in Domains : Expire(d)

Next ==
    \/ \E q \in Queries : Arrive(q) \/ Progress(q)
    \/ StartOperation \/ ConfigStep \/ OverridesStep
    \/ Background

\* Every upstream call is bounded, and no lock is held across an await.
Fairness == \A q \in Queries : WF_vars(Progress(q))

Spec == Init /\ [][Next]_vars /\ Fairness

-----------------------------------------------------------------------------
(* Properties.                                                             *)

CountOfWrites == 0 .. (2 * MaxChanges)

EntryType ==
    [verdict : {"None", "Allow", "Block"}, voters : SUBSET Voters,
     answered : SUBSET Voters, mode : Modes, filterOn : BOOLEAN,
     ver : [JudgedBy -> CountOfWrites]]

OutcomeType ==
    [decision : {"None", "Allowed", "Blocked", "Failed"},
     source : {"None", "Quorum", "Cache", "Allowlist", "Blocklist", "Geoip",
               "RatingFilter", "BaselineFallback", "Proxy"},
     answered : SUBSET Voters, removal : BOOLEAN]

TypeOK ==
    /\ live \in SettingsType
    /\ ver \in [JudgedBy -> CountOfWrites]
    /\ caches \in [Generations -> [Domains -> EntryType]]
    /\ born \in [Generations -> [JudgedBy -> CountOfWrites]]
    /\ visits \subseteq Domains
    /\ changes \in 0 .. MaxChanges
    /\ configOp.name \in Operations \cup {"none"}
    /\ overridesOp.name \in {"overrides", "none"}
    /\ refresh \in [running : BOOLEAN, lists : SUBSET Lists]
    /\ pc \in [Queries -> {"idle", "reading", "routing", "resolving", "storing",
                           "replying"}]
    /\ domain \in [Queries -> Domains]
    /\ qtype \in [Queries -> Qtypes]
    /\ read \in [Queries -> 0 .. Len(Reads)]
    /\ snap \in [Queries -> SettingsType]
    /\ snapVer \in [Queries -> [JudgedBy -> CountOfWrites]]
    /\ outcome \in [Queries -> OutcomeType]

Cached(g) == {d \in Domains : caches[g][d] # NoEntry}

(***************************************************************************)
(* The cache holds clean quorum verdicts only (pipeline.rs keeps out the   *)
(* pass-through of a pause, the baseline's stand-in for silent voters and  *)
(* the GeoIP block of one reply): behind an entry a voter has answered, an *)
(* ALLOW was contradicted by none of those heard, and a BLOCK has a voter  *)
(* behind it, or a silent one under fail_closed.                           *)
(***************************************************************************)
CacheHoldsQuorumVerdictsOnly ==
    \A g \in Generations : \A d \in Cached(g) :
        LET e == caches[g][d]
            blocking == {v \in e.answered : d \in Blocks[v]} IN
        /\ e.answered # {} /\ e.answered \subseteq e.voters
        /\ e.verdict = "Allow" => blocking = {}
        /\ e.verdict = "Block" =>
              blocking # {} \/ (e.mode = "FailClosed" /\ e.answered # e.voters)

(***************************************************************************)
(* No query carries an older judgement into a newer cache: whatever was    *)
(* swapped while it was reading its snapshot or awaiting its voters, every *)
(* entry was judged by settings at least as new as those in force when its *)
(* generation was.  It rests on the snapshot reading the cache first.      *)
(***************************************************************************)
GenerationsMoveForward ==
    \A g \in Generations : \A d \in Cached(g) :
        \A f \in JudgedBy : caches[g][d].ver[f] >= born[g][f]

(***************************************************************************)
(* Where no reset intervenes: with the rating filter on and no change in   *)
(* progress, no verdict reached with the filter OFF is served any more     *)
(* (apply_rating_filter_change swaps the cache after writing the table).   *)
(***************************************************************************)
FilterGovernsTheCache ==
    (configOp = Idle /\ live.ratingConfig.enabled) =>
        \A d \in Cached(live.cache) : caches[live.cache][d].filterOn

(***************************************************************************)
(* Lazy hygiene never drops a whole blanket-suffix namespace of a curated  *)
(* list: a name that is not a hygiene-eligible registrable leaves the      *)
(* bubble only if the user's own traffic, in this session or before it,    *)
(* had put it there.                                                       *)
(***************************************************************************)
BlanketSuffixSurvivesHygiene ==
    live.removed \ Evictable \subseteq Boot.removed \cup Boot.personal \cup visits

\* Every query that arrives is answered, whatever the writers do meanwhile.
EveryQueryIsAnswered == \A q \in Queries : pc[q] = "reading" ~> pc[q] = "idle"

(***************************************************************************)
(* apply_provider_change calls its full clear "the only correct            *)
(* invalidation": once it returned, no verdict of another voter set is     *)
(* served.  Refuted: a query that took its snapshot before stores after.   *)
(***************************************************************************)
ProviderChangeLeavesNoStaleVerdict ==
    configOp = Idle =>
        \A d \in Cached(live.cache) : caches[live.cache][d].voters = live.providers

(***************************************************************************)
(* apply_rating_filter_change rebuilds the cache "so an already-cached     *)
(* ALLOW can't outlive the tightened bubble": with the change done and the *)
(* lists downloaded, no cached ALLOW lies outside the bubble.  Refuted:    *)
(* the cache is rebuilt while the old zone is still in force.              *)
(***************************************************************************)
NoCachedAllowOutlivesTheBubble ==
    (configOp = Idle /\ ~refresh.running /\ FilterActive(live)) =>
        \A d \in Cached(live.cache) :
            caches[live.cache][d].verdict = "Allow" => d \in live.zone \cup live.personal

(***************************************************************************)
(* The learner is fed by "already-ALLOW-and-Quorum-passed" traffic only: a *)
(* name is learned when a voter answered for it, or from the cache.        *)
(* Refuted: the pass-through of a pause is logged with source Quorum.      *)
(***************************************************************************)
LearnsQuorumPassedOnly ==
    [][\A d \in visits' \ visits :
          \E q \in Queries :
             /\ domain[q] = d /\ outcome[q].decision = "Allowed"
             /\ outcome[q].answered # {} \/ outcome[q].source = "Cache"]_vars

(***************************************************************************)
(* A name leaves the bubble when the quorum blocks it, that is, some voter *)
(* answered for it with a block.  Refuted: under fail_closed one silent    *)
(* voter, beside others that allow the name, evicts it.                    *)
(***************************************************************************)
EvictedNamesAreBlockedByAVoter ==
    \A d \in live.removed \ Boot.removed : \E v \in Voters : d \in Blocks[v]
=============================================================================
