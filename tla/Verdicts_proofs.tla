--------------------------- MODULE Verdicts_proofs ---------------------------
(***************************************************************************)
(* What the verdict caches and the bubble of the rating filter may hold,   *)
(* for any number of queries, domains, voters, lists and operations: clean *)
(* verdicts of the quorum only; no verdict of the filter's off days once   *)
(* the filter is on; and no loss of a name the user never visited but of   *)
(* one that lazy hygiene may evict.                                        *)
(***************************************************************************)
EXTENDS Resolver_proofs

Blocking(answered, d) == {v \in answered : d \in Blocks[v]}

\* Voters were heard, and those heard (or silent, in fail_closed) say so.
Clean(verdict, answered, voters, mode, d) ==
    /\ answered # {} /\ answered \subseteq voters
    /\ verdict = "Allow" => Blocking(answered, d) = {}
    /\ verdict = "Block" =>
          Blocking(answered, d) # {} \/ (mode = "FailClosed" /\ answered # voters)

CachesAreClean ==
    \A g \in Generations, d \in Domains : LET e == caches[g][d] IN
        e # NoEntry => Clean(e.verdict, e.answered, e.voters, e.mode, d)

\* A verdict on its way to a cache is clean in the eyes of its own snapshot.
StoresAreClean ==
    \A q \in Queries : pc[q] = "storing" =>
        Clean(IF outcome[q].decision = "Blocked" THEN "Block" ELSE "Allow",
              outcome[q].answered, snap[q].providers, snap[q].runtime.mode, domain[q])

\* The names the user's own traffic has brought in, now or before.
Known == Boot.personal \cup visits

\* Personal zones hold known names, whichever of them a query has read.
PersonalIsKnown ==
    /\ live.personal \subseteq Known
    /\ \A q \in Queries : snap[q].personal \subseteq Known

\* What is about to be evicted may be.
RemovalsAreAllowed ==
    \A q \in Queries : outcome[q].removal =>
        pc[q] \in {"storing", "replying"} /\ domain[q] \in Evictable \cup Known

QueryInv ==
    /\ DOMAIN outcome = Queries
    /\ CachesAreClean /\ StoresAreClean
    /\ PersonalIsKnown /\ RemovalsAreAllowed /\ BlanketSuffixSurvivesHygiene

-----------------------------------------------------------------------------
(* The steps of a query.                                                   *)

\* Nothing is cached, known or about to be evicted at the start.
LEMMA InitQueryInv == Init => QueryInv
<1> SUFFICES ASSUME Init PROVE QueryInv
  OBVIOUS
<1>1. CachesAreClean
  BY DEF Init, CachesAreClean, EmptyCache
<1>2. StoresAreClean /\ RemovalsAreAllowed /\ DOMAIN outcome = Queries
  BY DEF Init, StoresAreClean, RemovalsAreAllowed, NoOutcome, Logged
<1>3. PersonalIsKnown /\ BlanketSuffixSurvivesHygiene
  BY DEF Init, PersonalIsKnown, BlanketSuffixSurvivesHygiene, Known
<1> QED  BY <1>1, <1>2, <1>3 DEF QueryInv

(***************************************************************************)
(* A query that ends without a verdict of the quorum, or does not end yet: *)
(* it asks for no eviction and has nothing to store.                       *)
(***************************************************************************)
LEMMA NoVerdictStep ==
  ASSUME IndInv, QueryInv, NEW q \in Queries, pc[q] \in {"routing", "resolving", "storing"},
         UNCHANGED <<live, visits, domain, snap>>,
         NEW next \in {"resolving", "replying"}, pc' = [pc EXCEPT ![q] = next],
         \/ outcome' = outcome /\ pc[q] # "storing"
         \/ \E o : ~o.removal /\ outcome' = [outcome EXCEPT ![q] = o],
         CachesAreClean'
  PROVE  QueryInv'
<1>1. /\ DOMAIN outcome' = Queries
      /\ \A p \in Queries \ {q} : outcome'[p] = outcome[p] /\ pc'[p] = pc[p]
      /\ pc'[q] = next /\ ~outcome'[q].removal
  BY DEF QueryInv, RemovalsAreAllowed, IndInv, Typed
<1>2. StoresAreClean' /\ RemovalsAreAllowed'
  BY <1>1 DEF QueryInv, StoresAreClean, RemovalsAreAllowed, Known
<1>3. PersonalIsKnown' /\ BlanketSuffixSurvivesHygiene'
  BY DEF QueryInv, PersonalIsKnown, BlanketSuffixSurvivesHygiene, Known
<1> QED  BY <1>1, <1>2, <1>3 DEF QueryInv

\* No way of ending above the cache asks for an eviction.
LEMMA ShortCircuitFacts == ASSUME NEW q \in Queries, NEW o \in ShortCircuits(q) PROVE ~o.removal
  BY DEF ShortCircuits, ViaBaseline, Logged

\* From the routing to the end, without a verdict of the quorum.
LEMMA EndingStep ==
  ASSUME IndInv, QueryInv, NEW q \in Queries,
         \/ ShortCircuit(q) \/ CacheHit(q) \/ CacheMiss(q) \/ ResolveUnreachable(q)
  PROVE  QueryInv'
<1>1. /\ pc[q] \in {"routing", "resolving"}
      /\ UNCHANGED <<caches, live, visits, domain, snap>>
  BY DEF ShortCircuit, CacheHit, CacheMiss, ResolveUnreachable, appState
<1>2. CachesAreClean'
  BY <1>1 DEF QueryInv, CachesAreClean
<1>3. ASSUME NEW o, ~o.removal, End(q, o) PROVE QueryInv'
  BY <1>1, <1>2, <1>3, NoVerdictStep DEF End
<1>4. CASE ShortCircuit(q)
  BY <1>3, <1>4, ShortCircuitFacts DEF ShortCircuit
<1>5. CASE CacheHit(q)
  <2>1. \E o : ~o.removal /\ End(q, o)
    BY <1>5 DEF CacheHit, Logged
  <2> QED  BY <1>3, <2>1
<1>6. CASE CacheMiss(q)
  <2>1. \/ \E o : ~o.removal /\ End(q, o)
        \/ pc' = [pc EXCEPT ![q] = "resolving"] /\ outcome' = outcome
    BY <1>6 DEF CacheMiss, Logged
  <2> QED  BY <1>1, <1>2, <1>3, <2>1, NoVerdictStep
<1>7. CASE ResolveUnreachable(q)
  <2>1. \E o : ~o.removal /\ End(q, o)
    BY <1>7 DEF ResolveUnreachable, ViaBaseline, Logged
  <2> QED  BY <1>3, <2>1
<1> QED  BY <1>4, <1>5, <1>6, <1>7

(***************************************************************************)
(* A verdict of the quorum.  `Returns` gives an ALLOW only where no voter  *)
(* heard has blocked, and a BLOCK only where one has, or is silent under   *)
(* fail_closed; a silent voter is one of the snapshot's that is not heard. *)
(***************************************************************************)
LEMMA VerdictStep ==
  ASSUME IndInv, QueryInv, NEW q \in Queries, ResolveBlock(q) \/ ResolveAllow(q)
  PROVE  QueryInv'
<1>1. /\ pc[q] = "resolving" /\ UNCHANGED <<caches, live, visits, domain, snap>>
  BY DEF ResolveBlock, ResolveAllow, appState
<1>2. CachesAreClean' /\ PersonalIsKnown' /\ BlanketSuffixSurvivesHygiene'
  BY <1>1 DEF QueryInv, CachesAreClean, PersonalIsKnown, BlanketSuffixSurvivesHygiene, Known
<1>3. ASSUME NEW o, outcome' = [outcome EXCEPT ![q] = o], pc' = [pc EXCEPT ![q] = "storing"],
             Clean(IF o.decision = "Blocked" THEN "Block" ELSE "Allow",
                   o.answered, snap[q].providers, snap[q].runtime.mode, domain[q]),
             o.removal => ExactHit(snap[q], domain[q])
      PROVE  QueryInv'
  <2>1. /\ DOMAIN outcome' = Queries /\ outcome'[q] = o /\ pc'[q] = "storing"
        /\ \A p \in Queries \ {q} : outcome'[p] = outcome[p] /\ pc'[p] = pc[p]
    BY <1>3 DEF QueryInv, IndInv, Typed
  <2>2. StoresAreClean'
    BY <1>1, <1>3, <2>1 DEF QueryInv, StoresAreClean
  <2>3. o.removal => domain[q] \in Evictable \cup Known
    BY <1>3 DEF ExactHit, QueryInv, PersonalIsKnown
  <2>4. RemovalsAreAllowed'
    BY <1>1, <2>1, <2>3 DEF QueryInv, RemovalsAreAllowed, Known
  <2> QED  BY <1>2, <2>1, <2>2, <2>4 DEF QueryInv
<1>4. CASE ResolveBlock(q)
  <2>1. PICK answered \in (SUBSET snap[q].providers) \ {{}},
             failed \in SUBSET snap[q].providers :
          /\ Returns(q, "Block", answered, failed)
          /\ outcome' = [outcome EXCEPT ![q] =
                Verdict(q, "Blocked", answered, ExactHit(snap[q], domain[q]))]
    BY <1>4 DEF ResolveBlock
  <2> DEFINE o == Verdict(q, "Blocked", answered, ExactHit(snap[q], domain[q]))
  <2>2. o.decision = "Blocked" /\ o.answered = answered
        /\ (o.removal => ExactHit(snap[q], domain[q]))
    BY DEF Verdict
  <2>3. Clean("Block", answered, snap[q].providers, snap[q].runtime.mode, domain[q])
    BY <2>1 DEF Clean, Returns, Blocking
  <2>4. pc' = [pc EXCEPT ![q] = "storing"]
    BY <1>4 DEF ResolveBlock
  <2> HIDE DEF o
  <2> QED  BY <1>3, <2>1, <2>2, <2>3, <2>4 DEF o
<1>5. CASE ResolveAllow(q)
  <2>1. PICK answered \in (SUBSET snap[q].providers) \ {{}},
             failed \in SUBSET snap[q].providers :
          /\ Returns(q, "Allow", answered, failed)
          /\ \/ /\ outcome' = [outcome EXCEPT ![q] = Verdict(q, "Allowed", answered, FALSE)]
                /\ pc' = [pc EXCEPT ![q] = "storing"]
             \/ End(q, Verdict(q, "Failed", answered, FALSE))
    BY <1>5 DEF ResolveAllow
  <2>2. CASE End(q, Verdict(q, "Failed", answered, FALSE))
    BY <1>1, <1>2, <2>2, NoVerdictStep DEF End, Verdict
  <2>3. CASE /\ outcome' = [outcome EXCEPT ![q] = Verdict(q, "Allowed", answered, FALSE)]
             /\ pc' = [pc EXCEPT ![q] = "storing"]
    <3>1. Clean("Allow", answered, snap[q].providers, snap[q].runtime.mode, domain[q])
      BY <2>1 DEF Clean, Returns, Blocking
    <3>2. /\ Verdict(q, "Allowed", answered, FALSE).decision # "Blocked"
          /\ Verdict(q, "Allowed", answered, FALSE).answered = answered
          /\ ~Verdict(q, "Allowed", answered, FALSE).removal
      BY DEF Verdict
    <3> QED  BY <1>3, <2>3, <3>1, <3>2
  <2> QED  BY <2>1, <2>2, <2>3
<1> QED  BY <1>4, <1>5

\* The entry made of a clean verdict is clean; whose reply GeoIP replaces, it is as well.
LEMMA StoreKeepsQueryInv == ASSUME IndInv, QueryInv, NEW q \in Queries, Store(q) PROVE QueryInv'
<1> DEFINE g == snap[q].cache
           d == domain[q]
           e == JudgedEntry(q)
           o == IF outcome[q].decision = "Allowed" /\ snap[q].countries
                THEN Logged("Blocked", "Geoip") ELSE outcome[q]
<1>1. /\ pc[q] = "storing" /\ UNCHANGED <<live, visits, domain, snap>>
      /\ caches' = [caches EXCEPT ![g][d] = e] \/ caches' = caches
      /\ pc' = [pc EXCEPT ![q] = "replying"] /\ outcome' = [outcome EXCEPT ![q] = o]
  BY DEF Store, End
<1>2. Clean(e.verdict, e.answered, e.voters, e.mode, d)
  <2>1. /\ e.verdict = IF outcome[q].decision = "Blocked" THEN "Block" ELSE "Allow"
        /\ e.answered = outcome[q].answered /\ e.voters = snap[q].providers
        /\ e.mode = snap[q].runtime.mode
    BY DEF JudgedEntry
  <2> QED  BY <1>1, <2>1 DEF QueryInv, StoresAreClean
<1> HIDE DEF e
<1>3. \A h \in Generations, c \in Domains :
          \/ caches'[h][c] = caches[h][c]
          \/ c = d /\ caches'[h][c] = e
  BY <1>1 DEF IndInv, Typed
<1>4. CachesAreClean'
  BY <1>2, <1>3 DEF QueryInv, CachesAreClean
<1>5. o = outcome[q] \/ ~o.removal
  BY DEF Logged
<1> HIDE DEF o
<1>6. /\ DOMAIN outcome' = Queries /\ outcome'[q] = o /\ pc'[q] = "replying"
      /\ \A p \in Queries \ {q} : outcome'[p] = outcome[p] /\ pc'[p] = pc[p]
  BY <1>1 DEF QueryInv, IndInv, Typed
<1>7. StoresAreClean'
  BY <1>1, <1>6 DEF QueryInv, StoresAreClean
<1>8. RemovalsAreAllowed'
  BY <1>1, <1>5, <1>6 DEF QueryInv, RemovalsAreAllowed, Known
<1>9. PersonalIsKnown' /\ BlanketSuffixSurvivesHygiene'
  BY <1>1 DEF QueryInv, PersonalIsKnown, BlanketSuffixSurvivesHygiene, Known
<1> QED  BY <1>4, <1>6, <1>7, <1>8, <1>9 DEF QueryInv

\* A query that arrives or reads on decides nothing; what it reads is known.
LEMMA SnapshotStep ==
  ASSUME IndInv, QueryInv, NEW q \in Queries, Arrive(q) \/ ReadNext(q)
  PROVE  QueryInv'
<1>1. /\ pc[q] \in {"idle", "reading"} /\ UNCHANGED <<caches, live, visits, outcome>>
      /\ \E next \in {"reading", "routing"} : pc' = [pc EXCEPT ![q] = next]
      /\ \A p \in Queries \ {q} : domain'[p] = domain[p] /\ snap'[p] = snap[p]
  BY DEF Arrive, ReadNext, appState, IndInv, Typed
<1>2. ~outcome[q].removal /\ pc'[q] \in {"reading", "routing"}
      /\ \A p \in Queries \ {q} : pc'[p] = pc[p]
  BY <1>1 DEF QueryInv, RemovalsAreAllowed, IndInv, Typed
<1>3. snap'[q].personal = snap[q].personal \/ snap'[q].personal = live.personal
  BY FieldNames DEF Arrive, ReadNext, IndInv, Typed
<1>4. CachesAreClean' /\ BlanketSuffixSurvivesHygiene'
  BY <1>1 DEF QueryInv, CachesAreClean, BlanketSuffixSurvivesHygiene
<1>5. StoresAreClean'
  BY <1>1, <1>2 DEF QueryInv, StoresAreClean
<1>6. RemovalsAreAllowed'
  BY <1>1, <1>2 DEF QueryInv, RemovalsAreAllowed, Known
<1>7. PersonalIsKnown'
  BY <1>1, <1>3 DEF QueryInv, PersonalIsKnown, Known
<1> QED  BY <1>1, <1>4, <1>5, <1>6, <1>7 DEF QueryInv

\* The name leaves the bubble that was allowed to; what is visited is known.
LEMMA ReplyKeepsQueryInv == ASSUME IndInv, QueryInv, NEW q \in Queries, Reply(q) PROVE QueryInv'
<1>1. /\ pc[q] = "replying" /\ UNCHANGED <<caches, domain>>
      /\ pc' = [pc EXCEPT ![q] = "idle"] /\ snap' = [snap EXCEPT ![q] = Boot]
      /\ outcome' = [outcome EXCEPT ![q] = NoOutcome]
      /\ visits \subseteq visits'
  BY DEF Reply
<1>2. /\ live'.personal = live.personal
      /\ \/ live'.removed = live.removed
         \/ outcome[q].removal /\ live'.removed = live.removed \cup {domain[q]}
  BY FieldNames DEF Reply, IndInv, Typed
<1>3. /\ DOMAIN outcome' = Queries /\ pc'[q] = "idle" /\ snap'[q] = Boot
      /\ ~outcome'[q].removal
      /\ \A p \in Queries \ {q} : /\ outcome'[p] = outcome[p] /\ pc'[p] = pc[p]
                                  /\ snap'[p] = snap[p]
  BY <1>1 DEF QueryInv, IndInv, Typed, NoOutcome, Logged
<1>4. Known \subseteq Known' /\ Boot.personal \subseteq Known
  BY <1>1 DEF Known
<1>5. BlanketSuffixSurvivesHygiene'
  BY <1>1, <1>2, <1>4 DEF QueryInv, BlanketSuffixSurvivesHygiene, RemovalsAreAllowed, Known
<1>6. PersonalIsKnown'
  BY <1>2, <1>3, <1>4 DEF QueryInv, PersonalIsKnown
<1>7. CachesAreClean' /\ StoresAreClean'
  BY <1>1, <1>3 DEF QueryInv, CachesAreClean, StoresAreClean
<1>8. RemovalsAreAllowed'
  BY <1>1, <1>3, <1>4 DEF QueryInv, RemovalsAreAllowed
<1> QED  BY <1>3, <1>5, <1>6, <1>7, <1>8 DEF QueryInv

-----------------------------------------------------------------------------
(* The writers and the background.                                         *)

\* A write of an operation empties entries at most, and evicts no name.
LEMMA PerformFacts ==
  ASSUME IndInv, NEW w \in Steps, Perform(w)
  PROVE  /\ \A g \in Generations, d \in Domains :
                caches'[g][d] = caches[g][d] \/ caches'[g][d] = NoEntry
         /\ live'.removed = live.removed /\ live'.personal = live.personal
<1>1. w.kind = "write" => w.field # "removed" /\ w.field # "personal"
  BY DEF Steps, Write, Invalidate, SwapCache
<1>2. CASE w.kind = "write"
  BY <1>1, <1>2, FieldNames DEF Perform, IndInv, Typed
<1>3. CASE w.kind = "swap"
  BY <1>3, FieldNames DEF Perform, IndInv, Typed
<1>4. CASE w.kind = "invalidate"
  BY <1>4 DEF Perform, IndInv, Typed
<1> QED  BY <1>2, <1>3, <1>4 DEF Perform

\* What the queries cannot do: nothing enters a cache or leaves the bubble.
LEMMA OutsideFacts ==
  ASSUME IndInv, StartOperation \/ ConfigStep \/ OverridesStep \/ Background
  PROVE  /\ UNCHANGED <<requests, visits>>
         /\ \A g \in Generations, d \in Domains :
                caches'[g][d] = caches[g][d] \/ caches'[g][d] = NoEntry
         /\ live'.removed = live.removed
         /\ live'.personal = live.personal \/ live'.personal \subseteq visits
<1>1. CASE StartOperation
  BY <1>1 DEF StartOperation, ApplyAdminConfig, ApplyCacheConfig, ApplyGeoipChange,
              ApplyProviderChange, ApplyRatingFilterChange, ApplyOverridesChange,
              ApplyAdminReset, StartConfig, appState
<1>2. CASE ConfigStep
  <2>1. Head(configOp.todo) \in Steps
    BY <1>2, AdvanceFacts DEF ConfigStep, IndInv, Typed
  <2> QED  BY <1>2, <2>1, PerformFacts DEF ConfigStep
<1>3. CASE OverridesStep
  <2>1. Head(overridesOp.todo) \in Steps
    BY <1>3, AdvanceFacts DEF OverridesStep, IndInv, Typed
  <2> QED  BY <1>3, <2>1, PerformFacts DEF OverridesStep
<1>4. CASE PauseTick \/ ProbeCycle \/ BundlesRefreshed
  BY <1>4, FieldNames DEF PauseTick, ProbeCycle, BundlesRefreshed, Publish, IndInv, Typed
<1>5. CASE RefreshStart \/ RefreshPublish
  BY <1>5, FieldNames DEF RefreshStart, RefreshPublish, appState, IndInv, Typed
<1>6. CASE PersonalRefresh
  BY <1>6, FieldNames DEF PersonalRefresh, IndInv, Typed
<1>7. ASSUME NEW d \in Domains, Expire(d)
      PROVE  /\ UNCHANGED <<requests, visits, live>>
             /\ \A g \in Generations, c \in Domains :
                    caches'[g][c] = caches[g][c] \/ caches'[g][c] = NoEntry
  BY <1>7 DEF Expire, IndInv, Typed
<1> QED  BY <1>1, <1>2, <1>3, <1>4, <1>5, <1>6, <1>7 DEF Background

\* So they keep what is known of the queries.
LEMMA OutsideStep ==
  ASSUME IndInv, QueryInv, StartOperation \/ ConfigStep \/ OverridesStep \/ Background
  PROVE  QueryInv'
<1>1. /\ UNCHANGED <<requests, visits>>
      /\ \A g \in Generations, d \in Domains :
             caches'[g][d] = caches[g][d] \/ caches'[g][d] = NoEntry
      /\ live'.removed = live.removed
      /\ live'.personal = live.personal \/ live'.personal \subseteq visits
  BY OutsideFacts
<1>2. CachesAreClean'
  BY <1>1 DEF QueryInv, CachesAreClean
<1>3. StoresAreClean' /\ RemovalsAreAllowed' /\ DOMAIN outcome' = Queries
  BY <1>1 DEF QueryInv, StoresAreClean, RemovalsAreAllowed, Known, requests
<1>4. PersonalIsKnown' /\ BlanketSuffixSurvivesHygiene'
  BY <1>1 DEF QueryInv, PersonalIsKnown, BlanketSuffixSurvivesHygiene, Known, requests
<1> QED  BY <1>2, <1>3, <1>4 DEF QueryInv

\* Every step keeps what is known of the queries.
LEMMA QueryInvariance == Spec => []QueryInv
<1>1. ASSUME IndInv, QueryInv, [Next]_vars PROVE QueryInv'
  <2>1. CASE UNCHANGED vars
    BY <1>1, <2>1 DEF vars, appState, requests, QueryInv, CachesAreClean, StoresAreClean,
                     PersonalIsKnown, RemovalsAreAllowed, BlanketSuffixSurvivesHygiene, Known
  <2>2. ASSUME NEW q \in Queries, Arrive(q) \/ Progress(q) PROVE QueryInv'
    BY <1>1, <2>2, SnapshotStep, EndingStep, VerdictStep, StoreKeepsQueryInv,
       ReplyKeepsQueryInv DEF Progress
  <2> QED  BY <1>1, <2>1, <2>2, OutsideStep DEF Next
<1> QED  BY <1>1, Invariance, InitQueryInv, PTL DEF Spec

(***************************************************************************)
(* The caches hold clean verdicts of the quorum only, whatever the settings*)
(* become between a query's snapshot and the entry it stores.              *)
(***************************************************************************)
THEOREM CacheHoldsQuorumVerdictsOnlyCorrect == Spec => []CacheHoldsQuorumVerdictsOnly
<1>1. QueryInv => CacheHoldsQuorumVerdictsOnly
  <2> SUFFICES ASSUME QueryInv, NEW g \in Generations, NEW d \in Cached(g)
               PROVE  LET e == caches[g][d]
                          blocking == {v \in e.answered : d \in Blocks[v]} IN
                      /\ e.answered # {} /\ e.answered \subseteq e.voters
                      /\ e.verdict = "Allow" => blocking = {}
                      /\ e.verdict = "Block" =>
                            blocking # {} \/ (e.mode = "FailClosed" /\ e.answered # e.voters)
    BY DEF CacheHoldsQuorumVerdictsOnly
  <2> QED  BY DEF QueryInv, CachesAreClean, Clean, Blocking, Cached
<1> QED  BY <1>1, QueryInvariance, PTL

(***************************************************************************)
(* A blanket suffix of a curated list survives lazy hygiene, whichever     *)
(* zones the evicting query and the hygiene itself have seen.              *)
(***************************************************************************)
THEOREM BlanketSuffixSurvivesHygieneCorrect == Spec => []BlanketSuffixSurvivesHygiene
<1>1. QueryInv => BlanketSuffixSurvivesHygiene
  BY DEF QueryInv
<1> QED  BY <1>1, QueryInvariance, PTL

-----------------------------------------------------------------------------
(* The rating filter over the caches.                                      *)

RatingConfigs == [enabled : BOOLEAN, lists : SUBSET Lists]

\* What is left to write ends with a new cache.
Swaps(todo) == todo # <<>> /\ todo[Len(todo)] = SwapCache

(***************************************************************************)
(* What the two locks' holders have left to write where nothing resets the *)
(* settings.  A change of the rating filter that leaves it on, and is one, *)
(* has a new cache to come.                                                *)
(***************************************************************************)
ConfigTodo(op) ==
    \/ op = Idle
    \/ \E w \in Steps : w.field # "ratingConfig" /\ op.todo = <<w>>
    \/ \E voters \in SUBSET Voters :
          op.todo = <<Invalidate(Domains), Write("providers", voters)>>
    \/ \E new \in RatingConfigs :
          /\ ~new.enabled \/ new = live.ratingConfig
          /\ op.todo = <<Write("ratingConfig", new)>>
    \/ \E new \in RatingConfigs : op.todo = <<Write("ratingConfig", new), SwapCache>>

OverridesTodo(op) ==
    \/ op = Idle
    \/ \E w \in Steps : w.kind = "invalidate" /\ op.todo = <<w>>
    \/ \E v, w \in Steps : /\ v.kind = "write" /\ v.field = "overrides"
                           /\ w.kind = "invalidate" /\ op.todo = <<v, w>>

\* A cache to come has a generation left.
CacheInRange ==
    /\ live.cache \in Generations
    /\ Swaps(configOp.todo) => live.cache < MaxGenerations

(***************************************************************************)
(* With the filter on and no cache to come, whatever the cache in force    *)
(* holds was judged with the filter on, and so is whatever a query with    *)
(* that cache in its snapshot will put there.                              *)
(***************************************************************************)
FilterIsOn ==
    live.ratingConfig.enabled /\ ~Swaps(configOp.todo) =>
        /\ \A d \in Domains :
              caches[live.cache][d] # NoEntry => caches[live.cache][d].filterOn
        /\ \A q \in Queries : snap[q].cache = live.cache =>
              \A m \in 1 .. read[q] :
                  "ratingConfig" \in Reads[m] => snap[q].ratingConfig.enabled

FilterInv ==
    /\ ConfigTodo(configOp) /\ OverridesTodo(overridesOp)
    /\ CacheInRange /\ FilterIsOn

\* The short lists of writes, and what is left of them.
LEMMA TodoEnds ==
  /\ ~Swaps(Idle.todo)
  /\ \A w : Swaps(<<w>>) <=> w = SwapCache
  /\ \A v, w : Swaps(<<v, w>>) <=> w = SwapCache
  BY DEF Swaps, Idle

\* Short lists, joined.
LEMMA ShortLists ==
  ASSUME NEW v, NEW w
  PROVE  <<>> \o <<w>> = <<w>> /\ <<w>> \o <<>> = <<w>> /\ <<v>> \o <<w>> = <<v, w>>
<1> DEFINE S == {v, w}
<1>1. /\ <<v>> \in Seq(S) /\ <<w>> \in Seq(S) /\ <<v, w>> \in Seq(S)
      /\ Len(<<v>>) = 1 /\ Len(<<w>>) = 1 /\ Len(<<v, w>>) = 2
  OBVIOUS
<1>2. <<>> \o <<w>> = <<w>> /\ <<w>> \o <<>> = <<w>>
  BY <1>1, ConcatEmptySeq
<1>3. /\ <<v>> \o <<w>> \in Seq(S) /\ Len(<<v>> \o <<w>>) = 2
      /\ (<<v>> \o <<w>>)[1] = v /\ (<<v>> \o <<w>>)[2] = w
  BY <1>1, ConcatProperties
<1>4. \A i \in 1 .. 2 : (<<v>> \o <<w>>)[i] = <<v, w>>[i]
  BY <1>3
<1>5. <<v>> \o <<w>> = <<v, w>>
  BY <1>1, <1>3, <1>4, SeqEqual
<1> QED  BY <1>2, <1>5

\* An operation's last write leaves nothing to do; its last but one, the last.
LEMMA AdvanceTodo ==
  ASSUME NEW op, Pending(op), op # Idle
  PROVE  /\ \A w : op.todo = <<w>> => Head(op.todo) = w /\ Advance(op) = Idle
         /\ \A v, w : op.todo = <<v, w>> => Head(op.todo) = v /\ Advance(op).todo = <<w>>
<1>1. DOMAIN op = {"name", "todo"}
  BY DEF Pending
<1>2. ASSUME NEW w, op.todo = <<w>> PROVE Head(op.todo) = w /\ Advance(op) = Idle
  BY <1>2 DEF Advance
<1>3. ASSUME NEW v, NEW w, op.todo = <<v, w>>
      PROVE  Head(op.todo) = v /\ Advance(op).todo = <<w>>
  <2>1. Len(op.todo) = 2 /\ Head(op.todo) = v /\ Tail(op.todo) = <<w>>
    BY <1>3
  <2> QED  BY <1>1, <2>1 DEF Advance
<1> QED  BY <1>2, <1>3

\* The filter may be on at the start: no entry is there, and nothing is read.
LEMMA InitFilterInv == Init => FilterInv
<1> SUFFICES ASSUME Init PROVE FilterInv
  OBVIOUS
<1>1. ConfigTodo(configOp) /\ OverridesTodo(overridesOp)
  BY DEF Init, ConfigTodo, OverridesTodo
<1>2. CacheInRange
  BY BootFacts, BoundsAssumption, TodoEnds DEF Init, CacheInRange, Generations
<1>3. FilterIsOn
  BY <1>2 DEF Init, FilterIsOn, CacheInRange, EmptyCache
<1> QED  BY <1>1, <1>2, <1>3 DEF FilterInv

\* Entries at most go, and the filter, the cache in force and the writes to come stay.
LEMMA FilterStays ==
  ASSUME FilterInv, UNCHANGED requests,
         live'.cache = live.cache, live'.ratingConfig = live.ratingConfig,
         Swaps(configOp'.todo) <=> Swaps(configOp.todo),
         \A g \in Generations, d \in Domains :
             caches'[g][d] = caches[g][d] \/ caches'[g][d] = NoEntry
  PROVE  CacheInRange' /\ FilterIsOn'
<1>1. CacheInRange'
  BY DEF FilterInv, CacheInRange
<1>2. FilterIsOn'
  BY DEF FilterInv, CacheInRange, FilterIsOn, requests
<1> QED  BY <1>1, <1>2

\* The writes that concern neither the filter nor which cache is in force.
LEMMA OtherWrites ==
  ASSUME IndInv, NEW w \in Steps, Perform(w), w.field # "ratingConfig", w.kind # "swap"
  PROVE  live'.cache = live.cache /\ live'.ratingConfig = live.ratingConfig
<1>1. w.kind = "write" => w.field # "cache"
  BY DEF Steps, Write, Invalidate, SwapCache
<1>2. CASE w.kind = "write"
  BY <1>1, <1>2, FieldNames DEF Perform, IndInv, Typed
<1>3. CASE w.kind = "invalidate"
  BY <1>3 DEF Perform
<1> QED  BY <1>2, <1>3 DEF Perform

(***************************************************************************)
(* The new cache is empty, and in nobody's snapshot.  A write of the table *)
(* either turns the filter off, or repeats what it says, or leaves the new *)
(* cache to come.                                                          *)
(***************************************************************************)
LEMMA ConfigFilterStep == ASSUME IndInv, FilterInv, ConfigStep PROVE FilterInv'
<1>1. /\ Pending(configOp) /\ configOp # Idle /\ Perform(Head(configOp.todo))
      /\ configOp' = Advance(configOp) /\ overridesOp' = overridesOp /\ UNCHANGED requests
  BY DEF ConfigStep, IndInv, Typed
<1>2. OverridesTodo(overridesOp')
  BY <1>1 DEF FilterInv
<1>3. ASSUME NEW w \in Steps, w.field # "ratingConfig", configOp.todo = <<w>>
      PROVE  FilterInv'
  <2>1. Perform(w) /\ configOp' = Idle
    BY <1>1, <1>3, AdvanceTodo
  <2>2. ConfigTodo(configOp)' /\ ~Swaps(configOp'.todo)
    BY <2>1, TodoEnds DEF ConfigTodo
  <2>3. CASE w.kind = "swap"
    <3>1. w = SwapCache
      BY <2>3 DEF Steps, Write, Invalidate, SwapCache
    <3>2. live'.cache = live.cache + 1 /\ UNCHANGED caches
      BY <2>1, <2>3, FieldNames DEF Perform, IndInv, Typed
    <3>3. live.cache \in Nat /\ live'.cache \in Generations /\ live'.cache > live.cache
      BY <1>3, <3>1, <3>2, TodoEnds, BoundsAssumption
         DEF FilterInv, CacheInRange, Generations
    <3>4. \A d \in Domains : caches'[live'.cache][d] = NoEntry
      BY <3>2, <3>3 DEF IndInv, NothingAhead
    <3>5. \A q \in Queries : snap'[q].cache # live'.cache
      <4> SUFFICES ASSUME NEW q \in Queries PROVE snap'[q].cache # live'.cache
        OBVIOUS
      <4>1. snap[q].cache <= live.cache /\ snap[q].cache \in Nat /\ snap' = snap
        BY <1>1 DEF IndInv, Typed, NothingAhead, requests
      <4> QED  BY <3>3, <4>1
    <3>6. CacheInRange' /\ FilterIsOn'
      BY <2>2, <3>3, <3>4, <3>5 DEF CacheInRange, FilterIsOn
    <3> QED  BY <1>2, <2>2, <3>6 DEF FilterInv
  <2>4. CASE w.kind # "swap"
    <3>1. live'.cache = live.cache /\ live'.ratingConfig = live.ratingConfig
      BY <1>3, <2>1, <2>4, OtherWrites
    <3>2. ~Swaps(configOp.todo)
      BY <1>3, <2>4, TodoEnds DEF SwapCache
    <3>3. CacheInRange' /\ FilterIsOn'
      BY <1>1, <2>1, <2>2, <3>1, <3>2, FilterStays, PerformFacts
    <3> QED  BY <1>2, <2>2, <3>3 DEF FilterInv
  <2> QED  BY <2>3, <2>4
<1>4. ASSUME NEW voters \in SUBSET Voters,
             configOp.todo = <<Invalidate(Domains), Write("providers", voters)>>
      PROVE  FilterInv'
  <2>1. /\ Invalidate(Domains) \in Steps /\ Write("providers", voters) \in Steps
        /\ Invalidate(Domains).kind # "swap" /\ Invalidate(Domains).field # "ratingConfig"
        /\ Write("providers", voters).field # "ratingConfig"
        /\ Write("providers", voters) # SwapCache
    BY DEF Steps, Invalidate, Write, SwapCache
  <2>2. Perform(Invalidate(Domains)) /\ configOp'.todo = <<Write("providers", voters)>>
    BY <1>1, <1>4, AdvanceTodo
  <2>3. ConfigTodo(configOp)'
    BY <2>1, <2>2 DEF ConfigTodo
  <2>4. ~Swaps(configOp.todo) /\ ~Swaps(configOp'.todo)
    BY <1>4, <2>1, <2>2, TodoEnds
  <2>5. live'.cache = live.cache /\ live'.ratingConfig = live.ratingConfig
    BY <2>1, <2>2, OtherWrites
  <2>6. CacheInRange' /\ FilterIsOn'
    BY <1>1, <2>1, <2>2, <2>4, <2>5, FilterStays, PerformFacts
  <2> QED  BY <1>2, <2>3, <2>6 DEF FilterInv
<1>5. ASSUME NEW new \in RatingConfigs, Perform(Write("ratingConfig", new))
      PROVE  live'.cache = live.cache /\ live'.ratingConfig = new /\ UNCHANGED caches
  BY <1>5, FieldNames DEF Perform, Write, IndInv, Typed
<1>6. ASSUME NEW new \in RatingConfigs, ~new.enabled \/ new = live.ratingConfig,
             configOp.todo = <<Write("ratingConfig", new)>>
      PROVE  FilterInv'
  <2>1. Perform(Write("ratingConfig", new)) /\ configOp' = Idle
    BY <1>1, <1>6, AdvanceTodo
  <2>2. ConfigTodo(configOp)' /\ ~Swaps(configOp'.todo) /\ ~Swaps(configOp.todo)
    BY <1>6, <2>1, TodoEnds DEF ConfigTodo, Write, SwapCache
  <2>3. live'.cache = live.cache /\ live'.ratingConfig = new /\ UNCHANGED caches
    BY <1>5, <2>1
  <2>4. CacheInRange'
    BY <2>2, <2>3 DEF FilterInv, CacheInRange
  <2>5. CASE ~new.enabled
    BY <1>2, <2>2, <2>3, <2>4, <2>5 DEF FilterInv, FilterIsOn
  <2>6. CASE new = live.ratingConfig
    BY <1>1, <1>2, <2>2, <2>3, <2>6, FilterStays DEF FilterInv
  <2> QED  BY <1>6, <2>5, <2>6
<1>7. ASSUME NEW new \in RatingConfigs,
             configOp.todo = <<Write("ratingConfig", new), SwapCache>>
      PROVE  FilterInv'
  <2>1. Perform(Write("ratingConfig", new)) /\ configOp'.todo = <<SwapCache>>
    BY <1>1, <1>7, AdvanceTodo
  <2>2. Swaps(configOp.todo) /\ Swaps(configOp'.todo)
    BY <1>7, <2>1, TodoEnds
  <2>3. SwapCache \in Steps /\ SwapCache.field # "ratingConfig"
    BY DEF Steps, SwapCache
  <2>4. ConfigTodo(configOp)'
    BY <2>1, <2>3 DEF ConfigTodo
  <2>5. CacheInRange' /\ FilterIsOn'
    BY <1>5, <2>1, <2>2 DEF FilterInv, CacheInRange, FilterIsOn
  <2> QED  BY <1>2, <2>4, <2>5 DEF FilterInv
<1> QED  BY <1>1, <1>3, <1>4, <1>6, <1>7 DEF FilterInv, ConfigTodo

\* An override is written and its name invalidated.
LEMMA OverridesFilterStep == ASSUME IndInv, FilterInv, OverridesStep PROVE FilterInv'
<1>1. /\ Pending(overridesOp) /\ overridesOp # Idle /\ Perform(Head(overridesOp.todo))
      /\ overridesOp' = Advance(overridesOp) /\ configOp' = configOp /\ UNCHANGED requests
  BY DEF OverridesStep, IndInv, Typed
<1>2. ASSUME NEW w \in Steps, w.kind \in {"write", "invalidate"}, w.field # "ratingConfig",
             Perform(w), OverridesTodo(overridesOp')
      PROVE  FilterInv'
  <2>1. live'.cache = live.cache /\ live'.ratingConfig = live.ratingConfig
    BY <1>2, OtherWrites
  <2>2. CacheInRange' /\ FilterIsOn'
    BY <1>1, <1>2, <2>1, FilterStays, PerformFacts
  <2>3. ConfigTodo(configOp)'
    BY <1>1, <2>1 DEF FilterInv, ConfigTodo
  <2> QED  BY <1>2, <2>2, <2>3 DEF FilterInv
<1>3. \A w \in Steps : w.kind = "invalidate" => w.field # "ratingConfig"
  BY DEF Steps, Write, Invalidate, SwapCache
<1>4. ASSUME NEW w \in Steps, w.kind = "invalidate", overridesOp.todo = <<w>>
      PROVE  FilterInv'
  <2>1. Perform(w) /\ OverridesTodo(overridesOp')
    BY <1>1, <1>4, AdvanceTodo DEF OverridesTodo
  <2> QED  BY <1>2, <1>3, <1>4, <2>1
<1>5. ASSUME NEW v \in Steps, NEW w \in Steps, v.kind = "write", v.field = "overrides",
             w.kind = "invalidate", overridesOp.todo = <<v, w>>
      PROVE  FilterInv'
  <2>1. Perform(v) /\ OverridesTodo(overridesOp')
    BY <1>1, <1>5, AdvanceTodo DEF OverridesTodo
  <2> QED  BY <1>2, <1>5, <2>1
<1> QED  BY <1>1, <1>4, <1>5 DEF FilterInv, OverridesTodo

\* A route that starts leaves the filter as it is, and a new cache to come if need be.
LEMMA StartFilterStep ==
  ASSUME "reset" \notin Operations, IndInv, FilterInv, StartOperation
  PROVE  FilterInv'
<1>1. ASSUME NEW name, NEW todo, StartConfig(name, todo),
             ConfigTodo([name |-> name, todo |-> todo]),
             Swaps(todo) => \E i \in DOMAIN todo : todo[i] = SwapCache
      PROVE  FilterInv'
  <2>1. /\ configOp = Idle /\ configOp' = [name |-> name, todo |-> todo]
        /\ Swaps(todo) => live.cache < MaxGenerations
        /\ UNCHANGED <<appState, requests, overridesOp>>
    BY <1>1 DEF StartConfig
  <2>2. ConfigTodo(configOp)' /\ OverridesTodo(overridesOp)'
    BY <1>1, <2>1 DEF FilterInv, ConfigTodo, OverridesTodo, appState
  <2>3. CacheInRange'
    BY <2>1 DEF FilterInv, CacheInRange, appState
  <2>4. FilterIsOn'
    BY <2>1, TodoEnds DEF FilterInv, FilterIsOn, appState, requests
  <2> QED  BY <2>2, <2>3, <2>4 DEF FilterInv
<1>2. ASSUME NEW name, NEW w \in Steps, w.field # "ratingConfig", StartConfig(name, <<w>>)
      PROVE  FilterInv'
  <2>1. ConfigTodo([name |-> name, todo |-> <<w>>])
    BY <1>2 DEF ConfigTodo
  <2>2. Swaps(<<w>>) => \E i \in DOMAIN <<w>> : <<w>>[i] = SwapCache
    BY TodoEnds
  <2> QED  BY <1>1, <1>2, <2>1, <2>2
<1>3. CASE ApplyAdminConfig
  <2>1. PICK runtime \in [mode : Modes, fallback : BOOLEAN] :
           StartConfig("config", <<Write("runtime", runtime)>>)
    BY <1>3 DEF ApplyAdminConfig
  <2>2. Write("runtime", runtime) \in Steps /\ Write("runtime", runtime).field # "ratingConfig"
    BY DEF Steps, Write
  <2> QED  BY <1>2, <2>1, <2>2
<1>4. CASE ApplyCacheConfig
  <2>1. SwapCache \in Steps /\ SwapCache.field # "ratingConfig"
    BY DEF Steps, SwapCache
  <2> QED  BY <1>2, <1>4, <2>1 DEF ApplyCacheConfig
<1>5. CASE ApplyGeoipChange
  <2>1. PICK blocked \in BOOLEAN : StartConfig("geoip", <<Write("countries", blocked)>>)
    BY <1>5 DEF ApplyGeoipChange
  <2>2. /\ Write("countries", blocked) \in Steps
        /\ Write("countries", blocked).field # "ratingConfig"
    BY DEF Steps, Write
  <2> QED  BY <1>2, <2>1, <2>2
<1>6. CASE ApplyProviderChange
  <2>1. PICK after \in SUBSET Voters :
           StartConfig("providers",
               (IF after # live.providers THEN <<Invalidate(Domains)>> ELSE <<>>)
                  \o <<Write("providers", after)>>)
    BY <1>6 DEF ApplyProviderChange
  <2> DEFINE w == Write("providers", after)
             v == Invalidate(Domains)
  <2>2. w \in Steps /\ w.field # "ratingConfig" /\ w # SwapCache
    BY DEF Steps, Write, SwapCache
  <2>3. ConfigTodo([name |-> "providers", todo |-> <<v, w>>])
    BY DEF ConfigTodo
  <2> HIDE DEF w, v
  <2>4. <<>> \o <<w>> = <<w>> /\ <<v>> \o <<w>> = <<v, w>>
    BY ShortLists
  <2>5. StartConfig("providers", <<w>>) \/ StartConfig("providers", <<v, w>>)
    BY <2>1, <2>4 DEF w, v
  <2>6. ~Swaps(<<v, w>>)
    BY <2>2, TodoEnds
  <2> QED  BY <1>1, <1>2, <2>2, <2>3, <2>5, <2>6
<1>7. CASE ApplyRatingFilterChange
  <2>1. PICK new \in RatingConfigs :
           StartConfig("rating",
               <<Write("ratingConfig", new)>>
                  \o (IF new.enabled /\ new # live.ratingConfig THEN <<SwapCache>> ELSE <<>>))
    BY <1>7 DEF ApplyRatingFilterChange, RatingConfigs
  <2> DEFINE w == Write("ratingConfig", new)
             s == SwapCache
  <2>2. w # SwapCache
    BY DEF Write, SwapCache
  <2>3. /\ ConfigTodo([name |-> "rating", todo |-> <<w, s>>])
        /\ ~new.enabled \/ new = live.ratingConfig =>
              ConfigTodo([name |-> "rating", todo |-> <<w>>])
    BY DEF ConfigTodo
  <2>4. s = SwapCache
    OBVIOUS
  <2> HIDE DEF w, s
  <2>5. <<w>> \o <<>> = <<w>> /\ <<w>> \o <<s>> = <<w, s>>
    BY ShortLists
  <2>6. CASE new.enabled /\ new # live.ratingConfig
    <3>1. StartConfig("rating", <<w, s>>)
      BY <2>1, <2>5, <2>6 DEF w, s
    <3>2. \E i \in DOMAIN <<w, s>> : <<w, s>>[i] = SwapCache
      <4>1. 2 \in DOMAIN <<w, s>> /\ <<w, s>>[2] = SwapCache
        BY <2>4
      <4> QED  BY <4>1
    <3> QED  BY <1>1, <2>3, <3>1, <3>2
  <2>7. CASE ~(new.enabled /\ new # live.ratingConfig)
    <3>1. StartConfig("rating", <<w>>)
      BY <2>1, <2>5, <2>7 DEF w, s
    <3> QED  BY <1>1, <2>2, <2>3, <2>7, <3>1, TodoEnds
  <2> QED  BY <2>6, <2>7
<1>8. CASE ApplyOverridesChange
  <2>1. PICK d \in Domains, kind \in {"none", "allow", "block"} :
           overridesOp' = [name |-> "overrides",
                           todo |-> <<Write("overrides", [live.overrides EXCEPT ![d] = kind]),
                                      Invalidate({d})>>]
    BY <1>8 DEF ApplyOverridesChange
  <2> DEFINE v == Write("overrides", [live.overrides EXCEPT ![d] = kind])
             w == Invalidate({d})
  <2>2. [live.overrides EXCEPT ![d] = kind] \in [Domains -> {"none", "allow", "block"}]
    BY DEF IndInv, Typed
  <2>3. v \in Steps /\ v.kind = "write" /\ v.field = "overrides"
    BY <2>2 DEF Steps, Write
  <2>4. w \in Steps /\ w.kind = "invalidate"
    BY DEF Steps, Invalidate
  <2> HIDE DEF v, w
  <2>5. overridesOp'.todo = <<v, w>>
    BY <2>1 DEF v, w
  <2>6. OverridesTodo(overridesOp)'
    BY <2>3, <2>4, <2>5 DEF OverridesTodo
  <2>7. UNCHANGED <<appState, requests, configOp>>
    BY <1>8 DEF ApplyOverridesChange
  <2>8. ConfigTodo(configOp)' /\ CacheInRange' /\ FilterIsOn'
    BY <2>7 DEF FilterInv, ConfigTodo, CacheInRange, FilterIsOn, appState, requests
  <2> QED  BY <2>6, <2>8 DEF FilterInv
<1>9. ~ApplyAdminReset
  BY DEF ApplyAdminReset, StartConfig
<1> QED  BY <1>3, <1>4, <1>5, <1>6, <1>7, <1>8, <1>9 DEF StartOperation

\* The background writes other settings, and empties entries.
LEMMA BackgroundFilterStep == ASSUME IndInv, FilterInv, Background PROVE FilterInv'
<1>1. /\ UNCHANGED <<requests, configOp, overridesOp>>
      /\ live'.cache = live.cache /\ live'.ratingConfig = live.ratingConfig
  <2>1. CASE PauseTick \/ ProbeCycle \/ BundlesRefreshed
    BY <2>1, FieldNames DEF PauseTick, ProbeCycle, BundlesRefreshed, Publish, IndInv, Typed
  <2>2. CASE RefreshStart \/ RefreshPublish
    BY <2>2, FieldNames DEF RefreshStart, RefreshPublish, appState, IndInv, Typed
  <2>3. CASE PersonalRefresh
    BY <2>3, FieldNames DEF PersonalRefresh, writers, IndInv, Typed
  <2>4. ASSUME NEW d \in Domains, Expire(d)
        PROVE  UNCHANGED <<requests, configOp, overridesOp, live>>
    BY <2>4 DEF Expire, writers
  <2> QED  BY <2>1, <2>2, <2>3, <2>4 DEF Background
<1>2. CacheInRange' /\ FilterIsOn'
  BY <1>1, OutsideFacts, FilterStays
<1>3. ConfigTodo(configOp)' /\ OverridesTodo(overridesOp)'
  BY <1>1 DEF FilterInv, ConfigTodo, OverridesTodo
<1> QED  BY <1>2, <1>3 DEF FilterInv

(***************************************************************************)
(* The cache is read before the table: a query that has the cache in force *)
(* and then reads the table reads it with the filter on.                   *)
(***************************************************************************)
LEMMA ReadFilterStep ==
  ASSUME IndInv, FilterInv, NEW q \in Queries, ReadNext(q)
  PROVE  FilterInv'
<1> DEFINE n == read[q] + 1
<1>1. /\ pc[q] = "reading" /\ read[q] \in Nat /\ n \in 1 .. Len(Reads)
      /\ snap' = [snap EXCEPT ![q] =
                     [f \in Fields |-> IF f \in Reads[n] THEN live[f] ELSE @[f]]]
      /\ read' = [read EXCEPT ![q] = n]
      /\ UNCHANGED <<appState, writers>>
  BY CacheIsReadFirst DEF ReadNext, IndInv, Typed, SnapshotProgress
<1>2. "cache" \in Fields /\ "ratingConfig" \in Fields
  BY FieldNames
<1>3. /\ snap'[q].cache = IF "cache" \in Reads[n] THEN live.cache ELSE snap[q].cache
      /\ snap'[q].ratingConfig = IF "ratingConfig" \in Reads[n]
                                 THEN live.ratingConfig ELSE snap[q].ratingConfig
      /\ \A p \in Queries \ {q} : snap'[p] = snap[p] /\ read'[p] = read[p]
      /\ read'[q] = n
  BY <1>1, <1>2 DEF IndInv, Typed
<1>4. ConfigTodo(configOp)' /\ OverridesTodo(overridesOp)' /\ CacheInRange'
  BY <1>1 DEF FilterInv, ConfigTodo, OverridesTodo, CacheInRange, appState, writers
<1>5. FilterIsOn'
  <2> SUFFICES ASSUME live.ratingConfig.enabled, ~Swaps(configOp.todo),
                      NEW p \in Queries, snap'[p].cache = live.cache,
                      NEW m \in 1 .. read'[p], "ratingConfig" \in Reads[m]
               PROVE  snap'[p].ratingConfig.enabled
    BY <1>1 DEF FilterInv, FilterIsOn, appState, writers
  <2>1. CASE p # q
    BY <1>3, <2>1 DEF FilterInv, FilterIsOn
  <2>2. CASE p = q /\ "ratingConfig" \in Reads[n]
    BY <1>3, <2>2
  <2>3. CASE p = q /\ "ratingConfig" \notin Reads[n]
    <3>1. m \in 1 .. read[q] /\ m \in 1 .. Len(Reads) /\ m < n
      <4>1. m \in 1 .. n /\ m # n /\ Len(Reads) \in Nat
        BY <1>3, <2>3, CacheIsReadFirst
      <4> QED  BY <1>1, <4>1
    <3>2. PICK k \in 1 .. Len(Reads) :
             /\ \A i \in 1 .. Len(Reads) : "cache" \in Reads[i] => i = k
             /\ \A i \in 1 .. Len(Reads) : \A g \in JudgedBy \cap Reads[i] : k <= i
      BY CacheIsReadFirst
    <3>3. k <= m
      BY <3>1, <3>2 DEF JudgedBy
    <3>4. "cache" \notin Reads[n]
      BY <1>1, <3>1, <3>2, <3>3
    <3> QED  BY <1>3, <2>3, <3>1, <3>4 DEF FilterInv, FilterIsOn
  <2> QED  BY <2>1, <2>2, <2>3
<1> QED  BY <1>4, <1>5 DEF FilterInv

\* What a query stores in the cache in force it has judged by the whole snapshot.
LEMMA QueryFilterStep ==
  ASSUME IndInv, FilterInv, NEW q \in Queries, Arrive(q) \/ Progress(q)
  PROVE  FilterInv'
<1>1. CASE ReadNext(q)
  BY <1>1, ReadFilterStep
<1>2. CASE Store(q)
  <2> DEFINE g == snap[q].cache
             d == domain[q]
             e == JudgedEntry(q)
  <2>1. /\ pc[q] = "storing" /\ UNCHANGED <<live, writers, snap, read>>
        /\ caches' = [caches EXCEPT ![g][d] = e] \/ caches' = caches
    BY <1>2 DEF Store
  <2>2. e.filterOn = snap[q].ratingConfig.enabled
    BY DEF JudgedEntry
  <2> HIDE DEF e
  <2>3. \A h \in Generations, c \in Domains :
            \/ caches'[h][c] = caches[h][c]
            \/ h = g /\ c = d /\ caches'[h][c] = e
    BY <2>1 DEF IndInv, Typed
  <2>4. ConfigTodo(configOp)' /\ OverridesTodo(overridesOp)' /\ CacheInRange'
    BY <2>1 DEF FilterInv, ConfigTodo, OverridesTodo, CacheInRange, writers
  <2>5. FilterIsOn'
    <3> SUFFICES ASSUME live.ratingConfig.enabled, ~Swaps(configOp.todo),
                        NEW c \in Domains, caches'[live.cache][c] # NoEntry
                 PROVE  caches'[live.cache][c].filterOn
      BY <2>1 DEF FilterInv, FilterIsOn, writers
    <3>1. CASE caches'[live.cache][c] = caches[live.cache][c]
      BY <3>1 DEF FilterInv, FilterIsOn
    <3>2. CASE live.cache = g /\ caches'[live.cache][c] = e
      <4>1. read[q] = Len(Reads)
        BY <2>1 DEF IndInv, SnapshotProgress
      <4>2. \E m \in 1 .. read[q] : "ratingConfig" \in Reads[m]
        BY <4>1, CacheIsReadFirst DEF JudgedBy
      <4>3. snap[q].ratingConfig.enabled
        BY <3>2, <4>2 DEF FilterInv, FilterIsOn
      <4> QED  BY <2>2, <3>2, <4>3
    <3>3. live.cache \in Generations
      BY DEF FilterInv, CacheInRange
    <3> QED  BY <2>3, <3>1, <3>2, <3>3
  <2> QED  BY <2>4, <2>5 DEF FilterInv
<1>3. CASE Reply(q)
  <2>1. /\ read' = [read EXCEPT ![q] = 0] /\ snap' = [snap EXCEPT ![q] = Boot]
        /\ UNCHANGED <<caches, writers>>
        /\ live'.cache = live.cache /\ live'.ratingConfig = live.ratingConfig
    BY <1>3, FieldNames DEF Reply, IndInv, Typed
  <2>2. /\ read'[q] = 0
        /\ \A p \in Queries \ {q} : read'[p] = read[p] /\ snap'[p] = snap[p]
    BY <2>1 DEF IndInv, Typed
  <2>3. ConfigTodo(configOp)' /\ OverridesTodo(overridesOp)' /\ CacheInRange'
    BY <2>1 DEF FilterInv, ConfigTodo, OverridesTodo, CacheInRange, writers
  <2>4. FilterIsOn'
    BY <2>1, <2>2 DEF FilterInv, FilterIsOn, writers
  <2> QED  BY <2>3, <2>4 DEF FilterInv
<1>4. CASE \/ Arrive(q) \/ ShortCircuit(q) \/ CacheHit(q) \/ CacheMiss(q)
           \/ ResolveBlock(q) \/ ResolveAllow(q) \/ ResolveUnreachable(q)
  <2>1. UNCHANGED <<live, caches, configOp, overridesOp, read, snap>>
    BY <1>4 DEF Arrive, ShortCircuit, CacheHit, CacheMiss, ResolveBlock, ResolveAllow,
               ResolveUnreachable, appState, writers
  <2> QED
    BY <2>1 DEF FilterInv, ConfigTodo, OverridesTodo, CacheInRange, FilterIsOn
<1> QED  BY <1>1, <1>2, <1>3, <1>4 DEF Progress

(***************************************************************************)
(* With the rating filter on and no change of it in progress, no verdict   *)
(* of its off days is served, however long a query has been in flight.     *)
(* The hypothesis is the code's: a reset writes the table after the swap.  *)
(***************************************************************************)
THEOREM FilterGovernsTheCacheCorrect ==
  ASSUME "reset" \notin Operations
  PROVE  Spec => []FilterGovernsTheCache
<1>1. ASSUME IndInv, FilterInv, [Next]_vars PROVE FilterInv'
  <2>1. CASE UNCHANGED vars
    BY <1>1, <2>1 DEF vars, appState, writers, requests, FilterInv, ConfigTodo, OverridesTodo,
                     CacheInRange, FilterIsOn
  <2> QED
    BY <1>1, <2>1, StartFilterStep, ConfigFilterStep, OverridesFilterStep,
       BackgroundFilterStep, QueryFilterStep DEF Next
<1>2. FilterInv => FilterGovernsTheCache
  <2> SUFFICES ASSUME FilterInv, configOp = Idle, live.ratingConfig.enabled,
                      NEW d \in Cached(live.cache)
               PROVE  caches[live.cache][d].filterOn
    BY DEF FilterGovernsTheCache
  <2>1. ~Swaps(configOp.todo)
    BY TodoEnds
  <2> QED  BY <2>1 DEF FilterInv, FilterIsOn, Cached
<1> QED  BY <1>1, <1>2, Invariance, InitFilterInv, PTL DEF Spec
=============================================================================
