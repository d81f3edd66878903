---------------------------- MODULE Resolver_proofs ----------------------------
(***************************************************************************)
(* For any number of queries, domains, voters, lists and operations, and   *)
(* any grouping of the snapshot's reads: no query carries an older         *)
(* judgement into a newer verdict cache, and every state is well typed.    *)
(***************************************************************************)
EXTENDS Resolver, SequenceTheorems, TLAPS

\* The writes an operation may be made of; none of them writes the cache field.
Steps ==
    UNION {{Write("runtime", v) : v \in [mode : Modes, fallback : BOOLEAN]},
           {Write("providers", v) : v \in SUBSET Voters},
           {Write("overrides", v) : v \in [Domains -> {"none", "allow", "block"}]},
           {Write("countries", v) : v \in BOOLEAN},
           {Write("ratingConfig", v) : v \in [enabled : BOOLEAN, lists : SUBSET Lists]},
           {Invalidate(D) : D \in SUBSET Domains},
           {SwapCache}}

\* An operation in progress has something left to write.
Pending(op) ==
    \/ op = Idle
    \/ /\ DOMAIN op = {"name", "todo"}
       /\ op.todo \in Seq(Steps) /\ op.todo # <<>>

Counts == [JudgedBy -> Nat]

(***************************************************************************)
(* The part of the type invariant the argument about generations needs.    *)
(* Bounds are not in it: that argument depends neither on MaxChanges nor on*)
(* MaxGenerations.  The type invariant itself comes last.                  *)
(***************************************************************************)
Typed ==
    /\ DOMAIN live = Fields /\ live.cache \in Nat
    /\ live.overrides \in [Domains -> {"none", "allow", "block"}]
    /\ ver \in Counts
    /\ DOMAIN caches = Generations
    /\ \A g \in Generations :
          /\ DOMAIN caches[g] = Domains
          /\ \A d \in Domains : caches[g][d].ver \in Counts
    /\ born \in [Generations -> Counts]
    /\ Pending(configOp) /\ Pending(overridesOp)
    /\ pc \in [Queries -> {"idle", "reading", "routing", "resolving", "storing",
                           "replying"}]
    /\ domain \in [Queries -> Domains]
    /\ read \in [Queries -> Nat]
    /\ DOMAIN snap = Queries
    /\ \A q \in Queries : DOMAIN snap[q] = Fields /\ snap[q].cache \in Nat
    /\ snapVer \in [Queries -> Counts]

\* How far the snapshot has come in each phase of a query.
SnapshotProgress ==
    \A q \in Queries :
        /\ pc[q] = "idle" => read[q] = 0
        /\ pc[q] = "reading" => read[q] < Len(Reads)
        /\ pc[q] \notin {"idle", "reading"} => read[q] = Len(Reads)

\* No generation from the future: none is snapshotted, and none holds anything.
NothingAhead ==
    /\ live.cache >= 1
    /\ \A q \in Queries : snap[q].cache <= live.cache
    /\ \A g \in Generations, d \in Domains :
          g > live.cache => caches[g][d] = NoEntry

\* A generation in force, or once in force, is no younger than the settings.
BornBehind ==
    \A g \in Generations : g <= live.cache => \A f \in JudgedBy : ver[f] >= born[g][f]

\* What a query has read so far is at least as new as its generation.
SnapshotNotOlder ==
    \A q \in Queries : snap[q].cache \in Generations =>
        \A m \in 1 .. read[q] : \A f \in JudgedBy \cap Reads[m] :
            snapVer[q][f] >= born[snap[q].cache][f]

IndInv ==
    /\ Typed /\ SnapshotProgress /\ NothingAhead /\ BornBehind
    /\ SnapshotNotOlder /\ GenerationsMoveForward

-----------------------------------------------------------------------------
\* The settings, by name.
LEMMA FieldNames ==
    Fields = {"runtime", "overrides", "cache", "countries", "providers",
              "ratingConfig", "zone", "removed", "personal", "bundles",
              "offline", "paused"}
<1>1. DOMAIN ReadOrder = 1 .. 12
  BY DEF ReadOrder
<1> QED BY <1>1 DEF Fields, ReadOrder

\* A boot record has every setting, and the first generation.
LEMMA BootFacts ==
    /\ DOMAIN Boot = Fields /\ Boot.cache = 1
    /\ Boot.overrides \in [Domains -> {"none", "allow", "block"}]
BY FieldNames, BootAssumption DEF SettingsType

\* The order of the snapshot: every judged field is read, and never before the cache.
LEMMA CacheIsReadFirst ==
    /\ Len(Reads) \in Nat /\ Len(Reads) >= 1 /\ DOMAIN Reads = 1 .. Len(Reads)
    /\ \A f \in JudgedBy : \E m \in 1 .. Len(Reads) : f \in Reads[m]
    /\ \E k \in 1 .. Len(Reads) :
          /\ "cache" \in Reads[k]
          /\ \A m \in 1 .. Len(Reads) : "cache" \in Reads[m] => m = k
          /\ \A m \in 1 .. Len(Reads) : \A f \in JudgedBy \cap Reads[m] : k <= m
<1>1. /\ DOMAIN ReadOrder = 1 .. 12 /\ ReadOrder[3] = "cache"
      /\ ReadOrder[5] = "providers" /\ ReadOrder[6] = "ratingConfig" /\ ReadOrder[7] = "zone"
  BY DEF ReadOrder
<1>2. "cache" \in Fields /\ JudgedBy \subseteq Fields
  BY FieldNames DEF JudgedBy
<1>3. Reads \in Seq(SUBSET Fields) /\ UNION {Reads[i] : i \in DOMAIN Reads} = Fields
  BY ReadsAssumption
<1>4. Len(Reads) \in Nat /\ DOMAIN Reads = 1 .. Len(Reads)
  BY <1>3
<1>5. \A f \in Fields : \E m \in 1 .. Len(Reads) : f \in Reads[m]
  BY <1>3, <1>4
<1>6. PICK k \in 1 .. Len(Reads) : "cache" \in Reads[k]
  BY <1>2, <1>5
<1>7. \A m \in 1 .. Len(Reads) : "cache" \in Reads[m] => m = k
  BY <1>4, <1>6, ReadsAssumption
<1>8. ASSUME NEW m \in 1 .. Len(Reads), NEW f \in JudgedBy \cap Reads[m]
      PROVE  k <= m
  <2>1. \E j \in DOMAIN ReadOrder : 3 < j /\ ReadOrder[j] = f
    BY <1>1 DEF JudgedBy
  <2>2. PICK j \in DOMAIN ReadOrder : 3 < j /\ ReadOrder[j] = f
    BY <2>1
  <2>3. 3 \in DOMAIN ReadOrder
    BY <1>1
  <2> QED
    BY <1>1, <1>4, <1>6, <2>2, <2>3, ReadsAssumption
<1> QED
  BY <1>2, <1>4, <1>5, <1>6, <1>7, <1>8

\* The initial settings: a full record, the first generation, no operation begun.
LEMMA InitIndInv == Init => IndInv
<1> SUFFICES ASSUME Init PROVE IndInv
  OBVIOUS
<1>1. Zero \in Counts /\ NoEntry.ver = Zero /\ \A f \in JudgedBy : Zero[f] = 0
  BY DEF Zero, Counts, NoEntry
<1>2. Pending(Idle)
  BY DEF Pending
<1>3. Typed
  BY BootFacts, <1>1, <1>2 DEF Init, Typed, EmptyCache
<1>4. SnapshotProgress
  BY DEF Init, SnapshotProgress
<1>5. NothingAhead
  BY BootFacts DEF Init, NothingAhead, EmptyCache
<1>6. BornBehind
  BY <1>1 DEF Init, BornBehind, Counts
<1>7. SnapshotNotOlder
  BY DEF Init, SnapshotNotOlder
<1>8. GenerationsMoveForward
  BY DEF Init, GenerationsMoveForward, Cached, EmptyCache
<1> QED
  BY <1>3, <1>4, <1>5, <1>6, <1>7, <1>8 DEF IndInv

-----------------------------------------------------------------------------
(* The steps of one query.                                                 *)

\* A query moves on without touching the settings, its snapshot or a cache.
LEMMA QuietStep ==
    ASSUME IndInv, NEW q \in Queries,
           UNCHANGED <<appState, writers, read, snap, snapVer>>,
           domain' \in [Queries -> Domains],
           NEW next \in {"reading", "routing", "resolving", "storing", "replying"},
           pc' = [pc EXCEPT ![q] = next],
           (pc[q] = "idle") <=> (next = "reading"), pc[q] # "reading"
    PROVE  IndInv'
<1>1. Typed'
  BY DEF IndInv, Typed, appState, writers
<1>2. SnapshotProgress'
  BY CacheIsReadFirst DEF IndInv, SnapshotProgress, Typed
<1>3. NothingAhead' /\ BornBehind' /\ SnapshotNotOlder' /\ GenerationsMoveForward'
  BY DEF IndInv, NothingAhead, BornBehind, SnapshotNotOlder, GenerationsMoveForward,
         Cached, appState
<1> QED BY <1>1, <1>2, <1>3 DEF IndInv

\* A query arrives with nothing read.
LEMMA ArriveStep == ASSUME IndInv, NEW q \in Queries, Arrive(q) PROVE IndInv'
<1>1. pc[q] = "idle" /\ pc' = [pc EXCEPT ![q] = "reading"]
      /\ UNCHANGED <<appState, writers, read, snap, snapVer>>
  BY DEF Arrive
<1>2. domain' \in [Queries -> Domains]
  BY DEF Arrive, IndInv, Typed
<1> QED BY <1>1, <1>2, QuietStep

\* From the snapshot's end to the decision, and all the way without a verdict.
LEMMA DecisionStep ==
    ASSUME IndInv, NEW q \in Queries,
           \/ ShortCircuit(q) \/ CacheHit(q) \/ CacheMiss(q)
           \/ ResolveBlock(q) \/ ResolveAllow(q) \/ ResolveUnreachable(q)
    PROVE  IndInv'
<1>1. /\ pc[q] \in {"routing", "resolving"}
      /\ UNCHANGED <<appState, writers, domain, read, snap, snapVer>>
  BY DEF ShortCircuit, CacheHit, CacheMiss, ResolveBlock, ResolveAllow, ResolveUnreachable
<1>2. \E next \in {"resolving", "storing", "replying"} : pc' = [pc EXCEPT ![q] = next]
  BY DEF ShortCircuit, CacheHit, CacheMiss, ResolveBlock, ResolveAllow,
         ResolveUnreachable, End
<1>3. PICK next \in {"resolving", "storing", "replying"} : pc' = [pc EXCEPT ![q] = next]
  BY <1>2
<1>4. domain' \in [Queries -> Domains]
  BY <1>1 DEF IndInv, Typed
<1>5. pc[q] # "idle" /\ pc[q] # "reading" /\ next # "reading"
      /\ next \in {"reading", "routing", "resolving", "storing", "replying"}
  BY <1>1
<1>6. UNCHANGED <<appState, writers, read, snap, snapVer>>
  BY <1>1
<1> QED BY <1>3, <1>4, <1>5, <1>6, QuietStep

(***************************************************************************)
(* One more step of the snapshot.  Before the cache is read nothing judged *)
(* has been; the cache read is the generation in force, which the settings *)
(* in force are no older than; and later reads only see newer settings.    *)
(***************************************************************************)
LEMMA ReadStep == ASSUME IndInv, NEW q \in Queries, ReadNext(q) PROVE IndInv'
<1> DEFINE n == read[q] + 1
<1>1. /\ pc[q] = "reading" /\ read[q] \in Nat /\ n \in 1 .. Len(Reads)
      /\ snap' = [snap EXCEPT ![q] =
                     [f \in Fields |-> IF f \in Reads[n] THEN live[f] ELSE @[f]]]
      /\ snapVer' = [snapVer EXCEPT ![q] =
                     [f \in JudgedBy |-> IF f \in Reads[n] THEN ver[f] ELSE @[f]]]
      /\ read' = [read EXCEPT ![q] = n]
      /\ pc' = [pc EXCEPT ![q] = IF n = Len(Reads) THEN "routing" ELSE @]
      /\ UNCHANGED <<appState, writers, domain>>
  BY CacheIsReadFirst DEF ReadNext, IndInv, Typed, SnapshotProgress
<1>2. "cache" \in Fields
  BY FieldNames
<1>3. /\ DOMAIN snap'[q] = Fields
      /\ snap'[q].cache = IF "cache" \in Reads[n] THEN live.cache ELSE snap[q].cache
      /\ \A p \in Queries \ {q} : snap'[p] = snap[p]
  BY <1>1, <1>2 DEF IndInv, Typed
<1>4. /\ snapVer'[q] \in Counts
      /\ \A f \in JudgedBy : snapVer'[q][f] = IF f \in Reads[n] THEN ver[f] ELSE snapVer[q][f]
      /\ \A p \in Queries \ {q} : snapVer'[p] = snapVer[p]
  BY <1>1 DEF IndInv, Typed, Counts
<1>5. Typed'
  <2>1. /\ read' \in [Queries -> Nat] /\ snapVer' \in [Queries -> Counts]
        /\ DOMAIN snap' = Queries
        /\ pc' \in [Queries -> {"idle", "reading", "routing", "resolving", "storing",
                                "replying"}]
    BY <1>1, <1>4 DEF IndInv, Typed
  <2>2. \A p \in Queries : DOMAIN snap'[p] = Fields /\ snap'[p].cache \in Nat
    BY <1>3 DEF IndInv, Typed
  <2> QED BY <1>1, <2>1, <2>2 DEF IndInv, Typed, appState, writers
<1>6. SnapshotProgress'
  BY <1>1, CacheIsReadFirst DEF IndInv, SnapshotProgress, Typed
<1>7. NothingAhead' /\ BornBehind' /\ GenerationsMoveForward'
  BY <1>1, <1>3 DEF IndInv, Typed, NothingAhead, BornBehind, GenerationsMoveForward,
                    Cached, appState
<1>8. SnapshotNotOlder'
  <2> SUFFICES ASSUME NEW p \in Queries, snap'[p].cache \in Generations,
                      NEW m \in 1 .. read'[p], NEW f \in JudgedBy \cap Reads[m]
               PROVE  snapVer'[p][f] >= born[snap'[p].cache][f]
    BY <1>1 DEF SnapshotNotOlder, appState
  <2>1. CASE p # q
    BY <1>1, <1>3, <1>4, <2>1 DEF IndInv, Typed, SnapshotNotOlder
  <2>2. CASE p = q
    <3>1. m \in 1 .. n /\ m \in 1 .. Len(Reads) /\ Len(Reads) \in Nat
      BY <1>1, <2>2, CacheIsReadFirst DEF IndInv, Typed
    <3>2. PICK k \in 1 .. Len(Reads) :
             /\ "cache" \in Reads[k]
             /\ \A i \in 1 .. Len(Reads) : "cache" \in Reads[i] => i = k
             /\ \A i \in 1 .. Len(Reads) : \A g \in JudgedBy \cap Reads[i] : k <= i
      BY CacheIsReadFirst
    <3>3. k <= m /\ k <= n
      <4>1. k <= m
        BY <3>1, <3>2
      <4>2. m <= n /\ n \in Nat
        BY <1>1, <3>1
      <4> HIDE DEF n
      <4> QED BY <3>1, <4>1, <4>2
    <3>4. \A g \in Generations : g <= live.cache => ver[f] >= born[g][f]
      BY DEF IndInv, BornBehind
    <3>5. CASE f \in Reads[n]
      <4>1. snap'[q].cache <= live.cache /\ snapVer'[q][f] = ver[f]
        BY <1>3, <1>4, <3>5 DEF IndInv, Typed, NothingAhead
      <4> QED BY <2>2, <3>4, <4>1
    <3>6. CASE f \notin Reads[n]
      <4>1. m \in 1 .. read[q] /\ m # n
        BY <1>1, <3>1, <3>6
      <4>2. "cache" \notin Reads[n]
        BY <1>1, <3>1, <3>2, <3>3, <4>1
      <4> QED
        BY <1>3, <1>4, <2>2, <3>6, <4>1, <4>2 DEF IndInv, SnapshotNotOlder
    <3> QED BY <3>5, <3>6
  <2> QED BY <2>1, <2>2
<1> QED BY <1>5, <1>6, <1>7, <1>8 DEF IndInv

\* A verdict goes into the generation its query snapshotted, which may be retired.
LEMMA StoreStep == ASSUME IndInv, NEW q \in Queries, Store(q) PROVE IndInv'
<1> DEFINE g == snap[q].cache
           d == domain[q]
<1>1. /\ pc[q] = "storing" /\ pc' = [pc EXCEPT ![q] = "replying"]
      /\ UNCHANGED <<live, ver, born, visits, writers, domain, read, snap, snapVer>>
      /\ \/ caches' = [caches EXCEPT ![g][d] = JudgedEntry(q)]
         \/ UNCHANGED caches
  BY DEF Store, End
<1>2. d \in Domains /\ g <= live.cache /\ JudgedEntry(q).ver = snapVer[q]
      /\ snapVer[q] \in Counts
  BY DEF IndInv, Typed, NothingAhead, JudgedEntry
<1>3. \A h \in Generations, e \in Domains :
          \/ caches'[h][e] = caches[h][e]
          \/ h = g /\ e = d /\ caches'[h][e] = JudgedEntry(q)
  BY <1>1 DEF IndInv, Typed
<1>4. DOMAIN caches' = Generations /\ \A h \in Generations : DOMAIN caches'[h] = Domains
  BY <1>1 DEF IndInv, Typed
<1>5. Typed'
  <2>1. \A h \in Generations, e \in Domains : caches'[h][e].ver \in Counts
    BY <1>2, <1>3 DEF IndInv, Typed
  <2>2. pc' \in [Queries -> {"idle", "reading", "routing", "resolving", "storing",
                            "replying"}]
    BY <1>1 DEF IndInv, Typed
  <2> QED BY <1>1, <1>4, <2>1, <2>2 DEF IndInv, Typed, writers
<1>6. SnapshotProgress'
  BY <1>1 DEF IndInv, Typed, SnapshotProgress
<1>7. NothingAhead'
  <2>1. \A h \in Generations, e \in Domains :
            h > live.cache => caches'[h][e] = NoEntry
    <3> SUFFICES ASSUME NEW h \in Generations, NEW e \in Domains, h > live.cache
                 PROVE  caches'[h][e] = NoEntry
      OBVIOUS
    <3>1. h # g
      BY <1>2, BoundsAssumption DEF Generations, IndInv, Typed
    <3> QED BY <1>3, <3>1 DEF IndInv, NothingAhead
  <2> QED BY <1>1, <2>1 DEF IndInv, NothingAhead
<1>8. BornBehind' /\ SnapshotNotOlder'
  BY <1>1 DEF IndInv, BornBehind, SnapshotNotOlder
<1>9. GenerationsMoveForward'
  <2> SUFFICES ASSUME NEW h \in Generations, NEW e \in Domains,
                      caches'[h][e] # NoEntry, NEW f \in JudgedBy
               PROVE  caches'[h][e].ver[f] >= born[h][f]
    BY <1>1 DEF GenerationsMoveForward, Cached
  <2>1. CASE caches'[h][e] = caches[h][e]
    BY <2>1 DEF IndInv, GenerationsMoveForward, Cached
  <2>2. CASE h = g /\ e = d /\ caches'[h][e] = JudgedEntry(q)
    <3>1. read[q] = Len(Reads)
      BY <1>1 DEF IndInv, SnapshotProgress
    <3>2. \E m \in 1 .. read[q] : f \in Reads[m]
      BY <3>1, CacheIsReadFirst
    <3>3. snapVer[q][f] >= born[g][f]
      BY <2>2, <3>2 DEF IndInv, SnapshotNotOlder
    <3> QED BY <1>2, <2>2, <3>3
  <2> QED BY <1>3, <2>1, <2>2
<1> QED BY <1>5, <1>6, <1>7, <1>8, <1>9 DEF IndInv

\* The request leaves: its snapshot is forgotten, the bubble may lose a name.
LEMMA ReplyStep == ASSUME IndInv, NEW q \in Queries, Reply(q) PROVE IndInv'
<1>1. /\ pc[q] = "replying" /\ pc' = [pc EXCEPT ![q] = "idle"]
      /\ read' = [read EXCEPT ![q] = 0]
      /\ snap' = [snap EXCEPT ![q] = Boot]
      /\ snapVer' = [snapVer EXCEPT ![q] = Zero]
      /\ UNCHANGED <<ver, caches, born, writers, domain>>
  BY DEF Reply
<1>2. DOMAIN live' = DOMAIN live /\ live'.cache = live.cache /\ live'.overrides = live.overrides
  <2>1. "cache" \in DOMAIN live /\ "overrides" \in DOMAIN live
    BY FieldNames DEF IndInv, Typed
  <2> QED BY <2>1 DEF Reply
<1>3. DOMAIN Boot = Fields /\ Boot.cache = 1
  BY BootFacts
<1>4. Zero \in Counts
  BY DEF Zero, Counts
<1>5. Typed'
  BY <1>1, <1>2, <1>3, <1>4 DEF IndInv, Typed, writers
<1>6. SnapshotProgress'
  BY <1>1 DEF IndInv, Typed, SnapshotProgress
<1>7. NothingAhead'
  BY <1>1, <1>2, <1>3 DEF IndInv, Typed, NothingAhead
<1>8. BornBehind' /\ GenerationsMoveForward'
  BY <1>1, <1>2 DEF IndInv, BornBehind, GenerationsMoveForward, Cached
<1>9. SnapshotNotOlder'
  <2> SUFFICES ASSUME NEW p \in Queries, snap'[p].cache \in Generations,
                      NEW m \in 1 .. read'[p], NEW f \in JudgedBy \cap Reads[m]
               PROVE  snapVer'[p][f] >= born[snap'[p].cache][f]
    BY <1>1 DEF SnapshotNotOlder
  <2>1. p # q
    BY <1>1 DEF IndInv, Typed
  <2> QED BY <1>1, <2>1 DEF IndInv, Typed, SnapshotNotOlder
<1> QED BY <1>5, <1>6, <1>7, <1>8, <1>9 DEF IndInv

-----------------------------------------------------------------------------
(* The writers.                                                            *)

\* A background task publishes a field that is not the cache.
LEMMA PublishStep ==
    ASSUME IndInv, NEW f \in Fields \ {"cache", "overrides"}, NEW value,
           live' = [live EXCEPT ![f] = value],
           ver' \in Counts, \A j \in JudgedBy : ver'[j] >= ver[j],
           UNCHANGED <<caches, born, configOp, overridesOp, requests>>
    PROVE  IndInv'
<1>1. DOMAIN live' = DOMAIN live /\ live'.cache = live.cache /\ live'.overrides = live.overrides
  <2>1. "cache" \in DOMAIN live /\ "overrides" \in DOMAIN live
    BY FieldNames DEF IndInv, Typed
  <2> QED BY <2>1
<1>2. Typed' /\ SnapshotProgress' /\ NothingAhead' /\ SnapshotNotOlder'
  BY <1>1 DEF IndInv, Typed, SnapshotProgress, NothingAhead, SnapshotNotOlder, requests
<1>3. BornBehind'
  <2> SUFFICES ASSUME NEW g \in Generations, g <= live.cache, NEW j \in JudgedBy
               PROVE  ver'[j] >= born[g][j]
    BY <1>1 DEF BornBehind
  <2>1. ver[j] >= born[g][j] /\ ver'[j] >= ver[j]
    BY DEF IndInv, BornBehind
  <2>2. ver[j] \in Nat /\ ver'[j] \in Nat /\ born[g][j] \in Nat
    BY DEF IndInv, Typed, Counts
  <2> QED BY <2>1, <2>2
<1>4. GenerationsMoveForward'
  BY DEF IndInv, GenerationsMoveForward, Cached
<1> QED BY <1>2, <1>3, <1>4 DEF IndInv

(***************************************************************************)
(* One write of an operation.  A write of a judged field makes the         *)
(* settings newer; a swap puts an empty generation in force that nobody    *)
(* has snapshotted, born with the settings of the moment; an invalidation  *)
(* only empties entries.                                                   *)
(***************************************************************************)
LEMMA PerformStep ==
    ASSUME IndInv, NEW w \in Steps, Perform(w), UNCHANGED requests,
           Pending(configOp'), Pending(overridesOp')
    PROVE  IndInv'
<1>1. CASE w.kind = "swap"
  <2> DEFINE h == live.cache + 1
  <2>1. live' = [live EXCEPT !.cache = h] /\ born' = [born EXCEPT ![h] = ver]
        /\ UNCHANGED <<ver, caches>>
    BY <1>1 DEF Perform
  <2>2. "cache" \in DOMAIN live /\ "overrides" \in DOMAIN live
    BY FieldNames DEF IndInv, Typed
  <2>3. DOMAIN live' = DOMAIN live /\ live'.cache = h /\ live'.overrides = live.overrides
    BY <2>1, <2>2
  <2>4. live.cache \in Nat /\ h \in Nat /\ h > live.cache /\ h >= 1
    BY DEF IndInv, Typed
  <2>5. \A g \in Generations : g \in Nat /\ (g <= live.cache => g # h)
    BY <2>4, BoundsAssumption DEF Generations
  <2>6. Typed'
    BY <2>1, <2>3, <2>4 DEF IndInv, Typed, requests
  <2>7. SnapshotProgress'
    BY DEF IndInv, SnapshotProgress, requests
  <2>8. NothingAhead'
    <3>1. \A q \in Queries : snap[q].cache <= h
      BY <2>4 DEF IndInv, Typed, NothingAhead
    <3>2. \A g \in Generations, d \in Domains : g > h => caches[g][d] = NoEntry
      BY <2>4, <2>5 DEF IndInv, NothingAhead
    <3> QED BY <2>1, <2>3, <2>4, <3>1, <3>2 DEF NothingAhead, requests
  <2>9. BornBehind'
    <3> SUFFICES ASSUME NEW g \in Generations, g <= h, NEW f \in JudgedBy
                 PROVE  ver[f] >= born'[g][f]
      BY <2>1, <2>3 DEF BornBehind
    <3>1. CASE g = h
      BY <2>1, <3>1 DEF IndInv, Typed, Counts
    <3>2. CASE g # h
      <4>1. g <= live.cache
        BY <2>4, <2>5, <3>2
      <4> QED BY <2>1, <3>2, <4>1 DEF IndInv, Typed, BornBehind
    <3> QED BY <3>1, <3>2
  <2>10. SnapshotNotOlder'
    <3>1. \A q \in Queries : snap[q].cache \in Generations =>
              born'[snap[q].cache] = born[snap[q].cache]
      BY <2>1, <2>5 DEF IndInv, Typed, NothingAhead
    <3> QED BY <3>1 DEF IndInv, SnapshotNotOlder, requests
  <2>11. GenerationsMoveForward'
    <3> SUFFICES ASSUME NEW g \in Generations, NEW d \in Domains,
                        caches[g][d] # NoEntry, NEW f \in JudgedBy
                 PROVE  caches[g][d].ver[f] >= born'[g][f]
      BY <2>1 DEF GenerationsMoveForward, Cached
    <3>1. g <= live.cache
      BY <2>4, <2>5 DEF IndInv, NothingAhead
    <3> QED BY <2>1, <2>5, <3>1 DEF IndInv, Typed, GenerationsMoveForward, Cached
  <2> QED BY <2>6, <2>7, <2>8, <2>9, <2>10, <2>11 DEF IndInv
<1>2. CASE w.kind = "invalidate"
  <2>1. /\ caches' = [caches EXCEPT ![live.cache] =
                         [d \in Domains |-> IF d \in w.value THEN NoEntry ELSE @[d]]]
        /\ UNCHANGED <<live, ver, born>>
    BY <1>2 DEF Perform
  <2>2. \A g \in Generations, d \in Domains :
            caches'[g][d] = caches[g][d] \/ caches'[g][d] = NoEntry
    BY <2>1 DEF IndInv, Typed
  <2>3. DOMAIN caches' = Generations /\ \A g \in Generations : DOMAIN caches'[g] = Domains
    BY <2>1 DEF IndInv, Typed
  <2>4. NoEntry.ver \in Counts
    BY DEF NoEntry, Zero, Counts
  <2>5. Typed'
    BY <2>1, <2>2, <2>3, <2>4 DEF IndInv, Typed, requests
  <2>6. SnapshotProgress' /\ NothingAhead' /\ BornBehind' /\ SnapshotNotOlder'
    BY <2>1, <2>2 DEF IndInv, SnapshotProgress, NothingAhead, BornBehind,
                      SnapshotNotOlder, requests
  <2>7. GenerationsMoveForward'
    BY <2>1, <2>2 DEF IndInv, GenerationsMoveForward, Cached
  <2> QED BY <2>5, <2>6, <2>7 DEF IndInv
<1>3. CASE w.kind = "write"
  <2>1. /\ live' = [live EXCEPT ![w.field] = w.value]
        /\ ver' = IF w.field \in JudgedBy THEN [ver EXCEPT ![w.field] = @ + 1] ELSE ver
        /\ UNCHANGED <<caches, born>>
    BY <1>3 DEF Perform
  <2>2. ver' \in Counts /\ \A j \in JudgedBy : ver'[j] >= ver[j]
    BY <2>1 DEF IndInv, Typed, Counts
  <2>3. w.field # "cache"
        /\ (w.field = "overrides" => w.value \in [Domains -> {"none", "allow", "block"}])
    BY <1>3 DEF Steps, Write, Invalidate, SwapCache
  <2>4. "cache" \in DOMAIN live /\ "overrides" \in DOMAIN live
    BY FieldNames DEF IndInv, Typed
  <2>5. DOMAIN live' = DOMAIN live /\ live'.cache = live.cache
        /\ live'.overrides \in [Domains -> {"none", "allow", "block"}]
    BY <2>1, <2>3, <2>4 DEF IndInv, Typed
  <2>6. Typed' /\ SnapshotProgress' /\ NothingAhead' /\ SnapshotNotOlder'
    BY <2>1, <2>2, <2>5 DEF IndInv, Typed, SnapshotProgress, NothingAhead,
                            SnapshotNotOlder, requests
  <2>7. BornBehind'
    <3> SUFFICES ASSUME NEW g \in Generations, g <= live.cache, NEW j \in JudgedBy
                 PROVE  ver'[j] >= born[g][j]
      BY <2>1, <2>5 DEF BornBehind
    <3>1. ver[j] >= born[g][j] /\ ver'[j] >= ver[j]
      BY <2>2 DEF IndInv, BornBehind
    <3>2. ver[j] \in Nat /\ ver'[j] \in Nat /\ born[g][j] \in Nat
      BY <2>2 DEF IndInv, Typed, Counts
    <3> QED BY <3>1, <3>2
  <2>8. GenerationsMoveForward'
    BY <2>1 DEF IndInv, GenerationsMoveForward, Cached
  <2> QED BY <2>6, <2>7, <2>8 DEF IndInv
<1> QED BY <1>1, <1>2, <1>3 DEF Perform

\* What remains of an operation after its next write.
LEMMA AdvanceFacts ==
    ASSUME NEW op, Pending(op), op # Idle
    PROVE  Head(op.todo) \in Steps /\ Pending(Advance(op))
<1>1. op.todo \in Seq(Steps) /\ op.todo # <<>>
  BY DEF Pending
<1>2. /\ Head(op.todo) \in Steps /\ Tail(op.todo) \in Seq(Steps)
      /\ Len(Tail(op.todo)) = Len(op.todo) - 1
  BY <1>1, HeadTailProperties
<1>3. CASE Len(op.todo) = 1
  BY <1>2, <1>3 DEF Advance, Pending
<1>4. CASE Len(op.todo) # 1
  <2>1. Tail(op.todo) # <<>>
    <3> SUFFICES ASSUME Tail(op.todo) = <<>> PROVE FALSE
      OBVIOUS
    <3>1. Len(Tail(op.todo)) = 0
      BY EmptySeq
    <3>2. Len(op.todo) \in Nat
      BY <1>1, LenProperties
    <3> QED BY <1>2, <1>4, <3>1, <3>2
  <2>2. DOMAIN op = {"name", "todo"}
    BY DEF Pending
  <2>3. /\ DOMAIN Advance(op) = {"name", "todo"}
        /\ Advance(op).todo = Tail(op.todo)
    BY <1>4, <2>2 DEF Advance
  <2> QED BY <1>2, <2>1, <2>3 DEF Pending
<1> QED BY <1>3, <1>4

\* The operation that holds persist_lock makes its next write.
LEMMA ConfigStepStep == ASSUME IndInv, ConfigStep PROVE IndInv'
<1>1. Pending(configOp) /\ Pending(overridesOp)
  BY DEF IndInv, Typed
<1>2. Head(configOp.todo) \in Steps /\ Pending(Advance(configOp))
  BY <1>1, AdvanceFacts DEF ConfigStep
<1>3. /\ Perform(Head(configOp.todo)) /\ UNCHANGED requests
      /\ configOp' = Advance(configOp) /\ overridesOp' = overridesOp
  BY DEF ConfigStep
<1> QED BY <1>1, <1>2, <1>3, PerformStep

\* So does the one that holds overrides_persist_lock.
LEMMA OverridesStepStep == ASSUME IndInv, OverridesStep PROVE IndInv'
<1>1. Pending(configOp) /\ Pending(overridesOp)
  BY DEF IndInv, Typed
<1>2. Head(overridesOp.todo) \in Steps /\ Pending(Advance(overridesOp))
  BY <1>1, AdvanceFacts DEF OverridesStep
<1>3. /\ Perform(Head(overridesOp.todo)) /\ UNCHANGED requests
      /\ overridesOp' = Advance(overridesOp) /\ configOp' = configOp
  BY DEF OverridesStep
<1> QED BY <1>1, <1>2, <1>3, PerformStep

\* An operation that only begins has written nothing.
LEMMA BeginStep ==
    ASSUME IndInv, UNCHANGED <<appState, requests>>,
           Pending(configOp'), Pending(overridesOp')
    PROVE  IndInv'
<1>1. Typed' /\ SnapshotProgress' /\ NothingAhead'
  BY DEF IndInv, Typed, SnapshotProgress, NothingAhead, appState, requests
<1>2. BornBehind' /\ SnapshotNotOlder' /\ GenerationsMoveForward'
  BY DEF IndInv, BornBehind, SnapshotNotOlder, GenerationsMoveForward, Cached,
         appState, requests
<1> QED BY <1>1, <1>2 DEF IndInv

\* A route's list of writes is a list of steps, and is never empty.
LEMMA StartConfigStep ==
    ASSUME IndInv, NEW name, NEW todo \in Seq(Steps), todo # <<>>,
           StartConfig(name, todo)
    PROVE  IndInv'
<1>1. Pending(configOp') /\ Pending(overridesOp')
  BY DEF StartConfig, Pending, IndInv, Typed
<1> QED BY <1>1, BeginStep DEF StartConfig

\* One write after an optional one, or before it.
LEMMA TodoFacts ==
    /\ \A w \in Steps : <<w>> \in Seq(Steps) /\ <<w>> # <<>>
    /\ \A w, o \in Steps : \A first \in {<<>>, <<o>>} :
          /\ first \o <<w>> \in Seq(Steps) /\ first \o <<w>> # <<>>
          /\ <<w>> \o first \in Seq(Steps) /\ <<w>> \o first # <<>>
<1>1. \A w \in Steps : <<w>> \in Seq(Steps) /\ <<w>> # <<>> /\ Len(<<w>>) = 1
  OBVIOUS
<1>2. ASSUME NEW w \in Steps, NEW o \in Steps, NEW first \in {<<>>, <<o>>}
      PROVE  /\ first \o <<w>> \in Seq(Steps) /\ first \o <<w>> # <<>>
             /\ <<w>> \o first \in Seq(Steps) /\ <<w>> \o first # <<>>
  <2>1. first \in Seq(Steps) /\ <<w>> \in Seq(Steps) /\ <<w>> # <<>>
    <3>1. <<>> \in Seq(Steps)
      BY EmptySeq
    <3>2. <<o>> \in Seq(Steps) /\ <<w>> \in Seq(Steps) /\ <<w>> # <<>>
      BY <1>1
    <3>3. first = <<>> \/ first = <<o>>
      OBVIOUS
    <3> QED BY <3>1, <3>2, <3>3
  <2>2. first \o <<w>> \in Seq(Steps) /\ <<w>> \o first \in Seq(Steps)
    BY <2>1, ConcatProperties
  <2>3. first \o <<w>> # <<>> /\ <<w>> \o first # <<>>
    BY <2>1, ConcatEqualIffEmpty, ConcatProperties, LenProperties
  <2> QED BY <2>2, <2>3
<1> QED BY <1>1, <1>2

\* Each route, each lock's holder: what it sets out to write.
LEMMA StartOperationStep == ASSUME IndInv, StartOperation PROVE IndInv'
<1>1. CASE ApplyAdminConfig
  <2>1. PICK runtime \in [mode : Modes, fallback : BOOLEAN] :
           StartConfig("config", <<Write("runtime", runtime)>>)
    BY <1>1 DEF ApplyAdminConfig
  <2>2. Write("runtime", runtime) \in Steps
    BY DEF Steps
  <2> QED BY <2>1, <2>2, TodoFacts, StartConfigStep
<1>2. CASE ApplyCacheConfig
  <2>1. SwapCache \in Steps
    BY DEF Steps
  <2> QED BY <1>2, <2>1, TodoFacts, StartConfigStep DEF ApplyCacheConfig
<1>3. CASE ApplyGeoipChange
  <2>1. PICK blocked \in BOOLEAN : StartConfig("geoip", <<Write("countries", blocked)>>)
    BY <1>3 DEF ApplyGeoipChange
  <2>2. Write("countries", blocked) \in Steps
    BY DEF Steps
  <2> QED BY <2>1, <2>2, TodoFacts, StartConfigStep
<1>4. CASE ApplyProviderChange
  <2>1. PICK after \in SUBSET Voters :
           StartConfig("providers",
               (IF after # live.providers THEN <<Invalidate(Domains)>> ELSE <<>>)
                  \o <<Write("providers", after)>>)
    BY <1>4 DEF ApplyProviderChange
  <2> DEFINE first == IF after # live.providers THEN <<Invalidate(Domains)>> ELSE <<>>
  <2>2. Write("providers", after) \in Steps /\ Invalidate(Domains) \in Steps
    BY DEF Steps
  <2>3. first \in {<<>>, <<Invalidate(Domains)>>}
    OBVIOUS
  <2> HIDE DEF first
  <2>4. /\ first \o <<Write("providers", after)>> \in Seq(Steps)
        /\ first \o <<Write("providers", after)>> # <<>>
    BY <2>2, <2>3, TodoFacts
  <2>5. StartConfig("providers", first \o <<Write("providers", after)>>)
    BY <2>1 DEF first
  <2> QED BY <2>4, <2>5, StartConfigStep
<1>5. CASE ApplyRatingFilterChange
  <2>1. PICK new \in [enabled : BOOLEAN, lists : SUBSET Lists] :
           StartConfig("rating",
               <<Write("ratingConfig", new)>>
                  \o (IF new.enabled /\ new # live.ratingConfig THEN <<SwapCache>> ELSE <<>>))
    BY <1>5 DEF ApplyRatingFilterChange
  <2> DEFINE last == IF new.enabled /\ new # live.ratingConfig THEN <<SwapCache>> ELSE <<>>
  <2>2. Write("ratingConfig", new) \in Steps /\ SwapCache \in Steps
    BY DEF Steps
  <2>3. last \in {<<>>, <<SwapCache>>}
    OBVIOUS
  <2> HIDE DEF last
  <2>4. /\ <<Write("ratingConfig", new)>> \o last \in Seq(Steps)
        /\ <<Write("ratingConfig", new)>> \o last # <<>>
    BY <2>2, <2>3, TodoFacts
  <2>5. StartConfig("rating", <<Write("ratingConfig", new)>> \o last)
    BY <2>1 DEF last
  <2> QED BY <2>4, <2>5, StartConfigStep
<1>6. CASE ApplyOverridesChange
  <2>1. PICK d \in Domains, kind \in {"none", "allow", "block"} :
           overridesOp' = [name |-> "overrides",
                           todo |-> <<Write("overrides", [live.overrides EXCEPT ![d] = kind]),
                                      Invalidate({d})>>]
    BY <1>6 DEF ApplyOverridesChange
  <2>2. [live.overrides EXCEPT ![d] = kind] \in [Domains -> {"none", "allow", "block"}]
    BY DEF IndInv, Typed
  <2>3. Write("overrides", [live.overrides EXCEPT ![d] = kind]) \in Steps
    BY <2>2 DEF Steps
  <2>4. Invalidate({d}) \in Steps
    BY DEF Steps
  <2>5. Pending(overridesOp')
    BY <2>1, <2>3, <2>4 DEF Pending
  <2>6. Pending(configOp') /\ UNCHANGED <<appState, requests>>
    BY <1>6 DEF ApplyOverridesChange, IndInv, Typed
  <2> QED BY <2>5, <2>6, BeginStep
<1>7. CASE ApplyAdminReset
  <2>1. PICK file \in Files :
           StartConfig("reset",
               <<Write("runtime", file.runtime), Write("providers", file.providers),
                 Write("overrides", file.overrides), SwapCache,
                 Write("countries", file.countries),
                 Write("ratingConfig", file.ratingConfig)>>)
    BY <1>7 DEF ApplyAdminReset
  <2>2. /\ file.runtime \in [mode : Modes, fallback : BOOLEAN]
        /\ file.providers \in SUBSET Voters
        /\ file.overrides \in [Domains -> {"none", "allow", "block"}]
        /\ file.countries \in BOOLEAN
        /\ file.ratingConfig \in [enabled : BOOLEAN, lists : SUBSET Lists]
    BY FilesAssumption
  <2>3. Write("runtime", file.runtime) \in Steps
    BY <2>2 DEF Steps
  <2>4. Write("providers", file.providers) \in Steps
    BY <2>2 DEF Steps
  <2>5. Write("overrides", file.overrides) \in Steps
    BY <2>2 DEF Steps
  <2>6. SwapCache \in Steps
    BY DEF Steps
  <2>7. Write("countries", file.countries) \in Steps
    BY <2>2 DEF Steps
  <2>8. Write("ratingConfig", file.ratingConfig) \in Steps
    BY <2>2 DEF Steps
  <2>9. ASSUME NEW a \in Steps, NEW b \in Steps, NEW c \in Steps,
               NEW d \in Steps, NEW e \in Steps, NEW f \in Steps
        PROVE  <<a, b, c, d, e, f>> \in Seq(Steps) /\ <<a, b, c, d, e, f>> # <<>>
    OBVIOUS
  <2>10. ASSUME NEW todo \in Seq(Steps), todo # <<>>, StartConfig("reset", todo)
         PROVE  IndInv'
    BY <2>10, StartConfigStep
  <2> QED
    BY <2>1, <2>3, <2>4, <2>5, <2>6, <2>7, <2>8, <2>9, <2>10
<1> QED
  BY <1>1, <1>2, <1>3, <1>4, <1>5, <1>6, <1>7 DEF StartOperation

\* The tasks that publish what they saw write a field other than the cache.
LEMMA BackgroundStep == ASSUME IndInv, Background PROVE IndInv'
<1>1. ASSUME NEW name, NEW f \in Fields \ {"cache", "overrides"}, NEW value,
             Publish(name, f, value)
      PROVE  IndInv'
  <2>1. ver \in Counts /\ \A j \in JudgedBy : ver[j] >= ver[j]
    BY DEF IndInv, Typed, Counts
  <2> QED BY <1>1, <2>1, PublishStep DEF Publish
<1>2. CASE PauseTick \/ ProbeCycle \/ BundlesRefreshed
  <2>1. {"paused", "offline", "bundles"} \subseteq Fields \ {"cache", "overrides"}
    BY FieldNames
  <2> QED BY <1>1, <1>2, <2>1 DEF PauseTick, ProbeCycle, BundlesRefreshed
<1>3. CASE RefreshStart
  <2>1. Pending(configOp') /\ Pending(overridesOp') /\ UNCHANGED <<appState, requests>>
    BY <1>3 DEF RefreshStart, IndInv, Typed
  <2> QED BY <2>1, BeginStep
<1>4. CASE RefreshPublish
  <2>1. "zone" \in Fields \ {"cache", "overrides"}
    BY FieldNames
  <2>2. PICK loaded \in SUBSET refresh.lists :
           live' = [live EXCEPT !["zone"] = UNION {ListZone[l] : l \in loaded}]
    BY <1>4 DEF RefreshPublish
  <2>3. ver' \in Counts /\ \A j \in JudgedBy : ver'[j] >= ver[j]
    BY <1>4 DEF RefreshPublish, IndInv, Typed, Counts, JudgedBy
  <2>4. UNCHANGED <<caches, born, configOp, overridesOp, requests>>
    BY <1>4 DEF RefreshPublish
  <2> QED BY <2>1, <2>2, <2>3, <2>4, PublishStep
<1>5. CASE PersonalRefresh
  <2>1. "personal" \in Fields \ {"cache", "overrides"}
    BY FieldNames
  <2>2. PICK zone \in SUBSET visits : live' = [live EXCEPT !["personal"] = zone]
    BY <1>5 DEF PersonalRefresh
  <2>3. ver' \in Counts /\ \A j \in JudgedBy : ver'[j] >= ver[j]
    BY <1>5 DEF PersonalRefresh, IndInv, Typed, Counts
  <2>4. UNCHANGED <<caches, born, configOp, overridesOp, requests>>
    BY <1>5 DEF PersonalRefresh, writers
  <2> QED BY <2>1, <2>2, <2>3, <2>4, PublishStep
<1>6. ASSUME NEW d \in Domains, Expire(d) PROVE IndInv'
  <2>1. /\ caches' = [caches EXCEPT ![live.cache][d] = NoEntry]
        /\ UNCHANGED <<live, ver, born, visits, writers, requests>>
    BY <1>6 DEF Expire
  <2>2. \A g \in Generations, e \in Domains :
            caches'[g][e] = caches[g][e] \/ caches'[g][e] = NoEntry
    BY <2>1 DEF IndInv, Typed
  <2>3. DOMAIN caches' = Generations /\ \A g \in Generations : DOMAIN caches'[g] = Domains
    BY <2>1 DEF IndInv, Typed
  <2>4. NoEntry.ver \in Counts
    BY DEF NoEntry, Zero, Counts
  <2>5. Typed'
    BY <2>1, <2>2, <2>3, <2>4 DEF IndInv, Typed, requests, writers
  <2>6. SnapshotProgress' /\ NothingAhead' /\ BornBehind' /\ SnapshotNotOlder'
    BY <2>1, <2>2 DEF IndInv, SnapshotProgress, NothingAhead, BornBehind,
                      SnapshotNotOlder, requests
  <2>7. GenerationsMoveForward'
    BY <2>1, <2>2 DEF IndInv, GenerationsMoveForward, Cached
  <2> QED BY <2>5, <2>6, <2>7 DEF IndInv
<1> QED
  BY <1>2, <1>3, <1>4, <1>5, <1>6 DEF Background

-----------------------------------------------------------------------------
\* Every step of a query, a writer or a background task keeps the invariant.
LEMMA Invariance == Spec => []IndInv
<1>1. ASSUME IndInv, [Next]_vars PROVE IndInv'
  <2>1. CASE UNCHANGED vars
    <3>1. UNCHANGED <<appState, requests>> /\ UNCHANGED <<configOp, overridesOp>>
      BY <2>1 DEF vars, writers
    <3>2. Pending(configOp') /\ Pending(overridesOp')
      BY <1>1, <3>1 DEF IndInv, Typed
    <3> QED BY <1>1, <3>1, <3>2, BeginStep
  <2>2. ASSUME NEW q \in Queries, Arrive(q) \/ Progress(q) PROVE IndInv'
    BY <1>1, <2>2, ArriveStep, ReadStep, DecisionStep, StoreStep, ReplyStep DEF Progress
  <2> QED
    BY <1>1, <2>1, <2>2, StartOperationStep, ConfigStepStep, OverridesStepStep,
       BackgroundStep DEF Next
<1> QED BY <1>1, InitIndInv, PTL DEF Spec

(***************************************************************************)
(* No query carries an older judgement into a newer cache                  *)
(* (GenerationsMoveForward), however the thirteen writers' steps fall      *)
(* between its reads: `resolve_doh_request` reads the cache's Arc before   *)
(* every setting a verdict depends on.                                     *)
(***************************************************************************)
THEOREM GenerationsMoveForwardCorrect == Spec => []GenerationsMoveForward
<1>1. IndInv => GenerationsMoveForward
  BY DEF IndInv
<1> QED BY <1>1, Invariance, PTL

-----------------------------------------------------------------------------
(* Type correctness, with the bounds of what history counts.               *)

\* What an operation has left to write includes this field; it has each field once.
Owes(op, f) == \E i \in DOMAIN op.todo : op.todo[i].field = f
WritesOnce(todo) == \A i, j \in DOMAIN todo : todo[i].field = todo[j].field => i = j

(***************************************************************************)
(* No judged field has been written more often than operations have begun, *)
(* and less often while one of them has it still to write; a swap to come  *)
(* has a generation left.                                                  *)
(***************************************************************************)
WritesAreCounted ==
    \A f \in JudgedBy :
        /\ ver[f] <= changes
        /\ Owes(configOp, f) \/ (f = "zone" /\ refresh.running) => ver[f] < changes
TodoIsSpare ==
    /\ WritesOnce(configOp.todo)
    /\ \A i \in DOMAIN overridesOp.todo :
          /\ overridesOp.todo[i].field \in {"overrides", "cache"}
          /\ overridesOp.todo[i].kind # "swap"
SwapsHaveRoom ==
    (\E i \in DOMAIN configOp.todo : configOp.todo[i] = SwapCache)
        => live.cache < MaxGenerations

TypeInv == TypeOK /\ WritesAreCounted /\ TodoIsSpare /\ SwapsHaveRoom

\* The counters' range, and what has no history.
LEMMA CountsAre ==
  /\ \A n \in Nat : n <= MaxChanges => n \in CountOfWrites
  /\ CountOfWrites \subseteq Nat
  /\ Zero \in [JudgedBy -> CountOfWrites] /\ NoEntry \in EntryType /\ NoOutcome \in OutcomeType
<1>1. MaxChanges \in Nat /\ 2 * MaxChanges \in Nat /\ MaxChanges <= 2 * MaxChanges
  BY BoundsAssumption
<1>2. CountOfWrites \subseteq Nat /\ 0 \in CountOfWrites
      /\ \A n \in Nat : n <= MaxChanges => n \in CountOfWrites
  BY <1>1 DEF CountOfWrites
<1>3. Zero \in [JudgedBy -> CountOfWrites]
  BY <1>2 DEF Zero
<1>4. NoEntry \in EntryType
  BY <1>3 DEF NoEntry, EntryType, Modes
<1>5. NoOutcome \in OutcomeType
  BY DEF NoOutcome, Logged, OutcomeType
<1> QED  BY <1>2, <1>3, <1>4, <1>5

\* Some fields of one record of settings, the others of another.
LEMMA MixedSettings ==
  ASSUME NEW s \in SettingsType, NEW t \in SettingsType, NEW S
  PROVE  [f \in Fields |-> IF f \in S THEN s[f] ELSE t[f]] \in SettingsType
<1> DEFINE g == [f \in Fields |-> IF f \in S THEN s[f] ELSE t[f]]
<1>1. /\ g.runtime \in [mode : Modes, fallback : BOOLEAN]
      /\ g.overrides \in [Domains -> {"none", "allow", "block"}]
      /\ g.cache \in Generations /\ g.countries \in BOOLEAN /\ g.providers \in SUBSET Voters
      /\ g.ratingConfig \in [enabled : BOOLEAN, lists : SUBSET Lists]
      /\ g.zone \in SUBSET Domains /\ g.removed \in SUBSET Domains
      /\ g.personal \in SUBSET Domains /\ g.bundles \in SUBSET Domains
      /\ g.offline \in BOOLEAN /\ g.paused \in BOOLEAN
  BY FieldNames DEF SettingsType
<1>2. g = [runtime |-> g.runtime, overrides |-> g.overrides, cache |-> g.cache,
           countries |-> g.countries, providers |-> g.providers,
           ratingConfig |-> g.ratingConfig, zone |-> g.zone, removed |-> g.removed,
           personal |-> g.personal, bundles |-> g.bundles, offline |-> g.offline,
           paused |-> g.paused]
  BY FieldNames
<1> HIDE DEF g
<1>3. g \in SettingsType
  BY <1>1, <1>2 DEF SettingsType
<1> QED  BY <1>3 DEF g

\* A write keeps the settings typed.
LEMMA WriteTyped ==
  ASSUME NEW s \in SettingsType, NEW w \in Steps, w.kind = "write"
  PROVE  [s EXCEPT ![w.field] = w.value] \in SettingsType
<1>1. \/ w.field = "runtime" /\ w.value \in [mode : Modes, fallback : BOOLEAN]
      \/ w.field = "providers" /\ w.value \in SUBSET Voters
      \/ w.field = "overrides" /\ w.value \in [Domains -> {"none", "allow", "block"}]
      \/ w.field = "countries" /\ w.value \in BOOLEAN
      \/ w.field = "ratingConfig" /\ w.value \in [enabled : BOOLEAN, lists : SUBSET Lists]
  BY DEF Steps, Write, Invalidate, SwapCache
<1>2. CASE w.field = "runtime"
  BY <1>1, <1>2 DEF SettingsType
<1>3. CASE w.field = "providers"
  BY <1>1, <1>3 DEF SettingsType
<1>4. CASE w.field = "overrides"
  BY <1>1, <1>4 DEF SettingsType
<1>5. CASE w.field = "countries"
  BY <1>1, <1>5 DEF SettingsType
<1>6. CASE w.field = "ratingConfig"
  BY <1>1, <1>6 DEF SettingsType
<1> QED  BY <1>1, <1>2, <1>3, <1>4, <1>5, <1>6

\* At the start every setting is the boot record's, and nothing is counted.
LEMMA InitTypeInv == Init => TypeInv
<1> SUFFICES ASSUME Init PROVE TypeInv
  OBVIOUS
<1>1. TypeOK
  <2>1. /\ live \in SettingsType /\ snap \in [Queries -> SettingsType]
        /\ refresh \in [running : BOOLEAN, lists : SUBSET Lists]
        /\ configOp.name = "none" /\ overridesOp.name = "none"
        /\ changes \in 0 .. MaxChanges /\ read \in [Queries -> 0 .. Len(Reads)]
    BY BootAssumption, BoundsAssumption, CacheIsReadFirst DEF Init, NoRefresh, Idle
  <2>2. /\ ver \in [JudgedBy -> CountOfWrites]
        /\ caches \in [Generations -> [Domains -> EntryType]]
        /\ born \in [Generations -> [JudgedBy -> CountOfWrites]]
        /\ snapVer \in [Queries -> [JudgedBy -> CountOfWrites]]
        /\ outcome \in [Queries -> OutcomeType]
    BY CountsAre DEF Init, EmptyCache
  <2> QED  BY <2>1, <2>2 DEF Init, TypeOK
<1>2. WritesAreCounted
  BY DEF Init, WritesAreCounted, Zero, Owes, Idle, NoRefresh
<1>3. TodoIsSpare /\ SwapsHaveRoom
  BY DEF Init, TodoIsSpare, SwapsHaveRoom, WritesOnce, Idle
<1> QED  BY <1>1, <1>2, <1>3 DEF TypeInv

\* What IndInv says of a query's phase, its name and its reads is part of their types.
LEMMA TypedRequests ==
  ASSUME IndInv'
  PROVE  /\ pc' \in [Queries -> {"idle", "reading", "routing", "resolving", "storing",
                                "replying"}]
         /\ domain' \in [Queries -> Domains] /\ read' \in [Queries -> 0 .. Len(Reads)]
<1>1. ASSUME NEW q \in Queries PROVE read'[q] \in 0 .. Len(Reads)
  BY CacheIsReadFirst DEF IndInv, Typed, SnapshotProgress
<1> QED  BY <1>1 DEF IndInv, Typed

\* What ends a query, or is on its way to a cache, is an outcome.
LEMMA OutcomesTyped ==
  ASSUME TypeOK, NEW q \in Queries
  PROVE  /\ \A o \in ShortCircuits(q) : o \in OutcomeType
         /\ \A decision \in {"Allowed", "Blocked", "Failed"} :
               /\ \A source \in {"Cache", "Geoip", "RatingFilter", "BaselineFallback"} :
                     Logged(decision, source) \in OutcomeType
               /\ \A answered \in SUBSET snap[q].providers, removal \in BOOLEAN :
                     Verdict(q, decision, answered, removal) \in OutcomeType
<1>1. ASSUME NEW decision \in {"None", "Allowed", "Blocked", "Failed"},
             NEW source \in {"Quorum", "Cache", "Allowlist", "Blocklist", "Geoip",
                             "RatingFilter", "BaselineFallback", "Proxy"}
      PROVE  Logged(decision, source) \in OutcomeType
  BY DEF Logged, OutcomeType
<1>2. snap[q].providers \subseteq Voters
  BY DEF TypeOK, SettingsType
<1>3. ASSUME NEW decision \in {"Allowed", "Blocked", "Failed"},
             NEW answered \in SUBSET snap[q].providers, NEW removal \in BOOLEAN
      PROVE  Verdict(q, decision, answered, removal) \in OutcomeType
  BY <1>2 DEF Verdict, OutcomeType
<1>4. ASSUME NEW o \in ShortCircuits(q) PROVE o \in OutcomeType
  BY <1>1 DEF ShortCircuits, ViaBaseline
<1> QED  BY <1>1, <1>3, <1>4

\* A query decides, or goes on towards a decision: nothing changes but its outcome.
LEMMA DecisionTyped ==
  ASSUME TypeInv, NEW q \in Queries,
         \/ ShortCircuit(q) \/ CacheHit(q) \/ CacheMiss(q)
         \/ ResolveBlock(q) \/ ResolveAllow(q) \/ ResolveUnreachable(q)
  PROVE  /\ outcome' \in [Queries -> OutcomeType]
         /\ UNCHANGED <<appState, writers, qtype, snap, snapVer>>
<1>1. TypeOK
  BY DEF TypeInv
<1>2. ASSUME NEW o \in OutcomeType, outcome' = [outcome EXCEPT ![q] = o]
      PROVE  outcome' \in [Queries -> OutcomeType]
  BY <1>1, <1>2 DEF TypeOK
<1>3. CASE ShortCircuit(q)
  BY <1>1, <1>2, <1>3, OutcomesTyped DEF ShortCircuit, End
<1>4. CASE CacheHit(q)
  BY <1>1, <1>2, <1>4, OutcomesTyped DEF CacheHit, End
<1>5. CASE CacheMiss(q)
  <2>1. UNCHANGED outcome \/ outcome' = [outcome EXCEPT ![q] = Logged("Blocked", "RatingFilter")]
    BY <1>5 DEF CacheMiss, End
  <2>2. UNCHANGED <<appState, writers, qtype, snap, snapVer>>
    BY <1>5 DEF CacheMiss
  <2> QED  BY <1>1, <1>2, <2>1, <2>2, OutcomesTyped DEF TypeOK
<1>6. CASE ResolveBlock(q)
  <2>1. ExactHit(snap[q], domain[q]) \in BOOLEAN
    BY DEF ExactHit
  <2>2. \E answered \in SUBSET snap[q].providers :
           outcome' = [outcome EXCEPT ![q] =
               Verdict(q, "Blocked", answered, ExactHit(snap[q], domain[q]))]
    BY <1>6 DEF ResolveBlock
  <2> QED  BY <1>1, <1>2, <1>6, <2>1, <2>2, OutcomesTyped DEF ResolveBlock
<1>7. CASE ResolveAllow(q)
  <2>1. \E answered \in SUBSET snap[q].providers, decision \in {"Allowed", "Failed"} :
           outcome' = [outcome EXCEPT ![q] = Verdict(q, decision, answered, FALSE)]
    BY <1>7 DEF ResolveAllow, End
  <2> QED  BY <1>1, <1>2, <1>7, <2>1, OutcomesTyped DEF ResolveAllow
<1>8. CASE ResolveUnreachable(q)
  <2>1. \E decision \in {"Allowed", "Blocked", "Failed"} :
           outcome' = [outcome EXCEPT ![q] = Logged(decision, "BaselineFallback")]
    BY <1>8 DEF ResolveUnreachable, End, ViaBaseline
  <2> QED  BY <1>1, <1>2, <1>8, <2>1, OutcomesTyped DEF ResolveUnreachable
<1> QED  BY <1>3, <1>4, <1>5, <1>6, <1>7, <1>8

\* A query's step changes of the settings the bubble only, and counts nothing.
LEMMA QueryTypeStep ==
  ASSUME IndInv', TypeInv, NEW q \in Queries, Arrive(q) \/ Progress(q)
  PROVE  TypeInv'
<1>1. TypeOK
  BY DEF TypeInv
<1>2. ASSUME live' \in SettingsType, live'.cache = live.cache, UNCHANGED <<ver, born, writers>>,
             caches' \in [Generations -> [Domains -> EntryType]], visits' \subseteq Domains,
             qtype' \in [Queries -> Qtypes], snap' \in [Queries -> SettingsType],
             snapVer' \in [Queries -> [JudgedBy -> CountOfWrites]],
             outcome' \in [Queries -> OutcomeType]
      PROVE  TypeInv'
  <2>1. TypeOK'
    <3>1. /\ pc' \in [Queries -> {"idle", "reading", "routing", "resolving", "storing",
                                 "replying"}]
          /\ domain' \in [Queries -> Domains] /\ read' \in [Queries -> 0 .. Len(Reads)]
      BY TypedRequests
    <3> QED  BY <1>1, <1>2, <3>1 DEF TypeOK, writers
  <2>2. WritesAreCounted' /\ TodoIsSpare' /\ SwapsHaveRoom'
    BY <1>2 DEF TypeInv, WritesAreCounted, TodoIsSpare, SwapsHaveRoom, Owes, writers
  <2> QED  BY <2>1, <2>2 DEF TypeInv
<1>3. CASE Arrive(q)
  <2>1. qtype' \in [Queries -> Qtypes]
    BY <1>1, <1>3 DEF Arrive, TypeOK
  <2> QED  BY <1>1, <1>2, <1>3, <2>1 DEF Arrive, TypeOK, appState
<1>4. CASE ReadNext(q)
  <2> DEFINE fields == Reads[read[q] + 1]
             s == [f \in Fields |-> IF f \in fields THEN live[f] ELSE snap[q][f]]
             v == [f \in JudgedBy |-> IF f \in fields THEN ver[f] ELSE snapVer[q][f]]
  <2>1. /\ snap' = [snap EXCEPT ![q] = s] /\ snapVer' = [snapVer EXCEPT ![q] = v]
        /\ UNCHANGED <<appState, writers, qtype, outcome>>
    BY <1>4 DEF ReadNext
  <2>2. s \in SettingsType
    <3>1. live \in SettingsType /\ snap[q] \in SettingsType
      BY <1>1 DEF TypeOK
    <3> QED  BY <3>1, MixedSettings
  <2>3. v \in [JudgedBy -> CountOfWrites]
    BY <1>1 DEF TypeOK
  <2> HIDE DEF s, v
  <2>4. /\ snap' \in [Queries -> SettingsType]
        /\ snapVer' \in [Queries -> [JudgedBy -> CountOfWrites]]
    BY <1>1, <2>1, <2>2, <2>3 DEF TypeOK
  <2> QED  BY <1>1, <1>2, <2>1, <2>4 DEF TypeOK, appState
<1>5. CASE \/ ShortCircuit(q) \/ CacheHit(q) \/ CacheMiss(q)
           \/ ResolveBlock(q) \/ ResolveAllow(q) \/ ResolveUnreachable(q)
  BY <1>1, <1>2, <1>5, DecisionTyped DEF TypeOK, appState
<1>6. CASE Store(q)
  <2> DEFINE o == IF outcome[q].decision = "Allowed" /\ snap[q].countries
                  THEN Logged("Blocked", "Geoip") ELSE outcome[q]
             e == JudgedEntry(q)
  <2>1. /\ UNCHANGED <<live, ver, born, visits, writers, qtype, snap, snapVer>>
        /\ outcome' = [outcome EXCEPT ![q] = o]
        /\ caches' = [caches EXCEPT ![snap[q].cache][domain[q]] = e] \/ UNCHANGED caches
    BY <1>6 DEF Store, End
  <2>2. e \in EntryType
    <3>1. /\ snap[q] \in SettingsType /\ outcome[q] \in OutcomeType
          /\ snapVer[q] \in [JudgedBy -> CountOfWrites]
      BY <1>1 DEF TypeOK
    <3> QED  BY <3>1 DEF JudgedEntry, EntryType, SettingsType, OutcomeType
  <2>3. o \in OutcomeType
    BY <1>1, OutcomesTyped DEF TypeOK
  <2> HIDE DEF o, e
  <2>4. outcome' \in [Queries -> OutcomeType]
    BY <1>1, <2>1, <2>3 DEF TypeOK
  <2>5. caches' \in [Generations -> [Domains -> EntryType]]
    <3> DEFINE g == snap[q].cache
               row == [caches[g] EXCEPT ![domain[q]] = e]
    <3>1. g \in Generations /\ caches[g] \in [Domains -> EntryType]
      BY <1>1 DEF TypeOK, SettingsType
    <3>2. row \in [Domains -> EntryType]
      BY <2>2, <3>1
    <3>3. caches' = [caches EXCEPT ![g] = row] \/ UNCHANGED caches
      BY <2>1
    <3> HIDE DEF g, row
    <3> QED  BY <1>1, <3>1, <3>2, <3>3 DEF TypeOK
  <2> QED  BY <1>1, <1>2, <2>1, <2>4, <2>5 DEF TypeOK
<1>7. CASE Reply(q)
  <2>1. /\ UNCHANGED <<ver, caches, born, writers, qtype>>
        /\ snap' = [snap EXCEPT ![q] = Boot] /\ snapVer' = [snapVer EXCEPT ![q] = Zero]
        /\ outcome' = [outcome EXCEPT ![q] = NoOutcome]
    BY <1>7 DEF Reply
  <2>2. domain[q] \in Domains
    BY <1>1 DEF TypeOK
  <2>3. live' \in SettingsType /\ live'.cache = live.cache
    <3>1. live' = live \/ live' = [live EXCEPT !.removed = @ \cup {domain[q]}]
      BY <1>7 DEF Reply
    <3>2. live \in SettingsType /\ live.removed \cup {domain[q]} \in SUBSET Domains
      BY <1>1, <2>2 DEF TypeOK, SettingsType
    <3>3. CASE live' = [live EXCEPT !.removed = @ \cup {domain[q]}]
      BY <3>2, <3>3 DEF SettingsType
    <3> QED  BY <3>1, <3>2, <3>3
  <2>4. visits' \subseteq Domains
    BY <1>1, <1>7, <2>2 DEF Reply, TypeOK
  <2>5. /\ snap' \in [Queries -> SettingsType] /\ outcome' \in [Queries -> OutcomeType]
        /\ snapVer' \in [Queries -> [JudgedBy -> CountOfWrites]]
    BY <1>1, <2>1, BootAssumption, CountsAre DEF TypeOK
  <2> QED  BY <1>1, <1>2, <2>1, <2>3, <2>4, <2>5 DEF TypeOK
<1> QED  BY <1>3, <1>4, <1>5, <1>6, <1>7 DEF Progress

-----------------------------------------------------------------------------
\* One write of an operation, which had it to do.
LEMMA PerformTyped ==
  ASSUME TypeInv, NEW w \in Steps, Perform(w),
         w.kind = "swap" => live.cache < MaxGenerations,
         w.field \in JudgedBy => ver[w.field] < changes
  PROVE  /\ live' \in SettingsType
         /\ w.kind # "swap" => live'.cache = live.cache
         /\ ver' \in [JudgedBy -> CountOfWrites]
         /\ \A f \in JudgedBy : ver'[f] <= changes /\ (f # w.field => ver'[f] = ver[f])
         /\ caches' \in [Generations -> [Domains -> EntryType]]
         /\ born' \in [Generations -> [JudgedBy -> CountOfWrites]]
<1>1. /\ live \in SettingsType /\ ver \in [JudgedBy -> CountOfWrites]
      /\ caches \in [Generations -> [Domains -> EntryType]]
      /\ born \in [Generations -> [JudgedBy -> CountOfWrites]]
      /\ live.cache \in Generations /\ changes \in 0 .. MaxChanges
  BY DEF TypeInv, TypeOK, SettingsType
<1>2. \A f \in JudgedBy : ver[f] \in Nat /\ ver[f] <= changes
  BY <1>1, CountsAre DEF TypeInv, WritesAreCounted
<1>3. CASE w.kind = "write"
  <2>1. /\ live' = [live EXCEPT ![w.field] = w.value]
        /\ ver' = IF w.field \in JudgedBy THEN [ver EXCEPT ![w.field] = @ + 1] ELSE ver
        /\ UNCHANGED <<caches, born>>
    BY <1>3 DEF Perform
  <2>2. live' \in SettingsType
    BY <1>1, <1>3, <2>1, WriteTyped
  <2>3. w.field # "cache"
    BY <1>3 DEF Steps, Write, Invalidate, SwapCache
  <2>4. live'.cache = live.cache
    BY <1>1, <2>1, <2>3 DEF SettingsType
  <2>5. \A f \in JudgedBy : /\ ver'[f] \in Nat /\ ver'[f] <= changes
                            /\ f # w.field => ver'[f] = ver[f]
    BY <1>1, <1>2, <2>1, BoundsAssumption
  <2>6. \A f \in JudgedBy : ver'[f] \in CountOfWrites
    BY <1>1, <2>5, CountsAre, BoundsAssumption
  <2>7. ver' \in [JudgedBy -> CountOfWrites]
    BY <1>1, <2>1, <2>6
  <2> QED  BY <1>1, <2>1, <2>2, <2>4, <2>5, <2>7
<1>4. CASE w.kind = "swap"
  <2>1. /\ live' = [live EXCEPT !.cache = @ + 1]
        /\ born' = [born EXCEPT ![live.cache + 1] = ver]
        /\ UNCHANGED <<ver, caches>>
    BY <1>4 DEF Perform
  <2>2. live.cache + 1 \in Generations
    BY <1>1, <1>4, BoundsAssumption DEF Generations
  <2>3. live' \in SettingsType
    BY <1>1, <2>1, <2>2 DEF SettingsType
  <2> QED  BY <1>1, <1>2, <1>4, <2>1, <2>3
<1>5. CASE w.kind = "invalidate"
  <2> DEFINE row == [d \in Domains |-> IF d \in w.value THEN NoEntry ELSE caches[live.cache][d]]
  <2>1. caches' = [caches EXCEPT ![live.cache] = row] /\ UNCHANGED <<live, ver, born>>
    BY <1>5 DEF Perform
  <2>2. row \in [Domains -> EntryType]
    BY <1>1, CountsAre
  <2> HIDE DEF row
  <2> QED  BY <1>1, <1>2, <2>1, <2>2
<1> QED  BY <1>3, <1>4, <1>5 DEF Perform

\* What is left of a list of writes is part of it, and has not its first field.
LEMMA AdvanceOnce ==
  ASSUME NEW op, Pending(op), op # Idle
  PROVE  /\ op.todo[1] = Head(op.todo) /\ 1 \in DOMAIN op.todo
         /\ \A i \in DOMAIN Advance(op).todo :
               i + 1 \in DOMAIN op.todo /\ Advance(op).todo[i] = op.todo[i + 1]
         /\ DOMAIN Advance(op).todo \subseteq Nat \ {0}
         /\ Advance(op).name \in {op.name, "none"}
<1>1. op.todo \in Seq(Steps) /\ op.todo # <<>> /\ DOMAIN op = {"name", "todo"}
  BY DEF Pending
<1>2. /\ Len(op.todo) \in Nat /\ Len(op.todo) >= 1 /\ DOMAIN op.todo = 1 .. Len(op.todo)
      /\ Head(op.todo) = op.todo[1]
  BY <1>1, EmptySeq
<1>3. CASE Len(op.todo) = 1
  <2>1. Advance(op) = Idle /\ DOMAIN Idle.todo = {} /\ Idle.name = "none"
    BY <1>3 DEF Advance, Idle
  <2> QED  BY <1>2, <2>1
<1>4. CASE Len(op.todo) # 1
  <2>1. Advance(op).todo = Tail(op.todo) /\ Advance(op).name = op.name
    BY <1>1, <1>4 DEF Advance
  <2>2. /\ Len(Tail(op.todo)) = Len(op.todo) - 1 /\ Tail(op.todo) \in Seq(Steps)
        /\ DOMAIN Tail(op.todo) = 1 .. (Len(op.todo) - 1)
        /\ \A i \in 1 .. (Len(op.todo) - 1) : Tail(op.todo)[i] = op.todo[i + 1]
    BY <1>1, <1>2
  <2> QED  BY <1>2, <2>1, <2>2
<1> QED  BY <1>3, <1>4

\* The holder of persist_lock makes the write it owes, and owes it no more.
LEMMA ConfigTypeStep == ASSUME IndInv, IndInv', TypeInv, ConfigStep PROVE TypeInv'
<1> DEFINE w == Head(configOp.todo)
<1>1. /\ Pending(configOp) /\ configOp # Idle /\ Perform(w)
      /\ configOp' = Advance(configOp)
      /\ UNCHANGED <<visits, requests, changes, overridesOp, refresh>>
  BY DEF ConfigStep, IndInv, Typed
<1>2. /\ w \in Steps /\ w = configOp.todo[1] /\ 1 \in DOMAIN configOp.todo
      /\ \A i \in DOMAIN configOp'.todo :
            i + 1 \in DOMAIN configOp.todo /\ configOp'.todo[i] = configOp.todo[i + 1]
      /\ DOMAIN configOp'.todo \subseteq Nat \ {0}
      /\ configOp'.name \in {configOp.name, "none"}
  BY <1>1, AdvanceFacts, AdvanceOnce
<1> HIDE DEF w
<1>3. \A i \in DOMAIN configOp'.todo : configOp'.todo[i].field # w.field
  BY <1>2 DEF TypeInv, TodoIsSpare, WritesOnce
<1>4. WritesOnce(configOp'.todo)
  BY <1>2 DEF TypeInv, TodoIsSpare, WritesOnce
<1>5. w.kind = "swap" => w = SwapCache
  BY <1>2 DEF Steps, Write, Invalidate, SwapCache
<1>6. w.kind = "swap" => live.cache < MaxGenerations
  BY <1>2, <1>5 DEF TypeInv, SwapsHaveRoom
<1>7. w.field \in JudgedBy => ver[w.field] < changes
  BY <1>2 DEF TypeInv, WritesAreCounted, Owes
<1>8. /\ live' \in SettingsType
      /\ w.kind # "swap" => live'.cache = live.cache
      /\ ver' \in [JudgedBy -> CountOfWrites]
      /\ \A f \in JudgedBy : ver'[f] <= changes /\ (f # w.field => ver'[f] = ver[f])
      /\ caches' \in [Generations -> [Domains -> EntryType]]
      /\ born' \in [Generations -> [JudgedBy -> CountOfWrites]]
  BY <1>1, <1>2, <1>6, <1>7, PerformTyped
<1>9. TypeOK'
  BY <1>1, <1>2, <1>8 DEF TypeInv, TypeOK, requests
<1>10. w.field # "zone"
  BY <1>2 DEF Steps, Write, Invalidate, SwapCache
<1>11. WritesAreCounted'
  BY <1>1, <1>2, <1>3, <1>8, <1>10 DEF TypeInv, WritesAreCounted, Owes
<1>12. TodoIsSpare'
  BY <1>1, <1>4 DEF TypeInv, TodoIsSpare
<1>13. SwapsHaveRoom'
  <2>1. CASE w.kind = "swap"
    BY <1>3, <1>5, <2>1 DEF SwapsHaveRoom, SwapCache
  <2>2. CASE w.kind # "swap"
    BY <1>2, <1>8, <2>2 DEF TypeInv, SwapsHaveRoom
  <2> QED  BY <2>1, <2>2
<1> QED  BY <1>9, <1>11, <1>12, <1>13 DEF TypeInv

\* The overrides' writes are neither judged by nor swaps.
LEMMA OverridesTypeStep == ASSUME IndInv, IndInv', TypeInv, OverridesStep PROVE TypeInv'
<1> DEFINE w == Head(overridesOp.todo)
<1>1. /\ Pending(overridesOp) /\ overridesOp # Idle /\ Perform(w)
      /\ overridesOp' = Advance(overridesOp)
      /\ UNCHANGED <<visits, requests, changes, configOp, refresh>>
  BY DEF OverridesStep, IndInv, Typed
<1>2. /\ w \in Steps /\ w = overridesOp.todo[1] /\ 1 \in DOMAIN overridesOp.todo
      /\ \A i \in DOMAIN overridesOp'.todo :
            i + 1 \in DOMAIN overridesOp.todo /\ overridesOp'.todo[i] = overridesOp.todo[i + 1]
      /\ overridesOp'.name \in {overridesOp.name, "none"}
  BY <1>1, AdvanceFacts, AdvanceOnce
<1> HIDE DEF w
<1>3. w.field \in {"overrides", "cache"} /\ w.kind # "swap" /\ w.field \notin JudgedBy
  BY <1>2 DEF TypeInv, TodoIsSpare, JudgedBy
<1>4. /\ live' \in SettingsType /\ live'.cache = live.cache
      /\ ver' \in [JudgedBy -> CountOfWrites]
      /\ \A f \in JudgedBy : ver'[f] = ver[f]
      /\ caches' \in [Generations -> [Domains -> EntryType]]
      /\ born' \in [Generations -> [JudgedBy -> CountOfWrites]]
  BY <1>1, <1>2, <1>3, PerformTyped
<1>5. TypeOK'
  BY <1>1, <1>2, <1>4 DEF TypeInv, TypeOK, requests
<1>6. WritesAreCounted' /\ SwapsHaveRoom'
  BY <1>1, <1>4 DEF TypeInv, WritesAreCounted, SwapsHaveRoom, Owes
<1>7. TodoIsSpare'
  BY <1>1, <1>2 DEF TypeInv, TodoIsSpare
<1> QED  BY <1>5, <1>6, <1>7 DEF TypeInv

\* An operation begins: one more is counted, and none of its writes twice.
LEMMA StartTyped ==
  ASSUME IndInv', TypeInv, changes < MaxChanges, changes' = changes + 1,
         UNCHANGED <<appState, requests>>,
         configOp'.name \in Operations \cup {"none"},
         overridesOp'.name \in {"overrides", "none"},
         refresh' \in [running : BOOLEAN, lists : SUBSET Lists],
         TodoIsSpare', SwapsHaveRoom'
  PROVE  TypeInv'
<1>1. changes \in Nat /\ changes' \in 0 .. MaxChanges
  BY BoundsAssumption DEF TypeInv, TypeOK
<1>2. \A f \in JudgedBy : ver[f] \in Nat /\ ver[f] <= changes
  BY CountsAre DEF TypeInv, TypeOK, WritesAreCounted
<1>3. WritesAreCounted'
  BY <1>1, <1>2 DEF WritesAreCounted, appState
<1>4. TypeOK'
  BY <1>1 DEF TypeInv, TypeOK, appState, requests
<1> QED  BY <1>3, <1>4 DEF TypeInv

\* A route begins with a list that has each field once.
LEMMA StartConfigTyped ==
  ASSUME IndInv', TypeInv, NEW name, NEW todo, StartConfig(name, todo), WritesOnce(todo)
  PROVE  TypeInv'
<1>1. /\ name \in Operations /\ changes < MaxChanges /\ changes' = changes + 1
      /\ (\E i \in DOMAIN todo : todo[i] = SwapCache) => live.cache < MaxGenerations
      /\ configOp'.name = name /\ configOp'.todo = todo
      /\ UNCHANGED <<appState, requests, overridesOp, refresh>>
  BY DEF StartConfig
<1>2. TodoIsSpare' /\ SwapsHaveRoom'
  BY <1>1 DEF TypeInv, TodoIsSpare, SwapsHaveRoom, appState
<1> QED  BY <1>1, <1>2, StartTyped DEF TypeInv, TypeOK

\* One write; one after another of another field.
LEMMA ShortTodos ==
  /\ \A w : WritesOnce(<<w>>)
  /\ \A v, w : \A first \in {<<>>, <<v>>} :
        v.field # w.field => WritesOnce(first \o <<w>>) /\ WritesOnce(<<w>> \o first)
<1>1. ASSUME NEW w PROVE WritesOnce(<<w>>)
  BY DEF WritesOnce
<1>2. ASSUME NEW v, NEW w, NEW first \in {<<>>, <<v>>}, v.field # w.field
      PROVE  WritesOnce(first \o <<w>>) /\ WritesOnce(<<w>> \o first)
  <2> DEFINE S == {v, w}
  <2>1. /\ <<>> \in Seq(S) /\ <<v>> \in Seq(S) /\ <<w>> \in Seq(S)
        /\ Len(<<>>) = 0 /\ Len(<<v>>) = 1 /\ Len(<<w>>) = 1
    BY EmptySeq
  <2>2. CASE first = <<>>
    BY <1>1, <2>1, <2>2, ConcatEmptySeq
  <2>3. CASE first = <<v>>
    <3>1. /\ DOMAIN (<<v>> \o <<w>>) = 1 .. 2 /\ DOMAIN (<<w>> \o <<v>>) = 1 .. 2
          /\ (<<v>> \o <<w>>)[1] = v /\ (<<v>> \o <<w>>)[2] = w
          /\ (<<w>> \o <<v>>)[1] = w /\ (<<w>> \o <<v>>)[2] = v
      BY <2>1, ConcatProperties, LenProperties
    <3> QED  BY <1>2, <2>3, <3>1 DEF WritesOnce
  <2> QED  BY <2>2, <2>3
<1> QED  BY <1>1, <1>2

\* Every operation's list has each field once.
LEMMA StartTypeStep == ASSUME IndInv', TypeInv, StartOperation PROVE TypeInv'
<1>1. CASE ApplyAdminConfig
  BY <1>1, StartConfigTyped, ShortTodos DEF ApplyAdminConfig
<1>2. CASE ApplyCacheConfig
  BY <1>2, StartConfigTyped, ShortTodos DEF ApplyCacheConfig
<1>3. CASE ApplyGeoipChange
  BY <1>3, StartConfigTyped, ShortTodos DEF ApplyGeoipChange
<1>4. CASE ApplyProviderChange
  <2>1. PICK after \in SUBSET Voters :
           StartConfig("providers",
               (IF after # live.providers THEN <<Invalidate(Domains)>> ELSE <<>>)
                  \o <<Write("providers", after)>>)
    BY <1>4 DEF ApplyProviderChange
  <2> DEFINE first == IF after # live.providers THEN <<Invalidate(Domains)>> ELSE <<>>
             w == Write("providers", after)
             v == Invalidate(Domains)
  <2>2. v.field # w.field /\ first \in {<<>>, <<v>>}
    BY DEF Invalidate, Write
  <2>3. StartConfig("providers", first \o <<w>>)
    BY <2>1
  <2> HIDE DEF first, w, v
  <2>4. WritesOnce(first \o <<w>>)
    BY <2>2, ShortTodos
  <2> QED  BY <2>3, <2>4, StartConfigTyped
<1>5. CASE ApplyRatingFilterChange
  <2>1. PICK new \in [enabled : BOOLEAN, lists : SUBSET Lists] :
           StartConfig("rating",
               <<Write("ratingConfig", new)>>
                  \o (IF new.enabled /\ new # live.ratingConfig THEN <<SwapCache>> ELSE <<>>))
    BY <1>5 DEF ApplyRatingFilterChange
  <2> DEFINE last == IF new.enabled /\ new # live.ratingConfig THEN <<SwapCache>> ELSE <<>>
             w == Write("ratingConfig", new)
             v == SwapCache
  <2>2. v.field # w.field /\ last \in {<<>>, <<v>>}
    BY DEF SwapCache, Write
  <2>3. StartConfig("rating", <<w>> \o last)
    BY <2>1
  <2> HIDE DEF last, w, v
  <2>4. WritesOnce(<<w>> \o last)
    BY <2>2, ShortTodos
  <2> QED  BY <2>3, <2>4, StartConfigTyped
<1>6. CASE ApplyOverridesChange
  <2>1. PICK d \in Domains, kind \in {"none", "allow", "block"} :
           overridesOp' = [name |-> "overrides",
                           todo |-> <<Write("overrides", [live.overrides EXCEPT ![d] = kind]),
                                      Invalidate({d})>>]
    BY <1>6 DEF ApplyOverridesChange
  <2> DEFINE v == Write("overrides", [live.overrides EXCEPT ![d] = kind])
             w == Invalidate({d})
  <2>2. /\ v.field = "overrides" /\ v.kind # "swap" /\ w.field = "cache" /\ w.kind # "swap"
    BY DEF Write, Invalidate
  <2>3. overridesOp'.name = "overrides" /\ overridesOp'.todo = <<v, w>>
    BY <2>1
  <2> HIDE DEF v, w
  <2>4. /\ changes < MaxChanges /\ changes' = changes + 1
        /\ UNCHANGED <<appState, requests, configOp, refresh>>
    BY <1>6 DEF ApplyOverridesChange
  <2>5. TodoIsSpare' /\ SwapsHaveRoom'
    BY <2>2, <2>3, <2>4 DEF TypeInv, TodoIsSpare, SwapsHaveRoom, appState
  <2> QED  BY <2>3, <2>4, <2>5, StartTyped DEF TypeInv, TypeOK
<1>7. CASE ApplyAdminReset
  <2>1. PICK file \in Files :
           StartConfig("reset",
               <<Write("runtime", file.runtime), Write("providers", file.providers),
                 Write("overrides", file.overrides), SwapCache,
                 Write("countries", file.countries),
                 Write("ratingConfig", file.ratingConfig)>>)
    BY <1>7 DEF ApplyAdminReset
  <2>2. ASSUME NEW a, NEW b, NEW c, NEW d, NEW e, NEW f, a.field = "runtime",
               b.field = "providers", c.field = "overrides", d.field = "cache",
               e.field = "countries", f.field = "ratingConfig"
        PROVE  WritesOnce(<<a, b, c, d, e, f>>)
    BY <2>2 DEF WritesOnce
  <2>3. \A field, value : Write(field, value).field = field
    BY DEF Write
  <2>4. SwapCache.field = "cache"
    BY DEF SwapCache
  <2> QED  BY <2>1, <2>2, <2>3, <2>4, StartConfigTyped
<1> QED  BY <1>1, <1>2, <1>3, <1>4, <1>5, <1>6, <1>7 DEF StartOperation

\* The background writes one field, none of it judged by but the zone.
LEMMA BackgroundTypeStep == ASSUME IndInv', TypeInv, Background PROVE TypeInv'
<1>1. TypeOK /\ live \in SettingsType /\ visits \subseteq Domains
  BY DEF TypeInv, TypeOK
<1>2. ASSUME live' \in SettingsType, live'.cache = live.cache,
             UNCHANGED <<ver, born, visits, configOp, overridesOp, refresh, requests>>,
             caches' \in [Generations -> [Domains -> EntryType]],
             changes' \in 0 .. MaxChanges, changes' >= changes
      PROVE  TypeInv'
  <2>1. TypeOK'
    BY <1>1, <1>2 DEF TypeOK, requests
  <2>2. \A f \in JudgedBy : ver[f] \in Nat
    BY <1>1, CountsAre DEF TypeOK
  <2>3. changes \in Nat /\ changes' \in Nat
    BY <1>1, <1>2, BoundsAssumption DEF TypeOK
  <2>4. WritesAreCounted'
    BY <1>2, <2>2, <2>3 DEF TypeInv, WritesAreCounted, Owes
  <2>5. TodoIsSpare' /\ SwapsHaveRoom'
    BY <1>2 DEF TypeInv, TodoIsSpare, SwapsHaveRoom
  <2> QED  BY <2>1, <2>4, <2>5 DEF TypeInv
<1>3. ASSUME NEW name, NEW f, NEW value, Publish(name, f, value), f # "cache",
             [live EXCEPT ![f] = value] \in SettingsType
      PROVE  TypeInv'
  <2>1. /\ live' = [live EXCEPT ![f] = value] /\ changes < MaxChanges /\ changes' = changes + 1
        /\ UNCHANGED <<ver, caches, born, visits, requests, configOp, overridesOp, refresh>>
    BY <1>3 DEF Publish
  <2>2. changes' \in 0 .. MaxChanges /\ changes' >= changes
    BY <1>1, <2>1, BoundsAssumption DEF TypeOK
  <2>3. live'.cache = live.cache
    BY <1>1, <1>3, <2>1 DEF SettingsType
  <2> QED  BY <1>1, <1>2, <1>3, <2>1, <2>2, <2>3 DEF TypeOK
<1>4. CASE PauseTick
  <2>1. PICK paused \in BOOLEAN : Publish("pause", "paused", paused)
    BY <1>4 DEF PauseTick
  <2>2. [live EXCEPT !["paused"] = paused] \in SettingsType
    BY <1>1 DEF SettingsType
  <2> QED  BY <1>3, <2>1, <2>2
<1>5. CASE ProbeCycle
  <2>1. PICK offline \in BOOLEAN : Publish("probe", "offline", offline)
    BY <1>5 DEF ProbeCycle
  <2>2. [live EXCEPT !["offline"] = offline] \in SettingsType
    BY <1>1 DEF SettingsType
  <2> QED  BY <1>3, <2>1, <2>2
<1>6. CASE BundlesRefreshed
  <2>1. PICK b \in SUBSET Domains : Publish("bundles", "bundles", b)
    BY <1>6 DEF BundlesRefreshed
  <2>2. [live EXCEPT !["bundles"] = b] \in SettingsType
    BY <1>1 DEF SettingsType
  <2> QED  BY <1>3, <2>1, <2>2
<1>7. CASE RefreshStart
  <2>1. /\ changes < MaxChanges /\ changes' = changes + 1
        /\ refresh' = [running |-> TRUE, lists |-> live.ratingConfig.lists]
        /\ UNCHANGED <<appState, requests, configOp, overridesOp>>
    BY <1>7 DEF RefreshStart
  <2>2. refresh' \in [running : BOOLEAN, lists : SUBSET Lists]
    BY <1>1, <2>1 DEF SettingsType
  <2>3. TodoIsSpare' /\ SwapsHaveRoom'
    BY <2>1 DEF TypeInv, TodoIsSpare, SwapsHaveRoom, appState
  <2> QED  BY <1>1, <2>1, <2>2, <2>3, StartTyped DEF TypeOK
<1>8. CASE RefreshPublish
  <2>1. PICK loaded \in SUBSET refresh.lists :
           live' = [live EXCEPT !.zone = UNION {ListZone[l] : l \in loaded}]
    BY <1>8 DEF RefreshPublish
  <2>2. /\ refresh.running /\ refresh' = NoRefresh /\ ver' = [ver EXCEPT !["zone"] = @ + 1]
        /\ UNCHANGED <<caches, born, visits, requests, changes, configOp, overridesOp>>
    BY <1>8 DEF RefreshPublish
  <2>3. UNION {ListZone[l] : l \in loaded} \in SUBSET Domains
    BY <1>1, ListZoneAssumption DEF TypeOK
  <2>4. live' \in SettingsType /\ live'.cache = live.cache
    BY <1>1, <2>1, <2>3 DEF SettingsType
  <2>5. "zone" \in JudgedBy /\ ver["zone"] < changes
    BY <2>2 DEF TypeInv, WritesAreCounted, JudgedBy
  <2>6. \A f \in JudgedBy : ver[f] \in Nat /\ ver[f] <= changes
    BY <1>1, CountsAre DEF TypeOK, TypeInv, WritesAreCounted
  <2>7. changes \in Nat /\ changes <= MaxChanges
    BY <1>1, BoundsAssumption DEF TypeOK
  <2>8. \A f \in JudgedBy : /\ ver'[f] \in Nat /\ ver'[f] <= changes
                            /\ f # "zone" => ver'[f] = ver[f]
    BY <1>1, <2>2, <2>5, <2>6, <2>7 DEF TypeOK
  <2>9. ver' \in [JudgedBy -> CountOfWrites]
    <3>1. \A f \in JudgedBy : ver'[f] \in CountOfWrites
      BY <2>7, <2>8, CountsAre, BoundsAssumption
    <3> QED  BY <1>1, <2>2, <3>1 DEF TypeOK
  <2>10. TypeOK'
    BY <1>1, <2>2, <2>4, <2>9 DEF TypeOK, NoRefresh, requests
  <2>11. ~Owes(configOp, "zone")
    <3>1. Pending(configOp)'
      BY DEF IndInv, Typed
    <3>2. \A i \in DOMAIN configOp.todo : configOp.todo[i] \in Steps
      BY <2>2, <3>1 DEF Pending, Idle
    <3>3. \A w \in Steps : w.field # "zone"
      BY DEF Steps, Write, Invalidate, SwapCache
    <3> QED  BY <3>2, <3>3 DEF Owes
  <2>12. WritesAreCounted'
    BY <2>2, <2>8, <2>11 DEF TypeInv, WritesAreCounted, Owes, NoRefresh
  <2>13. TodoIsSpare' /\ SwapsHaveRoom'
    BY <2>2, <2>4 DEF TypeInv, TodoIsSpare, SwapsHaveRoom
  <2> QED  BY <2>10, <2>12, <2>13 DEF TypeInv
<1>9. CASE PersonalRefresh
  <2>1. PICK zone \in SUBSET visits : live' = [live EXCEPT !.personal = zone]
    BY <1>9 DEF PersonalRefresh
  <2>2. live' \in SettingsType /\ live'.cache = live.cache
    BY <1>1, <2>1 DEF SettingsType
  <2> QED  BY <1>1, <1>2, <1>9, <2>2 DEF PersonalRefresh, writers, TypeOK
<1>10. ASSUME NEW d \in Domains, Expire(d) PROVE TypeInv'
  <2> DEFINE row == [caches[live.cache] EXCEPT ![d] = NoEntry]
  <2>1. caches' = [caches EXCEPT ![live.cache] = row]
        /\ UNCHANGED <<live, ver, born, visits, writers, requests>>
    BY <1>10 DEF Expire
  <2>2. live.cache \in Generations
    BY <1>1 DEF SettingsType
  <2>3. row \in [Domains -> EntryType]
    BY <1>1, <2>2, CountsAre DEF TypeOK
  <2> HIDE DEF row
  <2>4. caches' \in [Generations -> [Domains -> EntryType]]
    BY <1>1, <2>1, <2>3 DEF TypeOK
  <2> QED  BY <1>1, <1>2, <2>1, <2>4 DEF TypeOK, writers
<1> QED
  BY <1>4, <1>5, <1>6, <1>7, <1>8, <1>9, <1>10 DEF Background

(***************************************************************************)
(* Every reachable state is well typed (TypeOK): settings, snapshots,      *)
(* verdicts and caches are what `handle_query` and the routes may make of  *)
(* them, no swap goes past the generations there are, and no judged setting*)
(* is written more often than operations have begun.                       *)
(***************************************************************************)
THEOREM TypeCorrect == Spec => []TypeOK
<1>1. ASSUME IndInv, IndInv', TypeInv, [Next]_vars PROVE TypeInv'
  <2>1. CASE UNCHANGED vars
    BY <1>1, <2>1 DEF vars, appState, writers, requests, TypeInv, TypeOK, WritesAreCounted,
                     TodoIsSpare, SwapsHaveRoom, Owes
  <2>2. CASE Next
    BY <1>1, <2>2, QueryTypeStep, StartTypeStep, ConfigTypeStep, OverridesTypeStep,
       BackgroundTypeStep DEF Next
  <2> QED  BY <1>1, <2>1, <2>2
<1>2. TypeInv => TypeOK
  BY DEF TypeInv
<1> QED  BY <1>1, <1>2, InitTypeInv, Invariance, PTL DEF Spec
=============================================================================
