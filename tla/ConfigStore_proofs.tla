------------------------- MODULE ConfigStore_proofs -------------------------
(***************************************************************************)
(* What the settings routes, reset, the user's editor, failures, crashes   *)
(* and starts keep, for any requests side by side and any bounds: the locks*)
(* are held by exactly those who work under them, and what is in memory, on*)
(* disk and answered agrees but for what a route is about to save.         *)
(***************************************************************************)
EXTENDS ConfigStore, FiniteSetTheorems, TLAPS

LockNames == {"geoip", "persist", "overrides"}
Phases == {"down", "log", "cache", "removals", "zone", "up"}
SourceKinds == {"default", "key"}
Loaded == [source : SourceKinds, config : Config, overrides : Overrides]

\* The locks a request has taken so far, in its order.
Holds(q, lock) == \E n \in 1 .. q.held : Locks(q.kind)[n] = lock

At(q, step, held) == q.step = step /\ q.held = held

\* How far a handler may be, with how many locks, and with what in its hands.
Working(q) ==
    CASE q.kind \in SectionRoutes ->
            /\ q.value \in Choices(q.kind)
            /\ At(q, "lock", 0) \/ At(q, "apply", 1) \/ At(q, "save", 1)
      [] q.kind = "overrides" ->
            \/ (At(q, "lock", 0) \/ At(q, "apply", 1)) /\ q.value \in BOOLEAN
            \/ At(q, "save", 1) /\ q.value \in Overrides
      [] q.kind \in {"maxmind", "clear"} ->
            /\ q.value = IF q.kind = "maxmind" THEN "key" ELSE None
            /\ At(q, "lock", 0) \/ At(q, "apply", 1) \/ At(q, "source", 1)
      [] q.kind = "reset" ->
            \/ At(q, "lock", 0) \/ At(q, "credentials", 1)
            \/ /\ At(q, "lock", 1) \/ At(q, "lock", 2) \/ At(q, "apply", 3)
               /\ q.value \in [source : SourceKinds]
            \/ At(q, "commit", 3) /\ q.value \in Loaded
      [] OTHER -> FALSE
RequestShape(q) ==
    /\ q = [kind |-> q.kind, step |-> q.step, held |-> q.held, value |-> q.value]
    /\ IF q.kind = None THEN q = Idle ELSE Working(q)

LocksInv ==
    /\ request = [r \in Requests |-> request[r]]
    /\ \A r \in Requests : RequestShape(request[r]) /\ (request[r].kind # None => phase = "up")
    /\ locks \in [LockNames -> Requests \cup {None}]
    /\ \A r \in Requests : \A l \in LockNames : locks[l] = r <=> Holds(request[r], l)

StateTyped ==
    /\ phase \in Phases
    /\ live \in Config /\ startup \in Config /\ config \in Config \cup {Broken}
    /\ overrides \in Overrides /\ overridesFile \in Overrides \cup {Broken}
    /\ source \in SourceKinds /\ creds \in {None, "key"}
    /\ health \in {"not applicable", "pending", "accepted", "rejected"}
    /\ wake \in SUBSET {"bundles", "geoip"}
    /\ drift \in [{"config", "overrides", "creds"} -> BOOLEAN] /\ typos \in BOOLEAN
    /\ acked = [s \in SectionRoutes |-> acked[s]]
    /\ scenario \in Scenarios /\ disturbances \in 0 .. MaxDisturbances[scenario]

\* About to save a section, the lists, or to take over the credentials; or about to
\* put in force what a reset has loaded.
SavesSection(q) == q.kind \in SectionRoutes /\ q.step = "save"
SavesOverrides(q) == q.kind = "overrides" /\ q.step = "save"
TakesSource(q) == q.kind \in {"maxmind", "clear"} /\ q.step = "source"
Commits(q) == q.kind = "reset" /\ q.step = "commit"

(***************************************************************************)
(* resolver_config.toml: a route saves what it has put in force, a reset   *)
(* puts in force what is still on disk unless the user edits it meanwhile, *)
(* and what has been answered `persisted` is in force and on disk, unless  *)
(* the same section is about to be saved again.                            *)
(***************************************************************************)
PersistInv ==
    /\ live.fixed = startup.fixed
    /\ \A r \in Requests : SavesSection(request[r]) => live[request[r].kind] = request[r].value
    /\ \A r \in Requests : Commits(request[r]) =>
          /\ drift.config \/ request[r].value.config = config
          /\ \A s \in SectionRoutes : \A v \in acked[s] : request[r].value.config[s] = v
    /\ phase # "down" /\ ~drift.config =>
          \/ [config EXCEPT !.fixed = startup.fixed] = live
          \/ \E r \in Requests : SavesSection(request[r])
    /\ phase # "down" =>
          \A s \in SectionRoutes : \A v \in acked[s] :
             live[s] = v \/ \E r \in Requests : SavesSection(request[r]) /\ request[r].kind = s
    /\ AcknowledgedIsOnDisk

\* overrides.toml, likewise, with the lines not understood.
OverridesInv ==
    /\ \A r \in Requests : SavesOverrides(request[r]) => request[r].value = overrides
    /\ \A r \in Requests : Commits(request[r]) =>
          /\ drift.overrides \/ request[r].value.overrides = overridesFile
          /\ typos => request[r].value.overrides.typo
    /\ phase # "down" /\ ~drift.overrides =>
          overridesFile = overrides \/ \E r \in Requests : SavesOverrides(request[r])
    /\ phase # "down" /\ typos =>
          overrides.typo \/ \E r \in Requests : Commits(request[r])
    /\ TyposSurvive

\* The credentials, which a route stores before it takes them over.
GeoipInv ==
    /\ \A r \in Requests : TakesSource(request[r]) /\ request[r].kind = "maxmind" => creds = "key"
    /\ phase # "down" /\ ~drift.creds =>
          SourceOf(creds) = source \/ \E r \in Requests : TakesSource(request[r])

ConfigInv == LocksInv /\ StateTyped /\ PersistInv /\ OverridesInv /\ GeoipInv

-----------------------------------------------------------------------------
\* The locks of each kind of route.
LEMMA LocksAre ==
  /\ \A k \in SectionRoutes : Locks(k) = <<"persist">>
  /\ Locks("overrides") = <<"overrides">>
  /\ Locks("maxmind") = <<"geoip">> /\ Locks("clear") = <<"geoip">>
  /\ Locks("reset") = <<"geoip", "persist", "overrides">>
  BY DEF Locks, SectionRoutes

\* Which locks a request has, by its kind and how many it has taken.
LEMMA HoldsAre ==
  ASSUME NEW q, RequestShape(q), NEW l \in LockNames
  PROVE  Holds(q, l) <=>
            \/ q.kind \in SectionRoutes /\ q.held = 1 /\ l = "persist"
            \/ q.kind = "overrides" /\ q.held = 1 /\ l = "overrides"
            \/ q.kind \in {"maxmind", "clear"} /\ q.held = 1 /\ l = "geoip"
            \/ /\ q.kind = "reset"
               /\ \/ q.held \in {1, 2, 3} /\ l = "geoip"
                  \/ q.held \in {2, 3} /\ l = "persist"
                  \/ q.held = 3 /\ l = "overrides"
<1>1. CASE q = Idle
  <2>1. q.kind = None /\ q.held = 0
    BY <1>1 DEF Idle
  <2> QED  BY <2>1 DEF Holds, None, SectionRoutes
<1>2. CASE q.kind \in SectionRoutes /\ Working(q)
  <2>1. q.held \in {0, 1} /\ Locks(q.kind) = <<"persist">>
    BY <1>2, LocksAre DEF Working, At
  <2>2. q.held = 0 \/ q.held = 1
    BY <2>1
  <2>3. Holds(q, l) <=> q.held = 1 /\ l = "persist"
    BY <2>1, <2>2 DEF Holds
  <2> QED  BY <1>2, <2>3 DEF SectionRoutes
<1>3. CASE q.kind = "overrides" /\ Working(q)
  <2>1. (q.held = 0 \/ q.held = 1) /\ Locks(q.kind) = <<"overrides">>
    BY <1>3, LocksAre DEF Working, At, SectionRoutes
  <2>2. Holds(q, l) <=> q.held = 1 /\ l = "overrides"
    BY <2>1 DEF Holds
  <2> QED  BY <1>3, <2>2 DEF SectionRoutes
<1>4. CASE q.kind \in {"maxmind", "clear"} /\ Working(q)
  <2>1. (q.held = 0 \/ q.held = 1) /\ Locks(q.kind) = <<"geoip">>
    BY <1>4, LocksAre DEF Working, At, SectionRoutes
  <2>2. Holds(q, l) <=> q.held = 1 /\ l = "geoip"
    BY <2>1 DEF Holds
  <2> QED  BY <1>4, <2>2 DEF SectionRoutes
<1>5. CASE q.kind = "reset" /\ Working(q)
  <2>1. /\ q.held = 0 \/ q.held = 1 \/ q.held = 2 \/ q.held = 3
        /\ Locks(q.kind) = <<"geoip", "persist", "overrides">>
    BY <1>5, LocksAre DEF Working, At, SectionRoutes
  <2>2. Locks(q.kind)[1] = "geoip" /\ Locks(q.kind)[2] = "persist"
        /\ Locks(q.kind)[3] = "overrides"
    BY <2>1
  <2>3. CASE q.held = 0
    BY <1>5, <2>3 DEF Holds, SectionRoutes
  <2>4. CASE q.held = 1
    BY <1>5, <2>2, <2>4 DEF Holds, SectionRoutes
  <2>5. CASE q.held = 2
    BY <1>5, <2>2, <2>5 DEF Holds, SectionRoutes
  <2>6. CASE q.held = 3
    <3>1. Holds(q, l) <=> l = "geoip" \/ l = "persist" \/ l = "overrides"
      BY <2>2, <2>6 DEF Holds
    <3> QED  BY <1>5, <2>6, <3>1 DEF SectionRoutes
  <2> QED  BY <2>1, <2>3, <2>4, <2>5, <2>6
<1> QED  BY <1>1, <1>2, <1>3, <1>4, <1>5 DEF RequestShape, Working

\* A lock is one request's, and whoever works under one has it.
LEMMA Exclusive ==
  ASSUME LocksInv, NEW r \in Requests, NEW q \in Requests, NEW l \in LockNames,
         Holds(request[r], l), Holds(request[q], l)
  PROVE  r = q
  BY DEF LocksInv

\* Who is at work on which file holds its lock.
LEMMA WorkersHold ==
  ASSUME LocksInv, NEW r \in Requests
  PROVE  /\ request[r].kind \in SectionRoutes /\ request[r].step \in {"apply", "save"} =>
               Holds(request[r], "persist")
         /\ request[r].kind = "overrides" /\ request[r].step \in {"apply", "save"} =>
               Holds(request[r], "overrides")
         /\ request[r].kind \in {"maxmind", "clear"} /\ request[r].step \in {"apply", "source"} =>
               Holds(request[r], "geoip")
         /\ request[r].kind = "reset" /\ request[r].step \in {"apply", "commit"} =>
               \A l \in LockNames : Holds(request[r], l)
<1> DEFINE q == request[r]
<1>1. RequestShape(q)
  BY DEF LocksInv
<1> HIDE DEF q
<1>2. "persist" \in LockNames /\ "overrides" \in LockNames /\ "geoip" \in LockNames
  BY DEF LockNames
<1>3. CASE q = Idle
  BY <1>3 DEF Idle, None, SectionRoutes, q
<1>4. CASE Working(q)
  <2>1. /\ q.kind \in SectionRoutes /\ q.step \in {"apply", "save"} => q.held = 1
        /\ q.kind = "overrides" /\ q.step \in {"apply", "save"} => q.held = 1
        /\ q.kind \in {"maxmind", "clear"} /\ q.step \in {"apply", "source"} => q.held = 1
        /\ q.kind = "reset" /\ q.step \in {"apply", "commit"} => q.held = 3
    BY <1>4 DEF Working, At, SectionRoutes
  <2> QED  BY <1>1, <1>2, <2>1, HoldsAre DEF q, LockNames
<1> QED  BY <1>1, <1>3, <1>4 DEF RequestShape

-----------------------------------------------------------------------------
(* Locks. *)

\* A request as it is but for its step and locks.
LEMMA ChangedHeld ==
  ASSUME NEW q, q = [kind |-> q.kind, step |-> q.step, held |-> q.held, value |-> q.value],
         NEW held, NEW step
  PROVE  [q EXCEPT !.held = held, !.step = step]
            = [kind |-> q.kind, step |-> step, held |-> held, value |-> q.value]
<1> DEFINE k == q.kind  s == q.step  h == q.held  v == q.value
           first == [q EXCEPT !.held = held]
<1>1. q = [kind |-> k, step |-> s, held |-> h, value |-> v]
  OBVIOUS
<1> HIDE DEF k, s, h, v
<1>2. first = [kind |-> k, step |-> s, held |-> held, value |-> v]
  BY <1>1
<1>3. [q EXCEPT !.held = held, !.step = step] = [first EXCEPT !.step = step]
  OBVIOUS
<1> HIDE DEF first
<1>4. [first EXCEPT !.step = step] = [kind |-> k, step |-> step, held |-> held, value |-> v]
  BY <1>2
<1> QED  BY <1>3, <1>4 DEF k, s, h, v

\* A request as it is but for its step and value.
LEMMA ChangedValue ==
  ASSUME NEW q, q = [kind |-> q.kind, step |-> q.step, held |-> q.held, value |-> q.value],
         NEW step, NEW value
  PROVE  [q EXCEPT !.step = step, !.value = value]
            = [kind |-> q.kind, step |-> step, held |-> q.held, value |-> value]
<1> DEFINE k == q.kind  s == q.step  h == q.held  v == q.value
           first == [q EXCEPT !.step = step]
<1>1. q = [kind |-> k, step |-> s, held |-> h, value |-> v]
  OBVIOUS
<1> HIDE DEF k, s, h, v
<1>2. first = [kind |-> k, step |-> step, held |-> h, value |-> v]
  BY <1>1
<1>3. [q EXCEPT !.step = step, !.value = value] = [first EXCEPT !.value = value]
  OBVIOUS
<1> HIDE DEF first
<1>4. [first EXCEPT !.value = value] = [kind |-> k, step |-> step, held |-> h, value |-> value]
  BY <1>2
<1> QED  BY <1>3, <1>4 DEF k, s, h, v

\* A request as it is but for its step.
LEMMA ChangedStep ==
  ASSUME NEW q, q = [kind |-> q.kind, step |-> q.step, held |-> q.held, value |-> q.value],
         NEW step
  PROVE  [q EXCEPT !.step = step]
            = [kind |-> q.kind, step |-> step, held |-> q.held, value |-> q.value]
<1> DEFINE k == q.kind  s == q.step  h == q.held  v == q.value
<1>1. q = [kind |-> k, step |-> s, held |-> h, value |-> v]
  OBVIOUS
<1> HIDE DEF k, s, h, v
<1>2. [q EXCEPT !.step = step] = [kind |-> k, step |-> step, held |-> h, value |-> v]
  BY <1>1
<1> QED  BY <1>2 DEF k, s, h, v

\* One request goes on under the locks it has.
LEMMA GoesOnLocks ==
  ASSUME LocksInv, NEW r \in Requests, NEW now, RequestShape(now),
         now.kind = request[r].kind, now.held = request[r].held, request[r].kind # None,
         request' = [request EXCEPT ![r] = now], UNCHANGED <<locks, phase>>
  PROVE  LocksInv'
<1>1. /\ request' = [q \in Requests |-> request'[q]]
      /\ request'[r] = now /\ \A q \in Requests : q # r => request'[q] = request[q]
  BY DEF LocksInv
<1>2. \A q \in Requests : RequestShape(request'[q]) /\ (request'[q].kind # None => phase' = "up")
  BY <1>1 DEF LocksInv
<1>3. \A q \in Requests : \A l \in LockNames : Holds(request'[q], l) <=> Holds(request[q], l)
  BY <1>1 DEF Holds
<1> QED  BY <1>1, <1>2, <1>3 DEF LocksInv

\* One answers, and lets go of what it has.
LEMMA AnswersLocks ==
  ASSUME LocksInv, NEW r \in Requests, Answers(r), UNCHANGED phase
  PROVE  LocksInv' /\ request' = [request EXCEPT ![r] = Idle]
<1>1. /\ request' = [request EXCEPT ![r] = Idle]
      /\ locks' = [l \in DOMAIN locks |-> IF locks[l] = r THEN None ELSE locks[l]]
  BY DEF Answers
<1>2. /\ request' = [q \in Requests |-> request'[q]]
      /\ request'[r] = Idle /\ \A q \in Requests : q # r => request'[q] = request[q]
  BY <1>1 DEF LocksInv
<1>3. RequestShape(Idle) /\ Idle.kind = None /\ \A l \in LockNames : ~Holds(Idle, l)
  BY DEF RequestShape, Idle, Holds
<1>4. \A q \in Requests : RequestShape(request'[q]) /\ (request'[q].kind # None => phase' = "up")
  BY <1>2, <1>3 DEF LocksInv
<1>5. locks' \in [LockNames -> Requests \cup {None}]
  BY <1>1 DEF LocksInv
<1>6. ASSUME NEW q \in Requests, NEW l \in LockNames
      PROVE  locks'[l] = q <=> Holds(request'[q], l)
  <2>1. locks'[l] = IF locks[l] = r THEN None ELSE locks[l]
    BY <1>1 DEF LocksInv
  <2>2. CASE q = r
    BY <1>2, <1>3, <2>1, <2>2, RequestsAssumption
  <2>3. CASE q # r
    BY <1>2, <2>1, <2>3, RequestsAssumption DEF LocksInv
  <2> QED  BY <2>2, <2>3
<1> QED  BY <1>1, <1>2, <1>4, <1>5, <1>6 DEF LocksInv

\* A request arrives without a lock.
LEMMA PostLocks ==
  ASSUME LocksInv, NEW r \in Requests, NEW kind, NEW value, Post(r, kind, value),
         RequestShape([kind |-> kind, step |-> "lock", held |-> 0, value |-> value])
  PROVE  LocksInv'
<1> DEFINE now == [kind |-> kind, step |-> "lock", held |-> 0, value |-> value]
<1>1. /\ request' = [request EXCEPT ![r] = now] /\ phase = "up" /\ request[r].kind = None
      /\ UNCHANGED <<locks, phase>>
  BY DEF Post, memory
<1>2. now.held = 0
  OBVIOUS
<1> HIDE DEF now
<1>3. /\ request' = [q \in Requests |-> request'[q]]
      /\ request'[r] = now /\ \A q \in Requests : q # r => request'[q] = request[q]
  BY <1>1 DEF LocksInv
<1>4. RequestShape(now)
  BY DEF now
<1>5. \A q \in Requests : RequestShape(request'[q]) /\ (request'[q].kind # None => phase' = "up")
  BY <1>1, <1>3, <1>4 DEF LocksInv
<1>6. request[r] = Idle
  BY <1>1 DEF LocksInv, RequestShape
<1>7. \A l \in LockNames : ~Holds(now, l) /\ ~Holds(request[r], l)
  BY <1>2, <1>6 DEF Holds, Idle
<1>8. \A q \in Requests : \A l \in LockNames : Holds(request'[q], l) <=> Holds(request[q], l)
  BY <1>3, <1>7
<1> QED  BY <1>1, <1>3, <1>5, <1>8 DEF LocksInv

\* What a request that waits for a lock becomes when it gets it.
LEMMA AcquireFacts ==
  ASSUME LocksInv, NEW r \in Requests, Acquire(r)
  PROVE  \E lock \in LockNames : \E now :
            /\ request' = [request EXCEPT ![r] = now]
            /\ locks[lock] = None /\ locks' = [locks EXCEPT ![lock] = r]
            /\ RequestShape(now) /\ now.kind = request[r].kind /\ now.kind # None
            /\ now.step \in {"lock", "credentials", "apply"} /\ request[r].step = "lock"
            /\ now.value = request[r].value
            /\ \A l \in LockNames : Holds(now, l) <=> (Holds(request[r], l) \/ l = lock)
<1> DEFINE q == request[r]
           n == q.held + 1
           lock == Locks(q.kind)[n]
           step == IF n = 1 /\ q.kind = "reset" THEN "credentials"
                   ELSE IF n < Len(Locks(q.kind)) THEN "lock" ELSE "apply"
           now == [kind |-> q.kind, step |-> step, held |-> n, value |-> q.value]
<1>1. RequestShape(q) /\ q.step = "lock"
  BY DEF LocksInv, Acquire
<1>2. Working(q) /\ q.kind # None
  BY <1>1 DEF RequestShape, Idle, None
<1>3. locks[lock] = None /\ locks' = [locks EXCEPT ![lock] = r]
  BY DEF Acquire
<1>4. request' = [request EXCEPT ![r] = now]
  <2>1. q = [kind |-> q.kind, step |-> q.step, held |-> q.held, value |-> q.value]
    BY <1>1 DEF RequestShape
  <2>2. request' = [request EXCEPT ![r].held = n, ![r].step = step]
    BY DEF Acquire
  <2>3. request' = [request EXCEPT ![r] = [q EXCEPT !.held = n, !.step = step]]
    BY <2>2 DEF LocksInv
  <2> HIDE DEF n, step, q
  <2>4. [q EXCEPT !.held = n, !.step = step]
           = [kind |-> q.kind, step |-> step, held |-> n, value |-> q.value]
    BY <2>1, ChangedHeld
  <2> QED  BY <2>3, <2>4 DEF q
<1>5. /\ now.kind = q.kind /\ now.step = step /\ now.held = n /\ now.value = q.value
      /\ now = [kind |-> now.kind, step |-> now.step, held |-> now.held, value |-> now.value]
  OBVIOUS
<1>6. /\ Holds(now, "geoip") \in BOOLEAN
      /\ lock \in LockNames /\ Working(now)
      /\ step \in {"lock", "credentials", "apply"}
      /\ \A l \in LockNames : Holds(now, l) <=> (Holds(q, l) \/ l = lock)
  <2> HIDE DEF q, now
  <2>1. CASE q.kind \in SectionRoutes
    <3>1. q.held = 0 /\ q.value \in Choices(q.kind) /\ Locks(q.kind) = <<"persist">>
      BY <1>1, <1>2, <2>1, LocksAre DEF Working, At
    <3>2. n = 1 /\ step = "apply" /\ lock = "persist"
      <4>1. n = 1 /\ q.kind # "reset" /\ Len(Locks(q.kind)) = 1 /\ Locks(q.kind)[1] = "persist"
        BY <2>1, <3>1 DEF SectionRoutes
      <4> HIDE DEF n
      <4> QED  BY <4>1
    <3> HIDE DEF n, step, lock
    <3>3. Working(now)
      <4>1. now.kind = q.kind /\ now.value \in Choices(now.kind)
        BY <1>5, <3>1
      <4>2. At(now, "apply", 1)
        BY <1>5, <3>2 DEF At
      <4> QED  BY <2>1, <4>1, <4>2 DEF Working, SectionRoutes
    <3>4. RequestShape(now)
      BY <1>2, <1>5, <3>3 DEF RequestShape
    <3> QED  BY <1>1, <1>5, <2>1, <3>1, <3>2, <3>3, <3>4, HoldsAre
                DEF LockNames, SectionRoutes, Holds
  <2>2. CASE q.kind = "overrides"
    <3>1. q.held = 0 /\ q.value \in BOOLEAN /\ Locks(q.kind) = <<"overrides">>
      BY <1>1, <1>2, <2>2, LocksAre DEF Working, At, SectionRoutes
    <3>2. n = 1 /\ step = "apply" /\ lock = "overrides"
      <4>1. n = 1 /\ q.kind # "reset" /\ Len(Locks(q.kind)) = 1 /\ Locks(q.kind)[1] = "overrides"
        BY <2>2, <3>1
      <4> HIDE DEF n
      <4> QED  BY <4>1
    <3> HIDE DEF n, step, lock
    <3>3. Working(now)
      BY <1>5, <2>2, <3>1, <3>2 DEF Working, At, SectionRoutes
    <3>4. RequestShape(now)
      BY <1>2, <1>5, <3>3 DEF RequestShape
    <3> QED  BY <1>1, <1>5, <2>2, <3>1, <3>2, <3>3, <3>4, HoldsAre
                DEF LockNames, SectionRoutes, Holds
  <2>3. CASE q.kind \in {"maxmind", "clear"}
    <3>1. /\ q.held = 0 /\ Locks(q.kind) = <<"geoip">>
          /\ q.value = IF q.kind = "maxmind" THEN "key" ELSE None
      BY <1>1, <1>2, <2>3, LocksAre DEF Working, At, SectionRoutes
    <3>2. n = 1 /\ step = "apply" /\ lock = "geoip"
      <4>1. n = 1 /\ q.kind # "reset" /\ Len(Locks(q.kind)) = 1 /\ Locks(q.kind)[1] = "geoip"
        BY <2>3, <3>1
      <4> HIDE DEF n
      <4> QED  BY <4>1
    <3> HIDE DEF n, step, lock
    <3>3. Working(now)
      BY <1>5, <2>3, <3>1, <3>2 DEF Working, At, SectionRoutes
    <3>4. RequestShape(now)
      BY <1>2, <1>5, <3>3 DEF RequestShape
    <3> QED  BY <1>1, <1>5, <2>3, <3>1, <3>2, <3>3, <3>4, HoldsAre
                DEF LockNames, SectionRoutes, Holds
  <2>4. CASE q.kind = "reset"
    <3>1. /\ q.held = 0 \/ q.held = 1 \/ q.held = 2
          /\ q.held # 0 => q.value \in [source : SourceKinds]
          /\ Locks(q.kind) = <<"geoip", "persist", "overrides">>
      BY <1>1, <1>2, <2>4, LocksAre DEF Working, At, SectionRoutes
    <3>2. /\ n = q.held + 1
          /\ q.held = 0 => n = 1 /\ step = "credentials" /\ lock = "geoip"
          /\ q.held = 1 => n = 2 /\ step = "lock" /\ lock = "persist"
          /\ q.held = 2 => n = 3 /\ step = "apply" /\ lock = "overrides"
      BY <2>4, <3>1
    <3> HIDE DEF n, step, lock
    <3>3. Working(now)
      BY <1>5, <2>4, <3>1, <3>2 DEF Working, At, SectionRoutes
    <3>4. RequestShape(now)
      BY <1>2, <1>5, <3>3 DEF RequestShape
    <3> QED  BY <1>1, <1>5, <2>4, <3>1, <3>2, <3>3, <3>4, HoldsAre
                DEF LockNames, SectionRoutes, Holds
  <2> QED  BY <1>2, <2>1, <2>2, <2>3, <2>4 DEF Working
<1>7. RequestShape(now)
  BY <1>2, <1>5, <1>6 DEF RequestShape
<1> HIDE DEF now, lock
<1> QED
  BY <1>1, <1>2, <1>3, <1>4, <1>5, <1>6, <1>7

\* It has one lock more, which nobody had.
LEMMA AcquireLocks == ASSUME LocksInv, NEW r \in Requests, Acquire(r) PROVE LocksInv'
<1>1. PICK lock \in LockNames : \E now :
            /\ request' = [request EXCEPT ![r] = now]
            /\ locks[lock] = None /\ locks' = [locks EXCEPT ![lock] = r]
            /\ RequestShape(now) /\ now.kind = request[r].kind /\ now.kind # None
            /\ \A l \in LockNames : Holds(now, l) <=> (Holds(request[r], l) \/ l = lock)
  BY AcquireFacts
<1>2. PICK now :
            /\ request' = [request EXCEPT ![r] = now]
            /\ locks[lock] = None /\ locks' = [locks EXCEPT ![lock] = r]
            /\ RequestShape(now) /\ now.kind = request[r].kind /\ now.kind # None
            /\ \A l \in LockNames : Holds(now, l) <=> (Holds(request[r], l) \/ l = lock)
  BY <1>1
<1>3. /\ request' = [q \in Requests |-> request'[q]]
      /\ request'[r] = now /\ \A q \in Requests : q # r => request'[q] = request[q]
  BY <1>2 DEF LocksInv
<1>4. phase' = phase
  BY DEF Acquire, memory
<1>5. \A q \in Requests : RequestShape(request'[q]) /\ (request'[q].kind # None => phase' = "up")
  BY <1>2, <1>3, <1>4 DEF LocksInv
<1>6. locks' \in [LockNames -> Requests \cup {None}]
  BY <1>2 DEF LocksInv
<1>7. ASSUME NEW q \in Requests, NEW l \in LockNames
      PROVE  locks'[l] = q <=> Holds(request'[q], l)
  <2>1. locks[l] = q <=> Holds(request[q], l)
    BY DEF LocksInv
  <2>2. locks'[l] = IF l = lock THEN r ELSE locks[l]
    BY <1>2 DEF LocksInv
  <2>3. l = lock => locks[l] # q
    BY <1>2, RequestsAssumption
  <2> QED  BY <1>2, <1>3, <2>1, <2>2, <2>3
<1> QED  BY <1>3, <1>5, <1>6, <1>7 DEF LocksInv

-----------------------------------------------------------------------------
(* What a step does not concern. *)

\* Of a request: it is as it was, or neither was nor is about to do any of it.
Apart(Busy(_)) ==
    \A q \in Requests : request'[q] = request[q] \/ ~(Busy(request[q]) \/ Busy(request'[q]))
PersistBusy(q) == SavesSection(q) \/ Commits(q)
OverridesBusy(q) == SavesOverrides(q) \/ Commits(q)

\* Nobody touches the sections, their file or what was answered of them.
LEMMA PersistFrame ==
  ASSUME PersistInv, phase' # "down" => phase # "down",
         UNCHANGED <<live, startup, config, acked>>, drift'.config = drift.config,
         Apart(PersistBusy)
  PROVE  PersistInv'
<1>1. /\ \A r \in Requests : SavesSection(request'[r]) =>
             SavesSection(request[r]) /\ request'[r] = request[r]
      /\ \A r \in Requests : SavesSection(request[r]) =>
             SavesSection(request'[r]) /\ request'[r] = request[r]
      /\ \A r \in Requests : Commits(request'[r]) =>
             Commits(request[r]) /\ request'[r] = request[r]
  BY DEF Apart, PersistBusy
<1>2. /\ \A r \in Requests : SavesSection(request'[r]) =>
             live'[request'[r].kind] = request'[r].value
      /\ live'.fixed = startup'.fixed
  BY <1>1 DEF PersistInv
<1>3. \A r \in Requests : Commits(request'[r]) =>
          /\ drift'.config \/ request'[r].value.config = config'
          /\ \A s \in SectionRoutes : \A v \in acked'[s] : request'[r].value.config[s] = v
  BY <1>1 DEF PersistInv
<1>4. phase' # "down" /\ ~drift'.config =>
          \/ [config' EXCEPT !.fixed = startup'.fixed] = live'
          \/ \E r \in Requests : SavesSection(request'[r])
  BY <1>1 DEF PersistInv
<1>5. phase' # "down" =>
          \A s \in SectionRoutes : \A v \in acked'[s] :
             \/ live'[s] = v
             \/ \E r \in Requests : SavesSection(request'[r]) /\ request'[r].kind = s
  BY <1>1 DEF PersistInv
<1>6. AcknowledgedIsOnDisk'
  BY DEF PersistInv, AcknowledgedIsOnDisk
<1> QED  BY <1>2, <1>3, <1>4, <1>5, <1>6 DEF PersistInv, SavesSection, Commits

\* Nobody touches the lists or their file.
LEMMA OverridesFrame ==
  ASSUME OverridesInv, phase' # "down" => phase # "down",
         UNCHANGED <<overrides, overridesFile, typos>>, drift'.overrides = drift.overrides,
         Apart(OverridesBusy)
  PROVE  OverridesInv'
<1>1. /\ \A r \in Requests : SavesOverrides(request'[r]) =>
             SavesOverrides(request[r]) /\ request'[r] = request[r]
      /\ \A r \in Requests : SavesOverrides(request[r]) => SavesOverrides(request'[r])
      /\ \A r \in Requests : Commits(request'[r]) =>
             Commits(request[r]) /\ request'[r] = request[r]
      /\ \A r \in Requests : Commits(request[r]) => Commits(request'[r])
  BY DEF Apart, OverridesBusy
<1>2. TyposSurvive'
  BY DEF OverridesInv, TyposSurvive
<1> QED  BY <1>1, <1>2 DEF OverridesInv, SavesOverrides, Commits

\* Nobody touches the credentials or the source.
LEMMA GeoipFrame ==
  ASSUME GeoipInv, phase' # "down" => phase # "down",
         UNCHANGED <<source, creds>>, drift'.creds = drift.creds, Apart(TakesSource)
  PROVE  GeoipInv'
<1>1. /\ \A r \in Requests : TakesSource(request'[r]) =>
             TakesSource(request[r]) /\ request'[r] = request[r]
      /\ \A r \in Requests : TakesSource(request[r]) => TakesSource(request'[r])
  BY DEF Apart
<1> QED  BY <1>1 DEF GeoipInv, TakesSource, SourceOf

-----------------------------------------------------------------------------
(* Requests and their locks. *)


\* One more disturbance is within the bound.
LEMMA DisturbTyped ==
  ASSUME StateTyped, NEW k, Disturb(k) \/ UNCHANGED disturbances, UNCHANGED scenario
  PROVE  disturbances' \in 0 .. MaxDisturbances[scenario]
<1>1. MaxDisturbances[scenario] \in Nat /\ disturbances \in 0 .. MaxDisturbances[scenario]
  BY BoundAssumption DEF StateTyped
<1>2. disturbances' = disturbances \/ (disturbances < MaxDisturbances[scenario]
                                        /\ disturbances' = disturbances + 1)
  BY DEF Disturb
<1> QED  BY <1>1, <1>2

\* A request arrives, and changes nothing yet.
LEMMA PostStep ==
  ASSUME ConfigInv, NEW r \in Requests, NEW kind, NEW value, Post(r, kind, value),
         RequestShape([kind |-> kind, step |-> "lock", held |-> 0, value |-> value])
  PROVE  ConfigInv'
<1> USE DEF ConfigInv
<1> DEFINE now == [kind |-> kind, step |-> "lock", held |-> 0, value |-> value]
<1>1. LocksInv'
  BY PostLocks
<1>2. /\ request' = [request EXCEPT ![r] = now] /\ now.step = "lock" /\ request[r].kind = None
      /\ UNCHANGED <<memory, wake, disk, notes, scenario>>
      /\ Disturb(kind)
  BY DEF Post
<1> HIDE DEF now
<1>3. StateTyped'
  <2>1. disturbances' \in 0 .. MaxDisturbances[scenario]
    BY <1>2, DisturbTyped
  <2> QED  BY <1>2, <2>1 DEF StateTyped, memory, disk, notes
<1>4. /\ ~PersistBusy(request[r]) /\ ~OverridesBusy(request[r]) /\ ~TakesSource(request[r])
      /\ ~PersistBusy(now) /\ ~OverridesBusy(now) /\ ~TakesSource(now)
  BY <1>2 DEF PersistBusy, OverridesBusy, TakesSource, SavesSection, SavesOverrides, Commits,
              SectionRoutes, None
<1>5. request'[r] = now /\ \A q \in Requests : q # r => request'[q] = request[q]
  BY <1>2 DEF LocksInv
<1>6. Apart(PersistBusy) /\ Apart(OverridesBusy) /\ Apart(TakesSource)
  BY <1>4, <1>5 DEF Apart
<1>7. PersistInv' /\ OverridesInv' /\ GeoipInv'
  BY <1>2, <1>6, PersistFrame, OverridesFrame, GeoipFrame DEF memory, disk, notes
<1> QED  BY <1>1, <1>3, <1>7

\* A request gets a lock, and changes nothing yet.
LEMMA AcquireStep == ASSUME ConfigInv, NEW r \in Requests, Acquire(r) PROVE ConfigInv'
<1> USE DEF ConfigInv
<1>1. LocksInv'
  BY AcquireLocks
<1>2. PICK lock \in LockNames : \E now :
        /\ request' = [request EXCEPT ![r] = now]
        /\ now.step \in {"lock", "credentials", "apply"} /\ request[r].step = "lock"
  BY AcquireFacts
<1>3. PICK now : /\ request' = [request EXCEPT ![r] = now]
                 /\ now.step \in {"lock", "credentials", "apply"} /\ request[r].step = "lock"
  BY <1>2
<1>4. UNCHANGED <<memory, wake, disk, notes, bounds>>
  BY DEF Acquire
<1>5. StateTyped'
  BY <1>4 DEF StateTyped, memory, disk, notes, bounds
<1>6. /\ ~PersistBusy(request[r]) /\ ~OverridesBusy(request[r]) /\ ~TakesSource(request[r])
      /\ ~PersistBusy(now) /\ ~OverridesBusy(now) /\ ~TakesSource(now)
  BY <1>3 DEF PersistBusy, OverridesBusy, TakesSource, SavesSection, SavesOverrides, Commits
<1>7. request'[r] = now /\ \A q \in Requests : q # r => request'[q] = request[q]
  BY <1>3 DEF LocksInv
<1>8. Apart(PersistBusy) /\ Apart(OverridesBusy) /\ Apart(TakesSource)
  BY <1>6, <1>7 DEF Apart
<1>9. PersistInv' /\ OverridesInv' /\ GeoipInv'
  BY <1>4, <1>8, PersistFrame, OverridesFrame, GeoipFrame DEF memory, disk, notes
<1> QED  BY <1>1, <1>5, <1>9

\* A handler goes on with its value under its locks.
LEMMA GoesFacts ==
  ASSUME LocksInv, NEW r \in Requests, NEW step, Goes(r, step)
  PROVE  request' = [request EXCEPT ![r] = [kind |-> request[r].kind, step |-> step,
                                            held |-> request[r].held,
                                            value |-> request[r].value]]
<1>1. request' = [request EXCEPT ![r].step = step]
  BY DEF Goes
<1>2. request' = [request EXCEPT ![r] = [request[r] EXCEPT !.step = step]]
  BY <1>1 DEF LocksInv
<1>3. request[r] = [kind |-> request[r].kind, step |-> request[r].step,
                    held |-> request[r].held, value |-> request[r].value]
  BY DEF LocksInv, RequestShape
<1>4. [request[r] EXCEPT !.step = step] =
         [kind |-> request[r].kind, step |-> step,
          held |-> request[r].held, value |-> request[r].value]
  BY <1>3, ChangedStep
<1> QED  BY <1>2, <1>4

\* Whoever works on the sections does so alone.
LEMMA AloneOnSections ==
  ASSUME LocksInv, NEW r \in Requests, Holds(request[r], "persist")
  PROVE  \A q \in Requests : q # r => ~PersistBusy(request[q])
  BY WorkersHold, Exclusive DEF PersistBusy, SavesSection, Commits, LockNames

\* Whoever works on the lists does so alone.
LEMMA AloneOnOverrides ==
  ASSUME LocksInv, NEW r \in Requests, Holds(request[r], "overrides")
  PROVE  \A q \in Requests : q # r => ~OverridesBusy(request[q])
  BY WorkersHold, Exclusive DEF OverridesBusy, SavesOverrides, Commits, LockNames

\* Whoever works on the credentials does so alone.
LEMMA AloneOnGeoip ==
  ASSUME LocksInv, NEW r \in Requests, Holds(request[r], "geoip")
  PROVE  \A q \in Requests : q # r => ~TakesSource(request[q]) /\ ~Commits(request[q])
  BY WorkersHold, Exclusive DEF TakesSource, Commits, LockNames

-----------------------------------------------------------------------------
(* The sections of resolver_config.toml. *)

\* A file that does not load is not one that does.
LEMMA BrokenIsNone == Broken \notin Config /\ Broken \notin Overrides
<1>1. \A c \in Config : "runtime" \in DOMAIN c
  BY DEF Config
<1>2. \A o \in Overrides : "rule" \in DOMAIN o
  BY DEF Overrides
<1>3. "runtime" \notin DOMAIN Broken /\ "rule" \notin DOMAIN Broken
  BY DEF Broken
<1> QED  BY <1>1, <1>2, <1>3

\* What is saved of the sections is what is in force.
LEMMA LiveIsSaved ==
  ASSUME StateTyped, live.fixed = startup.fixed
  PROVE  LiveResolverConfig = live
  BY DEF StateTyped, Config, LiveResolverConfig

\* A route of a section has its value and the lock when it works.
LEMMA SectionRequest ==
  ASSUME ConfigInv, NEW r \in Requests, request[r].kind \in SectionRoutes,
         request[r].step \in {"apply", "save"}
  PROVE  /\ request[r].value \in Choices(request[r].kind) /\ request[r].held = 1
         /\ Holds(request[r], "persist") /\ phase = "up" /\ Working(request[r])
         /\ request[r].kind # None
<1>1. RequestShape(request[r]) /\ request[r].kind # None /\ phase = "up"
  BY DEF ConfigInv, LocksInv, SectionRoutes, None
<1>2. Working(request[r])
  BY <1>1 DEF RequestShape
<1>3. request[r].value \in Choices(request[r].kind) /\ request[r].held = 1
  BY <1>2 DEF Working, At, SectionRoutes
<1> QED  BY <1>1, <1>2, <1>3, WorkersHold DEF ConfigInv

\* A section is put in force, about to be saved.
LEMMA ApplySectionStep == ASSUME ConfigInv, NEW r \in Requests, ApplySection(r) PROVE ConfigInv'
<1> USE DEF ConfigInv
<1> DEFINE k == request[r].kind
           v == request[r].value
           now == [kind |-> k, step |-> "save", held |-> request[r].held, value |-> v]
<1>1. /\ k \in SectionRoutes /\ request[r].step = "apply"
      /\ live' = [live EXCEPT ![k] = v] /\ wake' = wake \cup ({k} \cap {"bundles"})
      /\ Goes(r, "save") /\ UNCHANGED locks
      /\ UNCHANGED <<phase, startup, overrides, source, health, disk, notes, bounds>>
  BY DEF ApplySection, Handles, Goes
<1>2. /\ v \in Choices(k) /\ request[r].held = 1 /\ Holds(request[r], "persist")
      /\ phase = "up" /\ k # None
  BY <1>1, SectionRequest
<1>3. request' = [request EXCEPT ![r] = now]
  BY <1>1, GoesFacts
<1>4. /\ now.kind = k /\ now.step = "save" /\ now.held = 1 /\ now.value = v
      /\ now = [kind |-> now.kind, step |-> now.step, held |-> now.held, value |-> now.value]
  BY <1>2
<1> HIDE DEF now
<1>5. RequestShape(now)
  <2>1. now.value \in Choices(now.kind) /\ At(now, "save", 1)
    BY <1>2, <1>4 DEF At
  <2>2. Working(now)
    BY <1>1, <1>4, <2>1 DEF Working, SectionRoutes
  <2> QED  BY <1>2, <1>4, <2>2 DEF RequestShape
<1>6. LocksInv'
  BY <1>1, <1>2, <1>3, <1>4, <1>5, GoesOnLocks
<1>7. request'[r] = now /\ \A q \in Requests : q # r => request'[q] = request[q]
  BY <1>3 DEF LocksInv
<1>8. live' \in Config /\ live'.fixed = live.fixed /\ live'[k] = v
      /\ \A s \in SectionRoutes : s # k => live'[s] = live[s]
  <2>1. live \in Config
    BY DEF StateTyped
  <2>2. CASE k = "runtime"
    BY <1>1, <1>2, <2>1, <2>2 DEF Config, Choices, SectionRoutes
  <2>3. CASE k = "rating"
    BY <1>1, <1>2, <2>1, <2>3 DEF Config, Choices, SectionRoutes
  <2>4. CASE k = "bundles"
    BY <1>1, <1>2, <2>1, <2>4 DEF Config, Choices, SectionRoutes
  <2> QED  BY <1>1, <2>2, <2>3, <2>4 DEF SectionRoutes
<1>9. StateTyped'
  BY <1>1, <1>8 DEF StateTyped, disk, notes, bounds
<1>10. \A q \in Requests : q # r => ~PersistBusy(request[q])
  BY <1>2, AloneOnSections
<1>11. SavesSection(now) /\ ~Commits(now) /\ ~SavesSection(request[r])
  BY <1>1, <1>4 DEF SavesSection, Commits, SectionRoutes
<1>12. PersistInv'
  <2>1. /\ \A q \in Requests : SavesSection(request'[q]) => q = r
        /\ \A q \in Requests : ~Commits(request'[q])
        /\ \A q \in Requests : ~SavesSection(request[q])
    BY <1>7, <1>10, <1>11 DEF PersistBusy
  <2>2. \A s \in SectionRoutes : \A w \in acked'[s] :
           live'[s] = w \/ \E q \in Requests : SavesSection(request'[q]) /\ request'[q].kind = s
    <3>1. ASSUME NEW s \in SectionRoutes, NEW w \in acked'[s], s # k PROVE live'[s] = w
      BY <1>1, <1>2, <1>8, <2>1, <3>1 DEF PersistInv, notes
    <3> QED  BY <1>4, <1>7, <1>11, <3>1
  <2>3. AcknowledgedIsOnDisk'
    BY <1>1 DEF PersistInv, AcknowledgedIsOnDisk, disk, notes
  <2>4. live'.fixed = startup'.fixed
    BY <1>1, <1>8 DEF PersistInv
  <2>5. live'[request'[r].kind] = request'[r].value
    BY <1>4, <1>7, <1>8
  <2> QED  BY <1>7, <1>11, <2>1, <2>2, <2>3, <2>4, <2>5 DEF PersistInv
<1>13. Apart(OverridesBusy) /\ Apart(TakesSource)
  BY <1>1, <1>4, <1>7, <1>11
     DEF Apart, OverridesBusy, TakesSource, SavesOverrides, Commits, SectionRoutes
<1>14. OverridesInv' /\ GeoipInv'
  BY <1>1, <1>13, OverridesFrame, GeoipFrame DEF disk, notes
<1> QED  BY <1>6, <1>9, <1>12, <1>14

\* What is in force is on disk, and answered so; or it is not saved, and answered so.
LEMMA SaveSectionStep == ASSUME ConfigInv, NEW r \in Requests, SaveSection(r) PROVE ConfigInv'
<1> USE DEF ConfigInv
<1> DEFINE k == request[r].kind
           v == request[r].value
<1>1. PICK fails \in BOOLEAN :
         /\ Outcome(fails)
         /\ config' = IF fails THEN config ELSE LiveResolverConfig
         /\ acked' = [acked EXCEPT ![k] = IF fails THEN {} ELSE {v}]
         /\ drift' = [drift EXCEPT !.config = fails]
  BY DEF SaveSection
<1>2. /\ k \in SectionRoutes /\ request[r].step = "save" /\ Answers(r)
      /\ UNCHANGED <<memory, wake, overridesFile, creds, typos, scenario>>
  BY DEF SaveSection, Handles
<1>3. Holds(request[r], "persist") /\ phase = "up" /\ v \in Choices(k)
  BY <1>2, SectionRequest
<1>4. LocksInv' /\ request' = [request EXCEPT ![r] = Idle]
  BY <1>2, AnswersLocks DEF memory
<1>5. request'[r] = Idle /\ \A q \in Requests : q # r => request'[q] = request[q]
  BY <1>4 DEF LocksInv
<1>6. LiveResolverConfig = live /\ live \in Config
  BY LiveIsSaved DEF PersistInv, StateTyped
<1>7. /\ drift'.config = fails /\ drift'.overrides = drift.overrides
      /\ drift'.creds = drift.creds
      /\ drift' \in [{"config", "overrides", "creds"} -> BOOLEAN]
  BY <1>1 DEF StateTyped
<1>8. acked' = [s \in SectionRoutes |-> acked'[s]] /\ acked'[k] = (IF fails THEN {} ELSE {v})
      /\ \A s \in SectionRoutes : s # k => acked'[s] = acked[s]
  BY <1>1, <1>2 DEF StateTyped
<1>9. StateTyped'
  <2>1. disturbances' \in 0 .. MaxDisturbances[scenario]
    BY <1>1, <1>2, DisturbTyped DEF Outcome
  <2>2. config' \in Config \cup {Broken}
    BY <1>1, <1>6 DEF StateTyped
  <2> QED  BY <1>2, <1>7, <1>8, <2>1, <2>2 DEF StateTyped, memory
<1>10. /\ \A q \in Requests : q # r => ~PersistBusy(request[q])
       /\ \A q \in Requests : ~SavesSection(request'[q]) /\ ~Commits(request'[q])
  BY <1>3, <1>5, AloneOnSections DEF PersistBusy, SavesSection, Commits, Idle, None, SectionRoutes
<1>11. live[k] = v
  BY <1>2 DEF PersistInv, SavesSection
<1>12. \A s \in SectionRoutes : \A w \in acked[s] : s # k => live[s] = w
  BY <1>3, <1>10 DEF PersistInv, PersistBusy
<1>13. PersistInv'
  <2>1. \A s \in SectionRoutes : \A w \in acked'[s] : live'[s] = w
    BY <1>2, <1>8, <1>11, <1>12 DEF memory
  <2>2. AcknowledgedIsOnDisk'
    <3>1. CASE fails
      BY <1>1, <1>8, <3>1 DEF PersistInv, AcknowledgedIsOnDisk
    <3>2. CASE ~fails
      <4>1. config' = live' /\ config' # Broken
        BY <1>1, <1>2, <1>6, <3>2, BrokenIsNone DEF memory
      <4> QED  BY <2>1, <4>1 DEF AcknowledgedIsOnDisk
    <3> QED  BY <3>1, <3>2
  <2>3. ~drift'.config => [config' EXCEPT !.fixed = startup'.fixed] = live'
    BY <1>1, <1>2, <1>6, <1>7 DEF memory, LiveResolverConfig, PersistInv
  <2> QED  BY <1>2, <1>10, <2>1, <2>2, <2>3 DEF PersistInv, memory
<1>14. Apart(OverridesBusy) /\ Apart(TakesSource)
  BY <1>2, <1>5
     DEF Apart, OverridesBusy, TakesSource, SavesOverrides, Commits, SectionRoutes, Idle, None
<1>15. OverridesInv' /\ GeoipInv'
  BY <1>2, <1>7, <1>14, OverridesFrame, GeoipFrame DEF memory
<1> QED  BY <1>4, <1>9, <1>13, <1>15

-----------------------------------------------------------------------------
(* overrides.toml and the credentials. *)

\* What a route of the lists, or of the credentials, has in its hands.
LEMMA OtherRequest ==
  ASSUME ConfigInv, NEW r \in Requests, request[r].kind # None
  PROVE  /\ RequestShape(request[r]) /\ Working(request[r]) /\ phase = "up"
         /\ request[r].kind = "overrides" /\ request[r].step = "apply" =>
               request[r].value \in BOOLEAN /\ request[r].held = 1
         /\ request[r].kind = "overrides" /\ request[r].step = "save" =>
               request[r].value \in Overrides /\ request[r].held = 1
         /\ request[r].kind \in {"maxmind", "clear"} =>
               request[r].value = IF request[r].kind = "maxmind" THEN "key" ELSE None
         /\ request[r].kind \in {"maxmind", "clear"} /\ request[r].step # "lock" =>
               request[r].held = 1
<1>1. RequestShape(request[r]) /\ Working(request[r]) /\ phase = "up"
  BY DEF ConfigInv, LocksInv, RequestShape
<1> QED  BY <1>1 DEF Working, At, SectionRoutes

\* A rule is put in force, about to be saved with the lists as they are then.
LEMMA ApplyOverridesStep ==
  ASSUME ConfigInv, NEW r \in Requests, ApplyOverrides(r) PROVE ConfigInv'
<1> USE DEF ConfigInv
<1> DEFINE lists == [overrides EXCEPT !.rule = request[r].value]
           now == [kind |-> "overrides", step |-> "save", held |-> 1, value |-> lists]
<1>1. /\ request[r].kind = "overrides" /\ request[r].step = "apply"
      /\ overrides' = lists
      /\ request' = [request EXCEPT ![r].step = "save", ![r].value = lists]
      /\ UNCHANGED <<phase, live, startup, source, health, wake, disk, locks, notes, bounds>>
  BY DEF ApplyOverrides, Handles
<1>2. request[r].kind # None
  BY <1>1 DEF None
<1>3. /\ request[r].value \in BOOLEAN /\ request[r].held = 1 /\ RequestShape(request[r])
      /\ Holds(request[r], "overrides") /\ phase = "up"
  BY <1>1, <1>2, OtherRequest, WorkersHold
<1>4. lists \in Overrides /\ lists.typo = overrides.typo
  BY <1>3 DEF StateTyped, Overrides
<1>5. request' = [request EXCEPT ![r] = now]
  <2> HIDE DEF lists
  <2>1. request' = [request EXCEPT ![r] = [request[r] EXCEPT !.step = "save", !.value = lists]]
    BY <1>1 DEF LocksInv
  <2>2. request[r] = [kind |-> request[r].kind, step |-> request[r].step,
                      held |-> request[r].held, value |-> request[r].value]
    BY <1>3 DEF RequestShape
  <2>3. [request[r] EXCEPT !.step = "save", !.value = lists]
           = [kind |-> request[r].kind, step |-> "save",
              held |-> request[r].held, value |-> lists]
    BY <2>2, ChangedValue
  <2> QED  BY <1>1, <1>3, <2>1, <2>3
<1> HIDE DEF lists
<1>6. /\ now.kind = "overrides" /\ now.step = "save" /\ now.held = 1 /\ now.value = lists
      /\ now = [kind |-> now.kind, step |-> now.step, held |-> now.held, value |-> now.value]
  OBVIOUS
<1> HIDE DEF now
<1>7. RequestShape(now)
  BY <1>4, <1>6 DEF RequestShape, Working, At, SectionRoutes, None
<1>8. LocksInv'
  BY <1>1, <1>2, <1>3, <1>5, <1>6, <1>7, GoesOnLocks
<1>9. request'[r] = now /\ \A q \in Requests : q # r => request'[q] = request[q]
  BY <1>5 DEF LocksInv
<1>10. StateTyped'
  BY <1>1, <1>4 DEF StateTyped, disk, notes, bounds
<1>11. /\ \A q \in Requests : q # r => ~OverridesBusy(request[q])
       /\ ~OverridesBusy(request[r]) /\ ~Commits(now) /\ SavesOverrides(now)
  BY <1>1, <1>3, <1>6, AloneOnOverrides DEF OverridesBusy, SavesOverrides, Commits
<1>12. OverridesInv'
  <2>1. /\ \A q \in Requests : SavesOverrides(request'[q]) => q = r
        /\ \A q \in Requests : ~Commits(request'[q]) /\ ~Commits(request[q])
    BY <1>9, <1>11 DEF OverridesBusy
  <2>2. TyposSurvive'
    BY <1>1 DEF OverridesInv, TyposSurvive, disk, notes
  <2>3. phase' # "down" /\ typos' => overrides'.typo
    BY <1>1, <1>3, <1>4, <2>1 DEF OverridesInv, notes
  <2> QED  BY <1>1, <1>6, <1>9, <1>11, <2>1, <2>2, <2>3 DEF OverridesInv
<1>13. Apart(PersistBusy) /\ Apart(TakesSource)
  BY <1>1, <1>6, <1>9 DEF Apart, PersistBusy, TakesSource, SavesSection, Commits, SectionRoutes
<1>14. PersistInv' /\ GeoipInv'
  BY <1>1, <1>13, PersistFrame, GeoipFrame DEF disk, notes
<1> QED  BY <1>8, <1>10, <1>12, <1>14

\* The lists in force are on disk, with the lines not understood; or they are not.
LEMMA SaveOverridesStep ==
  ASSUME ConfigInv, NEW r \in Requests, SaveOverrides(r) PROVE ConfigInv'
<1> USE DEF ConfigInv
<1>1. PICK fails \in BOOLEAN :
         /\ Outcome(fails)
         /\ overridesFile' = IF fails THEN overridesFile ELSE request[r].value
         /\ drift' = [drift EXCEPT !.overrides = fails]
  BY DEF SaveOverrides
<1>2. /\ request[r].kind = "overrides" /\ request[r].step = "save" /\ Answers(r)
      /\ UNCHANGED <<memory, wake, config, creds, acked, typos, scenario>>
  BY DEF SaveOverrides, Handles
<1>3. /\ Holds(request[r], "overrides") /\ phase = "up" /\ request[r].value \in Overrides
      /\ request[r].value = overrides
  BY <1>2, OtherRequest, WorkersHold DEF None, OverridesInv, SavesOverrides
<1>4. LocksInv' /\ request' = [request EXCEPT ![r] = Idle]
  BY <1>2, AnswersLocks DEF memory
<1>5. request'[r] = Idle /\ \A q \in Requests : q # r => request'[q] = request[q]
  BY <1>4 DEF LocksInv
<1>6. /\ drift'.overrides = fails /\ drift'.config = drift.config
      /\ drift'.creds = drift.creds
      /\ drift' \in [{"config", "overrides", "creds"} -> BOOLEAN]
  BY <1>1 DEF StateTyped
<1>7. StateTyped'
  <2>1. disturbances' \in 0 .. MaxDisturbances[scenario]
    BY <1>1, <1>2, DisturbTyped DEF Outcome
  <2> QED  BY <1>1, <1>2, <1>3, <1>6, <2>1 DEF StateTyped, memory
<1>8. /\ \A q \in Requests : q # r => ~OverridesBusy(request[q])
      /\ ~Commits(request[r])
      /\ \A q \in Requests : ~SavesOverrides(request'[q]) /\ ~Commits(request'[q])
  BY <1>2, <1>3, <1>5, AloneOnOverrides DEF OverridesBusy, SavesOverrides, Commits, Idle, None
<1>9. typos => overrides.typo
  BY <1>3, <1>8 DEF OverridesInv, OverridesBusy
<1>10. OverridesInv'
  <2>1. TyposSurvive'
    BY <1>1, <1>2, <1>3, <1>9, BrokenIsNone DEF OverridesInv, TyposSurvive
  <2>2. ~drift'.overrides => overridesFile' = overrides'
    BY <1>1, <1>2, <1>3, <1>6 DEF memory
  <2> QED  BY <1>2, <1>8, <1>9, <2>1, <2>2 DEF OverridesInv, memory
<1>11. Apart(PersistBusy) /\ Apart(TakesSource)
  BY <1>2, <1>5
     DEF Apart, PersistBusy, TakesSource, SavesSection, Commits, SectionRoutes, Idle, None
<1>12. PersistInv' /\ GeoipInv'
  BY <1>2, <1>6, <1>11, PersistFrame, GeoipFrame DEF memory
<1> QED  BY <1>4, <1>7, <1>10, <1>12

\* The credentials are stored or deleted; the source they give is taken next.
LEMMA StoreCredentialsStep ==
  ASSUME ConfigInv, NEW r \in Requests, StoreCredentials(r) PROVE ConfigInv'
<1> USE DEF ConfigInv
<1>1. PICK fails \in BOOLEAN :
         /\ Outcome(fails)
         /\ creds' = IF fails THEN creds
                     ELSE IF request[r].kind = "clear" THEN None ELSE request[r].value
         /\ drift' = [drift EXCEPT !.creds = IF fails THEN TRUE ELSE @]
         /\ IF fails /\ request[r].kind = "maxmind" THEN Answers(r) ELSE Goes(r, "source")
  BY DEF StoreCredentials
<1>2. /\ request[r].kind \in {"maxmind", "clear"} /\ request[r].step = "apply"
      /\ UNCHANGED <<memory, wake, config, overridesFile, acked, typos, scenario>>
  BY DEF StoreCredentials, Handles
<1>3. request[r].kind # None
  BY <1>2 DEF None
<1>4. /\ Holds(request[r], "geoip") /\ phase = "up" /\ request[r].held = 1
      /\ request[r].value = IF request[r].kind = "maxmind" THEN "key" ELSE None
  BY <1>2, <1>3, OtherRequest, WorkersHold
<1>5. /\ drift'.overrides = drift.overrides /\ drift'.config = drift.config
      /\ drift' \in [{"config", "overrides", "creds"} -> BOOLEAN]
      /\ creds' \in {None, "key"}
      /\ fails => drift'.creds
      /\ request[r].kind = "maxmind" /\ ~fails => creds' = "key"
  BY <1>1, <1>4 DEF StateTyped
<1>6. StateTyped'
  <2>1. disturbances' \in 0 .. MaxDisturbances[scenario]
    BY <1>1, <1>2, DisturbTyped DEF Outcome
  <2> QED  BY <1>2, <1>5, <2>1 DEF StateTyped, memory
<1>7. \E now : /\ LocksInv' /\ request' = [request EXCEPT ![r] = now]
               /\ \/ now = Idle /\ fails
                  \/ /\ TakesSource(now) /\ ~Commits(now)
                     /\ now.kind = "maxmind" => creds' = "key"
                     /\ now.kind = request[r].kind
  <2>1. CASE fails /\ request[r].kind = "maxmind"
    BY <1>1, <1>2, <2>1, AnswersLocks DEF memory
  <2>2. CASE ~(fails /\ request[r].kind = "maxmind")
    <3> DEFINE now == [kind |-> request[r].kind, step |-> "source", held |-> request[r].held,
                       value |-> request[r].value]
    <3>1. request' = [request EXCEPT ![r] = now] /\ UNCHANGED <<locks, phase>>
      BY <1>1, <1>2, <2>2, GoesFacts DEF Goes, memory
    <3>2. /\ now.kind = request[r].kind /\ now.step = "source" /\ now.held = 1
          /\ now.value = request[r].value
          /\ now = [kind |-> now.kind, step |-> now.step, held |-> now.held,
                    value |-> now.value]
      BY <1>4
    <3> HIDE DEF now
    <3>3. RequestShape(now)
      BY <1>2, <1>3, <1>4, <3>2 DEF RequestShape, Working, At, SectionRoutes
    <3>4. LocksInv'
      BY <1>3, <1>4, <3>1, <3>2, <3>3, GoesOnLocks
    <3> QED  BY <1>2, <1>5, <2>2, <3>1, <3>2, <3>4 DEF TakesSource, Commits
  <2> QED  BY <2>1, <2>2
<1>8. PICK now : /\ LocksInv' /\ request' = [request EXCEPT ![r] = now]
                 /\ \/ now = Idle /\ fails
                    \/ /\ TakesSource(now) /\ ~Commits(now)
                       /\ now.kind = "maxmind" => creds' = "key"
                       /\ now.kind = request[r].kind
  BY <1>7
<1>9. request'[r] = now /\ \A q \in Requests : q # r => request'[q] = request[q]
  BY <1>8 DEF LocksInv
<1>10. \A q \in Requests : q # r => ~TakesSource(request[q]) /\ ~TakesSource(request'[q])
  BY <1>4, <1>9, AloneOnGeoip
<1>11. GeoipInv'
  <2>1. CASE now = Idle /\ fails
    BY <1>5, <1>9, <1>10, <2>1 DEF GeoipInv, TakesSource, Idle, None
  <2>2. CASE TakesSource(now) /\ (now.kind = "maxmind" => creds' = "key")
    BY <1>9, <1>10, <2>2 DEF GeoipInv, TakesSource
  <2> QED  BY <1>8, <2>1, <2>2
<1>12. Apart(PersistBusy) /\ Apart(OverridesBusy)
  BY <1>2, <1>8, <1>9
     DEF Apart, PersistBusy, OverridesBusy, SavesSection, SavesOverrides, Commits, TakesSource,
         SectionRoutes, Idle, None
<1>13. PersistInv' /\ OverridesInv'
  BY <1>2, <1>5, <1>12, PersistFrame, OverridesFrame DEF memory
<1> QED  BY <1>6, <1>8, <1>11, <1>13

\* The source is that of the credentials stored; if it is not, drift says so.
LEMMA UpdateSourceStep ==
  ASSUME ConfigInv, NEW r \in Requests, UpdateSource(r) PROVE ConfigInv'
<1> USE DEF ConfigInv
<1>1. PICK missed \in BOOLEAN :
         /\ Outcome(missed)
         /\ source' = IF missed THEN source
                      ELSE IF request[r].kind = "clear" THEN "default" ELSE creds
         /\ health' = IF missed THEN health ELSE HealthOf(source')
         /\ wake' = IF missed THEN wake ELSE wake \cup {"geoip"}
         /\ drift' = [drift EXCEPT !.creds = missed \/ SourceOf(creds) # source']
  BY DEF UpdateSource
<1>2. /\ request[r].kind \in {"maxmind", "clear"} /\ request[r].step = "source" /\ Answers(r)
      /\ UNCHANGED <<phase, live, startup, overrides, disk, acked, typos, scenario>>
  BY DEF UpdateSource, Handles
<1>3. Holds(request[r], "geoip") /\ phase = "up" /\ TakesSource(request[r])
  BY <1>2, OtherRequest, WorkersHold DEF None, TakesSource
<1>4. LocksInv' /\ request' = [request EXCEPT ![r] = Idle]
  BY <1>2, AnswersLocks
<1>5. request'[r] = Idle /\ \A q \in Requests : q # r => request'[q] = request[q]
  BY <1>4 DEF LocksInv
<1>6. /\ drift'.overrides = drift.overrides /\ drift'.config = drift.config
      /\ drift' \in [{"config", "overrides", "creds"} -> BOOLEAN]
      /\ ~drift'.creds => SourceOf(creds) = source'
  BY <1>1 DEF StateTyped
<1>7. StateTyped'
  <2>1. disturbances' \in 0 .. MaxDisturbances[scenario]
    BY <1>1, <1>2, DisturbTyped DEF Outcome
  <2>2. source' \in SourceKinds
    BY <1>1, <1>2, <1>3 DEF StateTyped, SourceKinds, GeoipInv
  <2>3. health' \in {"not applicable", "pending", "accepted", "rejected"}
    BY <1>1 DEF StateTyped, HealthOf
  <2>4. wake' \in SUBSET {"bundles", "geoip"}
    BY <1>1 DEF StateTyped
  <2> QED  BY <1>2, <1>6, <2>1, <2>2, <2>3, <2>4 DEF StateTyped, disk
<1>8. \A q \in Requests : ~TakesSource(request'[q])
  BY <1>3, <1>5, AloneOnGeoip DEF TakesSource, Idle, None
<1>9. GeoipInv'
  BY <1>2, <1>6, <1>8 DEF GeoipInv, disk, SourceOf
<1>10. Apart(PersistBusy) /\ Apart(OverridesBusy)
  BY <1>2, <1>5
     DEF Apart, PersistBusy, OverridesBusy, SavesSection, SavesOverrides, Commits,
         SectionRoutes, Idle, None
<1>11. PersistInv' /\ OverridesInv'
  BY <1>2, <1>6, <1>10, PersistFrame, OverridesFrame DEF disk
<1> QED  BY <1>4, <1>7, <1>9, <1>11

-----------------------------------------------------------------------------
(* Reset. *)

\* The credentials are read with the first lock held; they may not be.
LEMMA ResetReadsStep ==
  ASSUME ConfigInv, NEW r \in Requests, ResetReadsCredentials(r) PROVE ConfigInv'
<1> USE DEF ConfigInv
<1>1. PICK fails \in BOOLEAN :
         /\ Outcome(fails)
         /\ request' = [request EXCEPT ![r].step = "lock",
                ![r].value = [source |-> IF fails THEN source ELSE SourceOf(creds)]]
  BY DEF ResetReadsCredentials
<1>2. /\ request[r].kind = "reset" /\ request[r].step = "credentials"
      /\ UNCHANGED <<memory, wake, disk, locks, notes, scenario>>
  BY DEF ResetReadsCredentials, Handles
<1> DEFINE origin == IF fails THEN source ELSE SourceOf(creds)
           read == [source |-> origin]
           now == [kind |-> "reset", step |-> "lock", held |-> 1, value |-> read]
<1>3. origin \in SourceKinds
  BY DEF StateTyped, SourceOf, SourceKinds
<1> HIDE DEF origin
<1>4. read \in [source : SourceKinds]
  BY <1>3
<1> HIDE DEF read
<1>5. request[r].kind # None /\ RequestShape(request[r]) /\ Working(request[r])
  BY <1>2, OtherRequest DEF None
<1>6. request[r].held = 1
  BY <1>2, <1>5 DEF Working, At, SectionRoutes
<1>7. request' = [request EXCEPT ![r] = now]
  <2>1. request' = [request EXCEPT ![r] = [request[r] EXCEPT !.step = "lock", !.value = read]]
    BY <1>1 DEF LocksInv, read, origin
  <2>2. request[r] = [kind |-> request[r].kind, step |-> request[r].step,
                      held |-> request[r].held, value |-> request[r].value]
    BY <1>5 DEF RequestShape
  <2>3. [request[r] EXCEPT !.step = "lock", !.value = read]
           = [kind |-> request[r].kind, step |-> "lock",
              held |-> request[r].held, value |-> read]
    BY <2>2, ChangedValue
  <2> QED  BY <1>2, <1>6, <2>1, <2>3
<1>8. /\ now.kind = "reset" /\ now.step = "lock" /\ now.held = 1 /\ now.value = read
      /\ now = [kind |-> now.kind, step |-> now.step, held |-> now.held, value |-> now.value]
  OBVIOUS
<1> HIDE DEF now
<1>9. RequestShape(now)
  BY <1>4, <1>8 DEF RequestShape, Working, At, SectionRoutes, None
<1>10. LocksInv'
  BY <1>2, <1>5, <1>6, <1>7, <1>8, <1>9, GoesOnLocks DEF memory
<1>11. StateTyped'
  <2>1. disturbances' \in 0 .. MaxDisturbances[scenario]
    BY <1>1, <1>2, DisturbTyped DEF Outcome
  <2> QED  BY <1>2, <2>1 DEF StateTyped, memory, disk, notes
<1>12. request'[r] = now /\ \A q \in Requests : q # r => request'[q] = request[q]
  BY <1>7 DEF LocksInv
<1>13. Apart(PersistBusy) /\ Apart(OverridesBusy) /\ Apart(TakesSource)
  BY <1>2, <1>8, <1>12
     DEF Apart, PersistBusy, OverridesBusy, TakesSource, SavesSection, SavesOverrides, Commits,
         SectionRoutes
<1>14. PersistInv' /\ OverridesInv' /\ GeoipInv'
  BY <1>2, <1>13, PersistFrame, OverridesFrame, GeoipFrame DEF memory, disk, notes
<1> QED  BY <1>10, <1>11, <1>14

\* What reset holds when it works, and that nobody else does.
LEMMA ResetRequest ==
  ASSUME ConfigInv, NEW r \in Requests, request[r].kind = "reset",
         request[r].step \in {"apply", "commit"}
  PROVE  /\ RequestShape(request[r]) /\ phase = "up" /\ request[r].held = 3
         /\ request[r].kind # None
         /\ request[r].step = "apply" => request[r].value \in [source : SourceKinds]
         /\ request[r].step = "commit" => request[r].value \in Loaded
         /\ \A q \in Requests : q # r =>
               ~PersistBusy(request[q]) /\ ~OverridesBusy(request[q]) /\ ~TakesSource(request[q])
<1>1. request[r].kind # None /\ RequestShape(request[r]) /\ Working(request[r]) /\ phase = "up"
  BY OtherRequest DEF None
<1>2. /\ request[r].held = 3
      /\ request[r].step = "apply" => request[r].value \in [source : SourceKinds]
      /\ request[r].step = "commit" => request[r].value \in Loaded
  BY <1>1 DEF Working, At, SectionRoutes
<1>3. \A l \in LockNames : Holds(request[r], l)
  BY WorkersHold DEF ConfigInv
<1>4. \A q \in Requests : q # r =>
         ~PersistBusy(request[q]) /\ ~OverridesBusy(request[q]) /\ ~TakesSource(request[q])
  BY <1>3, AloneOnSections, AloneOnOverrides, AloneOnGeoip DEF ConfigInv, LockNames
<1> QED  BY <1>1, <1>2, <1>4

\* Both files are read as they are, or one does not load and nothing is.
LEMMA ResetLoadsStep == ASSUME ConfigInv, NEW r \in Requests, ResetLoads(r) PROVE ConfigInv'
<1> USE DEF ConfigInv
<1>1. /\ request[r].kind = "reset" /\ request[r].step = "apply"
      /\ UNCHANGED <<memory, wake, disk, acked, drift, bounds>>
  BY DEF ResetLoads, Handles
<1>2. /\ RequestShape(request[r]) /\ phase = "up" /\ request[r].held = 3
      /\ request[r].kind # None /\ request[r].value \in [source : SourceKinds]
      /\ \A q \in Requests : q # r =>
            ~PersistBusy(request[q]) /\ ~OverridesBusy(request[q]) /\ ~TakesSource(request[q])
      /\ ~PersistBusy(request[r]) /\ ~OverridesBusy(request[r]) /\ ~TakesSource(request[r])
  BY <1>1, ResetRequest
     DEF PersistBusy, OverridesBusy, TakesSource, SavesSection, SavesOverrides, Commits,
         SectionRoutes
<1>3. ASSUME Broken \in {config, overridesFile} PROVE ConfigInv'
  <2>1. Answers(r) /\ typos' = typos
    BY <1>3 DEF ResetLoads
  <2>2. LocksInv' /\ request' = [request EXCEPT ![r] = Idle]
    BY <1>1, <2>1, AnswersLocks DEF memory
  <2>3. request'[r] = Idle /\ \A q \in Requests : q # r => request'[q] = request[q]
    BY <2>2 DEF LocksInv
  <2>4. Apart(PersistBusy) /\ Apart(OverridesBusy) /\ Apart(TakesSource)
    BY <1>2, <2>3
       DEF Apart, PersistBusy, OverridesBusy, TakesSource, SavesSection, SavesOverrides, Commits,
           SectionRoutes, Idle, None
  <2>5. PersistInv' /\ OverridesInv' /\ GeoipInv'
    BY <1>1, <2>1, <2>4, PersistFrame, OverridesFrame, GeoipFrame DEF memory, disk
  <2>6. StateTyped'
    BY <1>1, <2>1 DEF StateTyped, memory, disk, bounds
  <2> QED  BY <2>2, <2>5, <2>6
<1>4. ASSUME Broken \notin {config, overridesFile} PROVE ConfigInv'
  <2> DEFINE loaded == [source |-> request[r].value.source,
                        config |-> config, overrides |-> overridesFile]
             now == [kind |-> "reset", step |-> "commit", held |-> 3, value |-> loaded]
  <2>1. /\ request' = [request EXCEPT ![r].step = "commit", ![r].value = loaded]
        /\ typos' = (typos \/ overridesFile.typo) /\ UNCHANGED locks
    BY <1>4 DEF ResetLoads
  <2>2. /\ loaded \in Loaded
        /\ loaded.config = config /\ loaded.overrides = overridesFile
    BY <1>2, <1>4 DEF Loaded, StateTyped
  <2> HIDE DEF loaded
  <2>3. request' = [request EXCEPT ![r] = now]
    <3>1. request' = [request EXCEPT ![r] = [request[r] EXCEPT !.step = "commit",
                                                               !.value = loaded]]
      BY <2>1 DEF LocksInv
    <3>2. request[r] = [kind |-> request[r].kind, step |-> request[r].step,
                        held |-> request[r].held, value |-> request[r].value]
      BY <1>2 DEF RequestShape
    <3>3. [request[r] EXCEPT !.step = "commit", !.value = loaded]
             = [kind |-> request[r].kind, step |-> "commit",
                held |-> request[r].held, value |-> loaded]
      BY <3>2, ChangedValue
    <3> QED  BY <1>1, <1>2, <3>1, <3>3
  <2>4. /\ now.kind = "reset" /\ now.step = "commit" /\ now.held = 3 /\ now.value = loaded
        /\ now = [kind |-> now.kind, step |-> now.step, held |-> now.held, value |-> now.value]
    OBVIOUS
  <2> HIDE DEF now
  <2>5. RequestShape(now)
    BY <2>2, <2>4 DEF RequestShape, Working, At, SectionRoutes, None
  <2>6. LocksInv'
    BY <1>1, <1>2, <2>1, <2>3, <2>4, <2>5, GoesOnLocks DEF memory
  <2>7. request'[r] = now /\ \A q \in Requests : q # r => request'[q] = request[q]
    BY <2>3 DEF LocksInv
  <2>8. /\ Commits(now) /\ ~SavesSection(now) /\ ~SavesOverrides(now) /\ ~TakesSource(now)
        /\ \A q \in Requests : ~SavesSection(request[q]) /\ ~SavesOverrides(request[q])
                               /\ ~Commits(request[q])
    BY <1>2, <2>4
       DEF Commits, SavesSection, SavesOverrides, TakesSource, PersistBusy, OverridesBusy,
           SectionRoutes
  <2>9. /\ \A q \in Requests : Commits(request'[q]) => q = r
        /\ \A q \in Requests : ~SavesSection(request'[q]) /\ ~SavesOverrides(request'[q])
    BY <2>7, <2>8
  <2>10. StateTyped'
    <3>1. overridesFile.typo \in BOOLEAN
      BY <1>4 DEF StateTyped, Overrides
    <3> QED  BY <1>1, <2>1, <3>1 DEF StateTyped, memory, disk, bounds
  <2>11. PersistInv'
    <3>1. /\ request'[r].value.config = config'
          /\ \A s \in SectionRoutes : \A v \in acked'[s] : request'[r].value.config[s] = v
      BY <1>1, <2>2, <2>4, <2>7 DEF PersistInv, AcknowledgedIsOnDisk, disk
    <3>2. AcknowledgedIsOnDisk'
      BY <1>1 DEF PersistInv, AcknowledgedIsOnDisk, disk
    <3>3. phase' # "down" /\ ~drift'.config => [config' EXCEPT !.fixed = startup'.fixed] = live'
      BY <1>1, <2>8 DEF PersistInv, memory, disk
    <3>4. phase' # "down" => \A s \in SectionRoutes : \A v \in acked'[s] : live'[s] = v
      BY <1>1, <2>8 DEF PersistInv, memory
    <3>5. live'.fixed = startup'.fixed
      BY <1>1 DEF PersistInv, memory
    <3> QED  BY <2>9, <3>1, <3>2, <3>3, <3>4, <3>5 DEF PersistInv
  <2>12. OverridesInv'
    <3>1. typos' => overridesFile.typo /\ overridesFile # Broken
      BY <1>4, <2>1 DEF OverridesInv, TyposSurvive
    <3>2. TyposSurvive'
      BY <1>1, <3>1 DEF TyposSurvive, disk
    <3>3. ~drift'.overrides => overridesFile' = overrides'
      BY <1>1, <1>2, <2>8 DEF OverridesInv, memory, disk
    <3> QED  BY <1>1, <2>2, <2>4, <2>7, <2>8, <2>9, <3>1, <3>2, <3>3 DEF OverridesInv, disk
  <2>13. Apart(TakesSource)
    BY <1>2, <2>7, <2>8 DEF Apart
  <2>14. GeoipInv'
    BY <1>1, <2>13, GeoipFrame DEF memory, disk
  <2> QED  BY <2>6, <2>10, <2>11, <2>12, <2>14
<1> QED  BY <1>3, <1>4

\* What has been loaded is in force; a file edited meanwhile is known to differ.
LEMMA ResetCommitsStep ==
  ASSUME ConfigInv, NEW r \in Requests, ResetCommits(r) PROVE ConfigInv'
<1> USE DEF ConfigInv
<1> DEFINE loaded == request[r].value
<1>1. /\ request[r].kind = "reset" /\ request[r].step = "commit"
      /\ live' = [loaded.config EXCEPT !.fixed = startup.fixed]
      /\ overrides' = loaded.overrides /\ source' = loaded.source
      /\ health' = HealthOf(source')
      /\ drift' = [config |-> drift.config /\ config # loaded.config,
                   overrides |-> drift.overrides /\ overridesFile # loaded.overrides,
                   creds |-> SourceOf(creds) # loaded.source]
      /\ wake' = wake \cup {"bundles", "geoip"} /\ Answers(r)
      /\ UNCHANGED <<phase, startup, disk, acked, typos, bounds>>
  BY DEF ResetCommits, Handles, ResetOverrides
<1>2. /\ phase = "up" /\ loaded \in Loaded
      /\ \A q \in Requests : q # r =>
            ~PersistBusy(request[q]) /\ ~OverridesBusy(request[q]) /\ ~TakesSource(request[q])
      /\ Commits(request[r])
  BY <1>1, ResetRequest DEF Commits
<1>3. LocksInv' /\ request' = [request EXCEPT ![r] = Idle]
  BY <1>1, AnswersLocks
<1>4. request'[r] = Idle /\ \A q \in Requests : q # r => request'[q] = request[q]
  BY <1>3 DEF LocksInv
<1>5. /\ ~Commits(Idle) /\ ~SavesSection(Idle) /\ ~SavesOverrides(Idle) /\ ~TakesSource(Idle)
  BY DEF Commits, SavesSection, SavesOverrides, TakesSource, Idle, None, SectionRoutes
<1>6. \A q \in Requests : /\ ~Commits(request'[q]) /\ ~SavesSection(request'[q])
                          /\ ~SavesOverrides(request'[q]) /\ ~TakesSource(request'[q])
  BY <1>2, <1>4, <1>5 DEF PersistBusy, OverridesBusy
<1>7. /\ loaded.config \in Config /\ loaded.overrides \in Overrides
      /\ loaded.source \in SourceKinds
  BY <1>2 DEF Loaded
<1>8. /\ drift.config \/ loaded.config = config
      /\ \A s \in SectionRoutes : \A v \in acked[s] : loaded.config[s] = v
      /\ drift.overrides \/ loaded.overrides = overridesFile
      /\ typos => loaded.overrides.typo
  BY <1>2 DEF PersistInv, OverridesInv
<1> HIDE DEF loaded
<1>9. /\ live' \in Config /\ live'.fixed = startup.fixed
      /\ \A s \in SectionRoutes : live'[s] = loaded.config[s]
  BY <1>1, <1>7 DEF StateTyped, Config, SectionRoutes
<1>10. /\ drift' \in [{"config", "overrides", "creds"} -> BOOLEAN]
       /\ drift'.config \/ config = loaded.config
       /\ drift'.overrides \/ overridesFile = loaded.overrides
       /\ drift'.creds \/ SourceOf(creds) = loaded.source
  <2> DEFINE edited == drift.config /\ config # loaded.config
             rewritten == drift.overrides /\ overridesFile # loaded.overrides
             apart == SourceOf(creds) # loaded.source
  <2>1. drift' = [config |-> edited, overrides |-> rewritten, creds |-> apart]
    BY <1>1
  <2>2. edited \in BOOLEAN /\ rewritten \in BOOLEAN /\ apart \in BOOLEAN
    OBVIOUS
  <2>3. /\ edited \/ config = loaded.config
        /\ rewritten \/ overridesFile = loaded.overrides
        /\ apart \/ SourceOf(creds) = loaded.source
    BY <1>8
  <2> HIDE DEF edited, rewritten, apart
  <2>4. drift' \in [{"config", "overrides", "creds"} -> BOOLEAN]
    BY <2>1, <2>2
  <2>5. drift'.config = edited /\ drift'.overrides = rewritten /\ drift'.creds = apart
    BY <2>1
  <2> QED  BY <2>3, <2>4, <2>5
<1>11. StateTyped'
  <2>1. wake' \in SUBSET {"bundles", "geoip"}
    BY <1>1 DEF StateTyped
  <2>2. health' \in {"not applicable", "pending", "accepted", "rejected"}
    BY <1>1 DEF HealthOf
  <2> QED  BY <1>1, <1>7, <1>9, <1>10, <2>1, <2>2 DEF StateTyped, disk, bounds
<1>12. PersistInv'
  <2>1. AcknowledgedIsOnDisk'
    BY <1>1 DEF PersistInv, AcknowledgedIsOnDisk, disk
  <2>2. ~drift'.config => [config' EXCEPT !.fixed = startup'.fixed] = live'
    BY <1>1, <1>10 DEF disk
  <2>3. \A s \in SectionRoutes : \A v \in acked'[s] : live'[s] = v
    BY <1>1, <1>8, <1>9
  <2> QED  BY <1>1, <1>6, <1>9, <2>1, <2>2, <2>3 DEF PersistInv
<1>13. OverridesInv'
  <2>1. TyposSurvive'
    BY <1>1 DEF OverridesInv, TyposSurvive, disk
  <2>2. ~drift'.overrides => overridesFile' = overrides'
    BY <1>1, <1>10 DEF disk
  <2>3. typos' => overrides'.typo
    BY <1>1, <1>8
  <2> QED  BY <1>6, <2>1, <2>2, <2>3 DEF OverridesInv
<1>14. GeoipInv'
  <2>1. ~drift'.creds => SourceOf(creds') = source'
    BY <1>1, <1>10 DEF disk
  <2> QED  BY <1>6, <2>1 DEF GeoipInv, SourceOf
<1> QED  BY <1>3, <1>11, <1>12, <1>13, <1>14

-----------------------------------------------------------------------------
(* The user's editor, and starts and ends of the service. *)

\* Of a file the user has edited nothing is claimed but that it is a file.
LEMMA EditConfigStep == ASSUME ConfigInv, EditConfig PROVE ConfigInv'
<1> USE DEF ConfigInv
<1> DEFINE base == IF config = Broken THEN Default ELSE config
<1>1. /\ config' \in {Broken} \cup {[base EXCEPT ![s] = ~@] : s \in {"rating", "zone", "fixed"}}
      /\ acked' = [s \in SectionRoutes |-> {}] /\ drift' = [drift EXCEPT !.config = TRUE]
      /\ UNCHANGED <<memory, wake, overridesFile, creds, handlers, typos, scenario>>
      /\ Disturb("edit")
  BY DEF EditConfig, Edited
<1>2. base \in Config
  BY DEF StateTyped, Default, Config
<1> HIDE DEF base
<1>3. \A s \in {"rating", "zone", "fixed"} : [base EXCEPT ![s] = ~@] \in Config
  BY <1>2 DEF Config
<1>4. config' \in Config \cup {Broken}
  BY <1>1, <1>3
<1>5. /\ drift' \in [{"config", "overrides", "creds"} -> BOOLEAN] /\ drift'.config
      /\ drift'.overrides = drift.overrides /\ drift'.creds = drift.creds
  BY <1>1 DEF StateTyped
<1>6. StateTyped'
  <2>1. disturbances' \in 0 .. MaxDisturbances[scenario]
    BY <1>1, DisturbTyped
  <2> QED  BY <1>1, <1>4, <1>5, <2>1 DEF StateTyped, memory
<1>7. LocksInv'
  BY <1>1 DEF LocksInv, handlers, memory
<1>8. \A s \in SectionRoutes : acked'[s] = {}
  BY <1>1
<1>9. PersistInv'
  BY <1>1, <1>5, <1>8
     DEF PersistInv, AcknowledgedIsOnDisk, memory, handlers, SavesSection, Commits
<1>10. Apart(OverridesBusy) /\ Apart(TakesSource)
  BY <1>1 DEF Apart, handlers
<1>11. OverridesInv' /\ GeoipInv'
  BY <1>1, <1>5, <1>10, OverridesFrame, GeoipFrame DEF memory
<1> QED  BY <1>6, <1>7, <1>9, <1>11

\* The lines not understood are the user's to take out.
LEMMA EditOverridesStep == ASSUME ConfigInv, EditOverrides PROVE ConfigInv'
<1> USE DEF ConfigInv
<1>1. /\ overridesFile' \in Overrides \cup {Broken} /\ typos' = FALSE
      /\ drift' = [drift EXCEPT !.overrides = TRUE]
      /\ UNCHANGED <<memory, wake, config, creds, handlers, acked, scenario>>
      /\ Disturb("edit")
  BY DEF EditOverrides, Edited
<1>2. /\ drift' \in [{"config", "overrides", "creds"} -> BOOLEAN] /\ drift'.overrides
      /\ drift'.config = drift.config /\ drift'.creds = drift.creds
  BY <1>1 DEF StateTyped
<1>3. StateTyped'
  <2>1. disturbances' \in 0 .. MaxDisturbances[scenario]
    BY <1>1, DisturbTyped
  <2> QED  BY <1>1, <1>2, <2>1 DEF StateTyped, memory
<1>4. LocksInv'
  BY <1>1 DEF LocksInv, handlers, memory
<1>5. OverridesInv'
  BY <1>1, <1>2 DEF OverridesInv, TyposSurvive, memory, handlers, SavesOverrides, Commits
<1>6. Apart(PersistBusy) /\ Apart(TakesSource)
  BY <1>1 DEF Apart, handlers
<1>7. PersistInv' /\ GeoipInv'
  BY <1>1, <1>2, <1>6, PersistFrame, GeoipFrame DEF memory
<1> QED  BY <1>3, <1>4, <1>5, <1>7

\* A request without a handler is not at work.
LEMMA IdleFacts ==
  ~Commits(Idle) /\ ~SavesSection(Idle) /\ ~SavesOverrides(Idle) /\ ~TakesSource(Idle)
  BY DEF Commits, SavesSection, SavesOverrides, TakesSource, Idle, None, SectionRoutes

\* Memory is what the files say, and the credentials; drift knows if not.
LEMMA StartStep == ASSUME ConfigInv, Start PROVE ConfigInv'
<1> USE DEF ConfigInv
<1>1. /\ phase = "down" /\ config # Broken /\ phase' = "log"
      /\ live' = config /\ startup' = config
      /\ overrides' = IF overridesFile = Broken THEN NoOverrides ELSE overridesFile
      /\ typos' = (typos \/ overrides'.typo)
      /\ health' = HealthOf(source')
      /\ drift' = [config |-> FALSE, overrides |-> overridesFile = Broken,
                   creds |-> SourceOf(creds) # source']
      /\ wake' = {}
      /\ UNCHANGED <<disk, handlers, acked, scenario>>
  BY DEF Start
<1>2. PICK fails \in BOOLEAN : /\ Outcome(fails)
                               /\ source' = IF fails THEN "default" ELSE SourceOf(creds)
  BY DEF Start
<1>3. \A r \in Requests : request[r] = Idle
  BY <1>1 DEF LocksInv, RequestShape
<1>4. LocksInv'
  <2>1. request' = request /\ locks' = locks
    BY <1>1 DEF handlers
  <2>2. \A r \in Requests : RequestShape(request[r]) /\ request[r].kind = None
    BY <1>3 DEF LocksInv, Idle
  <2> QED  BY <2>1, <2>2 DEF LocksInv
<1>5. /\ config \in Config /\ source' \in SourceKinds /\ overrides' \in Overrides
      /\ overrides'.typo \in BOOLEAN
  <2>1. config \in Config /\ source' \in SourceKinds
    BY <1>1, <1>2 DEF StateTyped, SourceOf, SourceKinds
  <2>2. overrides' \in Overrides
    BY <1>1 DEF StateTyped, NoOverrides, Overrides
  <2> QED  BY <2>1, <2>2 DEF Overrides
<1>6. /\ drift' \in [{"config", "overrides", "creds"} -> BOOLEAN]
      /\ drift'.overrides \/ overridesFile # Broken
      /\ drift'.creds \/ SourceOf(creds) = source'
  <2> DEFINE same == FALSE
             lost == overridesFile = Broken
             apart == SourceOf(creds) # source'
  <2>1. drift' = [config |-> same, overrides |-> lost, creds |-> apart]
    BY <1>1
  <2>2. same \in BOOLEAN /\ lost \in BOOLEAN /\ apart \in BOOLEAN
    OBVIOUS
  <2>3. (lost \/ overridesFile # Broken) /\ (apart \/ SourceOf(creds) = source')
    OBVIOUS
  <2> HIDE DEF same, lost, apart
  <2>4. drift' \in [{"config", "overrides", "creds"} -> BOOLEAN]
    BY <2>1, <2>2
  <2>5. drift'.overrides = lost /\ drift'.creds = apart
    BY <2>1
  <2> QED  BY <2>3, <2>4, <2>5
<1>7. StateTyped'
  <2>1. disturbances' \in 0 .. MaxDisturbances[scenario]
    BY <1>1, <1>2, DisturbTyped DEF Outcome
  <2>2. health' \in {"not applicable", "pending", "accepted", "rejected"} /\ phase' \in Phases
    BY <1>1 DEF HealthOf, Phases
  <2>3. typos' \in BOOLEAN
    BY <1>1, <1>5 DEF StateTyped
  <2> QED  BY <1>1, <1>5, <1>6, <2>1, <2>2, <2>3 DEF StateTyped, disk
<1>8. \A r \in Requests : /\ ~Commits(request'[r]) /\ ~SavesSection(request'[r])
                          /\ ~SavesOverrides(request'[r]) /\ ~TakesSource(request'[r])
  BY <1>1, <1>3, IdleFacts DEF handlers
<1>9. PersistInv'
  <2>1. AcknowledgedIsOnDisk'
    BY <1>1 DEF PersistInv, AcknowledgedIsOnDisk, disk
  <2>2. [config' EXCEPT !.fixed = startup'.fixed] = live'
    BY <1>1, <1>5 DEF disk, Config
  <2>3. \A s \in SectionRoutes : \A v \in acked'[s] : live'[s] = v
    BY <1>1 DEF PersistInv, AcknowledgedIsOnDisk
  <2> QED  BY <1>1, <1>8, <2>1, <2>2, <2>3 DEF PersistInv
<1>10. OverridesInv'
  <2>1. overrides'.typo => overridesFile # Broken /\ overridesFile.typo
    BY <1>1 DEF NoOverrides
  <2>2. typos => overridesFile # Broken /\ overridesFile.typo /\ overrides'.typo
    BY <1>1 DEF OverridesInv, TyposSurvive
  <2>3. TyposSurvive'
    BY <1>1, <2>1, <2>2 DEF TyposSurvive, disk
  <2>4. ~drift'.overrides => overridesFile' = overrides'
    BY <1>1, <1>6 DEF disk
  <2> QED  BY <1>1, <1>8, <2>2, <2>3, <2>4 DEF OverridesInv
<1>11. GeoipInv'
  BY <1>1, <1>6, <1>8 DEF GeoipInv, disk, SourceOf
<1> QED  BY <1>4, <1>7, <1>9, <1>10, <1>11

\* What is lost is lost; what is on disk, and what was answered of it, is not.
LEMMA CrashStep == ASSUME ConfigInv, Crash PROVE ConfigInv'
<1> USE DEF ConfigInv
<1>1. /\ phase' = "down" /\ request' = [r \in Requests |-> Idle]
      /\ locks' = [l \in DOMAIN locks |-> None] /\ Disturb("crash")
      /\ UNCHANGED <<live, startup, overrides, source, health, wake, disk, notes, scenario>>
  BY DEF Crash
<1>2. LocksInv'
  <2>1. locks' = [l \in LockNames |-> None]
    BY <1>1 DEF LocksInv
  <2>2. RequestShape(Idle) /\ Idle.kind = None /\ \A l \in LockNames : ~Holds(Idle, l)
    BY DEF RequestShape, Idle, Holds
  <2> QED  BY <1>1, <2>1, <2>2, RequestsAssumption DEF LocksInv
<1>3. StateTyped'
  <2>1. disturbances' \in 0 .. MaxDisturbances[scenario] /\ phase' \in Phases
    BY <1>1, DisturbTyped DEF Phases
  <2> QED  BY <1>1, <2>1 DEF StateTyped, disk, notes
<1>4. \A r \in Requests : /\ ~Commits(request'[r]) /\ ~SavesSection(request'[r])
                          /\ ~SavesOverrides(request'[r]) /\ ~TakesSource(request'[r])
  BY <1>1, IdleFacts
<1>5. AcknowledgedIsOnDisk' /\ TyposSurvive'
  BY <1>1 DEF PersistInv, OverridesInv, AcknowledgedIsOnDisk, TyposSurvive, disk, notes
<1>6. PersistInv' /\ OverridesInv' /\ GeoipInv'
  BY <1>1, <1>4, <1>5 DEF PersistInv, OverridesInv, GeoipInv
<1> QED  BY <1>2, <1>3, <1>6

\* The other tasks of the service leave the settings alone, but for a wake, the
\* credentials' health and how far the start is.
LEMMA OtherTaskStep ==
  ASSUME ConfigInv,
         UNCHANGED <<live, startup, overrides, source, disk, handlers, notes, scenario>>,
         health' \in {"not applicable", "pending", "accepted", "rejected"},
         wake' \in SUBSET {"bundles", "geoip"},
         disturbances' \in 0 .. MaxDisturbances[scenario],
         phase' = phase \/ (phase \notin {"down", "up"} /\ phase' \in Phases \ {"down"})
  PROVE  ConfigInv'
<1> USE DEF ConfigInv
<1>1. StateTyped'
  BY DEF StateTyped, disk, notes
<1>2. phase = "up" => phase' = "up"
  OBVIOUS
<1>3. LocksInv'
  BY <1>2 DEF LocksInv, handlers
<1>4. Apart(PersistBusy) /\ Apart(OverridesBusy) /\ Apart(TakesSource)
  BY DEF Apart, handlers
<1>5. phase' # "down" => phase # "down"
  OBVIOUS
<1> QED
  BY <1>1, <1>3, <1>4, <1>5, PersistFrame, OverridesFrame, GeoipFrame DEF disk, notes

-----------------------------------------------------------------------------
(* All of it. *)

\* A service that has been up for long agrees with its files.
LEMMA ConfigInitInv == ConfigInit => ConfigInv
<1> SUFFICES ASSUME ConfigInit PROVE ConfigInv
  OBVIOUS
<1>1. /\ phase = "up" /\ scenario \in Scenarios /\ disturbances = 0
      /\ startup = live /\ config = live
      /\ overrides = NoOverrides /\ overridesFile = NoOverrides
      /\ source = "default" /\ creds = None /\ health = HealthOf(source)
      /\ wake = {}
      /\ request = [r \in Requests |-> Idle] /\ locks = [l \in LockNames |-> None]
      /\ acked = [s \in SectionRoutes |-> {}]
      /\ drift = [f \in {"config", "overrides", "creds"} |-> FALSE] /\ typos = FALSE
  BY DEF ConfigInit, LockNames
<1>2. live \in Config
  <2> DEFINE zone == "visits" \in scenario
             lists == IF "lists" \in scenario THEN Sources ELSE {}
  <2>1. live = [Default EXCEPT !.fixed = TRUE, !.zone = zone, !.bundles = lists]
    BY DEF ConfigInit
  <2>2. zone \in BOOLEAN /\ lists \in SUBSET Sources
    OBVIOUS
  <2> HIDE DEF zone, lists
  <2>3. Default \in Config
    BY DEF Default, Config
  <2> QED  BY <2>1, <2>2, <2>3 DEF Config
<1>3. LocksInv
  <2>1. RequestShape(Idle) /\ Idle.kind = None /\ \A l \in LockNames : ~Holds(Idle, l)
    BY DEF RequestShape, Idle, Holds
  <2> QED  BY <1>1, <2>1, RequestsAssumption DEF LocksInv
<1>4. StateTyped
  <2>1. MaxDisturbances[scenario] \in Nat
    BY <1>1, BoundAssumption
  <2>2. NoOverrides \in Overrides /\ source \in SourceKinds /\ phase \in Phases
        /\ health \in {"not applicable", "pending", "accepted", "rejected"}
    BY <1>1 DEF NoOverrides, Overrides, SourceKinds, Phases, HealthOf
  <2>3. /\ overridesFile \in Overrides /\ creds \in {None, "key"}
        /\ wake \in SUBSET {"bundles", "geoip"}
        /\ startup \in Config /\ config \in Config /\ typos \in BOOLEAN
    BY <1>1, <1>2, <2>2
  <2>4. drift \in [{"config", "overrides", "creds"} -> BOOLEAN]
    BY <1>1
  <2>5. acked = [s \in SectionRoutes |-> acked[s]]
    BY <1>1
  <2>6. disturbances \in 0 .. MaxDisturbances[scenario] /\ scenario \in Scenarios
    BY <1>1, <2>1
  <2> QED  BY <1>1, <1>2, <2>2, <2>3, <2>4, <2>5, <2>6 DEF StateTyped
<1>5. \A r \in Requests : /\ ~Commits(request[r]) /\ ~SavesSection(request[r])
                          /\ ~SavesOverrides(request[r]) /\ ~TakesSource(request[r])
  BY <1>1, IdleFacts
<1>6. PersistInv
  <2>1. AcknowledgedIsOnDisk
    BY <1>1 DEF AcknowledgedIsOnDisk
  <2>2. [config EXCEPT !.fixed = startup.fixed] = live
    BY <1>1, <1>2 DEF Config
  <2> QED  BY <1>1, <1>5, <2>1, <2>2 DEF PersistInv
<1>7. OverridesInv /\ GeoipInv
  BY <1>1, <1>5 DEF OverridesInv, GeoipInv, TyposSurvive, SourceOf
<1> QED  BY <1>3, <1>4, <1>6, <1>7 DEF ConfigInv

\* A request is posted with a value its route accepts.
LEMMA AdminPostStep == ASSUME ConfigInv, AdminPost PROVE ConfigInv'
<1> DEFINE free == CHOOSE q \in Requests : (\E p \in Requests : request[p].kind = None)
                                              => request[q].kind = None
<1>1. free \in Requests
  <2>1. \E q \in Requests : (\E p \in Requests : request[p].kind = None)
                               => request[q].kind = None
    BY RequestsAssumption
  <2> QED  BY <2>1
<1>2. \/ \E kind \in SectionRoutes : \E v \in Choices(kind) : Post(free, kind, v)
      \/ \E rule \in BOOLEAN : Post(free, "overrides", rule)
      \/ Post(free, "maxmind", "key")
      \/ \E kind \in {"clear", "reset"} : Post(free, kind, None)
  BY DEF AdminPost
<1> HIDE DEF free
<1>3. ASSUME NEW kind \in SectionRoutes, NEW v \in Choices(kind), Post(free, kind, v)
      PROVE  ConfigInv'
  <2> DEFINE now == [kind |-> kind, step |-> "lock", held |-> 0, value |-> v]
  <2>1. /\ now.kind = kind /\ now.step = "lock" /\ now.held = 0 /\ now.value = v
        /\ now = [kind |-> now.kind, step |-> now.step, held |-> now.held, value |-> now.value]
    OBVIOUS
  <2> HIDE DEF now
  <2>2. now.value \in Choices(now.kind) /\ At(now, "lock", 0)
    BY <2>1 DEF At
  <2>3. Working(now)
    BY <2>1, <2>2 DEF Working, SectionRoutes
  <2>4. RequestShape(now)
    BY <2>1, <2>3 DEF RequestShape, SectionRoutes, None
  <2> QED  BY <1>1, <1>3, <2>4, PostStep DEF now
<1>4. ASSUME NEW rule \in BOOLEAN, Post(free, "overrides", rule) PROVE ConfigInv'
  <2>1. RequestShape([kind |-> "overrides", step |-> "lock", held |-> 0, value |-> rule])
    BY DEF RequestShape, Working, At, SectionRoutes, None
  <2> QED  BY <1>1, <1>4, <2>1, PostStep
<1>5. CASE Post(free, "maxmind", "key")
  <2>1. RequestShape([kind |-> "maxmind", step |-> "lock", held |-> 0, value |-> "key"])
    BY DEF RequestShape, Working, At, SectionRoutes, None
  <2> QED  BY <1>1, <1>5, <2>1, PostStep
<1>6. ASSUME NEW kind \in {"clear", "reset"}, Post(free, kind, None) PROVE ConfigInv'
  <2>1. RequestShape([kind |-> kind, step |-> "lock", held |-> 0, value |-> None])
    BY DEF RequestShape, Working, At, SectionRoutes, None
  <2> QED  BY <1>1, <1>6, <2>1, PostStep
<1> QED  BY <1>2, <1>3, <1>4, <1>5, <1>6

\* A handler does whatever comes next for it.
LEMMA HandleStep == ASSUME ConfigInv, NEW r \in Requests, Handle(r) PROVE ConfigInv'
  BY AcquireStep, ApplySectionStep, SaveSectionStep, ApplyOverridesStep, SaveOverridesStep,
     StoreCredentialsStep, UpdateSourceStep, ResetReadsStep, ResetLoadsStep, ResetCommitsStep
     DEF Handle

\* Each request has as many locks as it has taken.
LEMMA LocksCounted ==
  ASSUME ConfigInv, NEW r \in Requests
  PROVE  request[r].held = Cardinality({l \in DOMAIN locks : locks[l] = r})
<1> DEFINE q == request[r]
           held == {l \in DOMAIN locks : locks[l] = r}
<1>1. RequestShape(q) /\ held = {l \in LockNames : Holds(q, l)}
  BY DEF ConfigInv, LocksInv
<1> HIDE DEF q, held
<1>2. CASE q = Idle
  <2>1. held = {} /\ q.held = 0
    BY <1>1, <1>2 DEF Idle, Holds
  <2> QED  BY <2>1, FS_EmptySet DEF q, held
<1>3. CASE Working(q) /\ q.held = 0
  <2>1. held = {}
    BY <1>1, <1>3 DEF Holds
  <2> QED  BY <1>3, <2>1, FS_EmptySet DEF q, held
<1>4. CASE Working(q) /\ q.held = 1
  <2>1. held = {"persist"} \/ held = {"overrides"} \/ held = {"geoip"}
    <3>1. CASE q.kind \in SectionRoutes
      <4>1. held = {"persist"}
        BY <1>1, <1>4, <3>1, HoldsAre DEF LockNames, SectionRoutes
      <4> QED  BY <4>1
    <3>2. CASE q.kind = "overrides"
      <4>1. held = {"overrides"}
        BY <1>1, <1>4, <3>2, HoldsAre DEF LockNames, SectionRoutes
      <4> QED  BY <4>1
    <3>3. CASE q.kind \in {"maxmind", "clear", "reset"}
      <4>1. held = {"geoip"}
        BY <1>1, <1>4, <3>3, HoldsAre DEF LockNames, SectionRoutes
      <4> QED  BY <4>1
    <3> QED  BY <1>4, <3>1, <3>2, <3>3 DEF Working
  <2> QED  BY <1>4, <2>1, FS_Singleton DEF q, held
<1>5. CASE Working(q) /\ q.held = 2
  <2>1. q.kind = "reset"
    BY <1>5 DEF Working, At
  <2>2. held = {"geoip"} \cup {"persist"}
    BY <1>1, <1>5, <2>1, HoldsAre DEF LockNames, SectionRoutes
  <2>3. Cardinality({"geoip"}) = 1 /\ IsFiniteSet({"geoip"})
    BY FS_Singleton
  <2>4. Cardinality({"geoip"} \cup {"persist"}) = 2
    BY <2>3, FS_AddElement
  <2> QED  BY <1>5, <2>2, <2>4 DEF q, held
<1>6. CASE Working(q) /\ q.held = 3
  <2>1. q.kind = "reset"
    BY <1>6 DEF Working, At
  <2>2. held = {"geoip", "persist"} \cup {"overrides"}
    BY <1>1, <1>6, <2>1, HoldsAre DEF LockNames, SectionRoutes
  <2>3. Cardinality({"geoip"}) = 1 /\ IsFiniteSet({"geoip"})
    BY FS_Singleton
  <2>4. /\ Cardinality({"geoip"} \cup {"persist"}) = 2
        /\ IsFiniteSet({"geoip"} \cup {"persist"})
    BY <2>3, FS_AddElement
  <2>5. {"geoip", "persist"} = {"geoip"} \cup {"persist"}
    OBVIOUS
  <2> DEFINE two == {"geoip", "persist"}
  <2>6. Cardinality(two) = 2 /\ IsFiniteSet(two) /\ "overrides" \notin two
    BY <2>4, <2>5
  <2>7. held = two \cup {"overrides"}
    BY <2>2
  <2> HIDE DEF two
  <2>8. Cardinality(two \cup {"overrides"}) = Cardinality(two) + 1
    BY <2>6, FS_AddElement
  <2>9. Cardinality(held) = 3
    BY <2>6, <2>7, <2>8
  <2> QED  BY <1>6, <2>9 DEF q, held
<1>7. q = Idle \/ (Working(q) /\ (q.held = 0 \/ q.held = 1 \/ q.held = 2 \/ q.held = 3))
  BY <1>1 DEF RequestShape, Working, At
<1> QED  BY <1>2, <1>3, <1>4, <1>5, <1>6, <1>7

\* When nobody holds a file's lock, nobody is between memory and the file.
LEMMA ConfigInvAgrees ==
  ConfigInv => ConfigTypeOK /\ AcknowledgedIsOnDisk /\ MemoryAgreesWithDisk /\ TyposSurvive
<1> SUFFICES ASSUME ConfigInv
             PROVE ConfigTypeOK /\ AcknowledgedIsOnDisk /\ MemoryAgreesWithDisk /\ TyposSurvive
  OBVIOUS
<1> USE DEF ConfigInv
<1>1. ConfigTypeOK
  BY LocksCounted DEF StateTyped, LocksInv, LockNames, SourceKinds, ConfigTypeOK
<1>2. \A l \in LockNames : locks[l] = None => \A r \in Requests : ~Holds(request[r], l)
  BY RequestsAssumption DEF LocksInv
<1>3. /\ Quiet("persist") => \A r \in Requests : ~SavesSection(request[r])
      /\ Quiet("overrides") => \A r \in Requests : ~SavesOverrides(request[r])
      /\ Quiet("geoip") => \A r \in Requests : ~TakesSource(request[r])
  BY <1>2, WorkersHold DEF Quiet, SavesSection, SavesOverrides, TakesSource, LockNames
<1>4. MemoryAgreesWithDisk
  <2>1. Quiet("persist") /\ ~drift.config => [config EXCEPT !.fixed = startup.fixed] = live
    BY <1>3 DEF PersistInv, Quiet
  <2>2. Quiet("overrides") /\ ~drift.overrides => overridesFile = overrides
    BY <1>3 DEF OverridesInv, Quiet
  <2>3. Quiet("geoip") /\ ~drift.creds => SourceOf(creds) = source
    BY <1>3 DEF GeoipInv, Quiet
  <2> QED  BY <2>1, <2>2, <2>3 DEF MemoryAgreesWithDisk
<1> QED  BY <1>1, <1>4 DEF PersistInv, OverridesInv
=============================================================================
