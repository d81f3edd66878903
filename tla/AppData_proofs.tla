--------------------------- MODULE AppData_proofs ---------------------------
(***************************************************************************)
(* What the settings, the encrypted stores, the updaters and the           *)
(* certificate keep when they run in one process that crashes and starts   *)
(* with all of them: each has an invariant of its own, which every step of *)
(* the others and of the whole preserves.  PersonalZone_proofs holds the   *)
(* argument about the personal zone.                                       *)
(***************************************************************************)
EXTENDS AppData, ConfigStore_proofs, PersonalZone_proofs

(***************************************************************************)
(* The stores.  A key at hand, with a flusher or a store being loaded, is  *)
(* the one the credential store has, unless that has lost it; a flusher    *)
(* runs only once the file's fact is in memory, in a file moved aside, or  *)
(* stuck.                                                                  *)
(***************************************************************************)
KeyStands(s, k) == <<EntryOf(s), k>> \in keyLost \/ k = keys[EntryOf(s)]
StandsNext(s, k) == <<EntryOf(s), k>> \in keyLost' \/ k = keys'[EntryOf(s)]
StoresTyped ==
    /\ keys \in [Entries -> Nat] /\ minted \in [Entries -> Nat]
    /\ flusher \in [Stores -> Nat] /\ file = [s \in Stores |-> file[s]]
    /\ \A with \in obtained : phase \in Stores /\ with.key \in Nat
KeysInv ==
    /\ \A s \in Stores : \A f \in file[s] : f.key # 0 /\ KeyStands(s, f.key)
    /\ \A s \in Stores : flusher[s] # 0 => KeyStands(s, flusher[s])
    /\ \A with \in obtained : with.key # 0 /\ KeyStands(phase, with.key)
FlushedInv ==
    /\ FlushedIsKept /\ flushed \subseteq Stores
    /\ \A s \in flushed \ stuck : flusher[s] # 0 => s \in aside \/ s \in remembered
StoresInv == StoresTyped /\ KeysInv /\ FlushedInv

(***************************************************************************)
(* The updaters.  What a cycle has in its hands is what is kept of sources *)
(* it is done with; a selection other than the one in force has a permit,  *)
(* or is about to be read again; the counts are those of the files but for *)
(* the one about to be written.                                            *)
(***************************************************************************)
BundlesTyped ==
    /\ bundles = [step |-> bundles.step, selected |-> bundles.selected, todo |-> bundles.todo,
                  got |-> bundles.got, last |-> bundles.last]
    /\ text = [s \in Sources |-> text[s]] /\ count = [s \in Sources |-> count[s]]
    /\ geoip = [step |-> geoip.step, source |-> geoip.source]
    /\ bundles.selected \subseteq Sources /\ bundles.todo \subseteq Sources
    /\ bundles.step = "count" => bundles.last \in Sources
    /\ phase = "down" => bundles.step = "parked"
ValidInv ==
    /\ RefusedIsNeverUsed
    /\ \A g \in bundles.got : g.body # None => Valid(g.body)
KeptInv ==
    /\ bundles.step \in {"fetch", "count"} =>
          \A g \in bundles.got : g.source \in Sources \ bundles.todo /\ g.body = text[g.source]
    /\ phase # "down" =>
          /\ bundles.step \in {"parked", "cycle"} =>
                \A p \in published : p.source \in Sources /\ p.body = text[p.source]
          /\ bundles.step = "begin" => published = {}
WakeInv ==
    phase # "down" =>
        /\ bundles.step = "cycle" \/ bundles.selected = live.bundles \/ "bundles" \in wake
        /\ geoip.step = "cycle" \/ geoip.source = source \/ "geoip" \in wake
CountInv ==
    \A s \in Sources : \/ s \in skewed \/ count[s] = text[s]
                       \/ bundles.step = "count" /\ bundles.last = s
UpdatersInv == BundlesTyped /\ ValidInv /\ KeptInv /\ WakeInv /\ CountInv

(***************************************************************************)
(* The certificate.  Since a start or an install that followed it, nothing *)
(* but installs may be under way, each about to look or to add what cert.pem*)
(* holds; while the service starts, nothing but the start.                 *)
(***************************************************************************)
Installs(q) == \/ q = Rest
               \/ q.kind = "install" /\ q.step = "look"
               \/ q.kind = "install" /\ q.step = "add" /\ q.cert = certPem
Starts(q) == \/ q = Rest
             \/ q.kind = "start" /\ q.step = "write"
             \/ q.kind = "start" /\ q.step = "store" /\ q.cert = certPem
CertInv ==
    /\ job = [j \in Jobs |-> [kind |-> job[j].kind, step |-> job[j].step, cert |-> job[j].cert]]
    /\ lately \in {"starting", "started", "installed", "other"}
    /\ lately \in {"started", "installed"} =>
          /\ job["start"] = Rest /\ \A a \in Actions : Installs(job[a])
          /\ served # 0 => certPem = served
    /\ lately = "installed" => certPem \in root
    /\ lately = "starting" =>
          /\ Starts(job["start"]) /\ \A a \in Actions : job[a] = Rest
          /\ served = 0

-----------------------------------------------------------------------------
(* The settings, within the whole.                                         *)

\* The steps of the stores, of the updaters and of the certificate, in terms of the
\* settings they leave alone.
LEMMA RememberFacts ==
  ASSUME Remember, StateTyped
  PROVE  /\ UNCHANGED <<Settings, updaterVars, certVars>>
         /\ disturbances' \in 0 .. MaxDisturbances[scenario]
         /\ phase' = phase \/ (phase \in Stores /\ phase' \in {"cache", "removals", "zone", "up"})
<1>1. UNCHANGED <<Settings, updaterVars, certVars>>
  BY DEF Remember
<1>2. UNCHANGED scenario
  BY <1>1 DEF Settings
<1>3. CASE SkipStore
  <2>1. disturbances' \in 0 .. MaxDisturbances[scenario]
    BY <1>2, <1>3, DisturbTyped DEF SkipStore
  <2>2. phase \in Stores /\ phase' = After(phase)
    BY <1>3 DEF SkipStore, NextStore
  <2>3. phase' \in {"cache", "removals", "zone", "up"}
    BY <2>2 DEF Stores, After
  <2> QED  BY <1>1, <2>1, <2>2, <2>3
<1>4. CASE LoadStore
  <2>1. disturbances' \in 0 .. MaxDisturbances[scenario]
    BY <1>2, <1>4, DisturbTyped DEF LoadStore, Outcome
  <2>2. phase \in Stores /\ phase' = After(phase)
    BY <1>4 DEF LoadStore, NextStore
  <2>3. phase' \in {"cache", "removals", "zone", "up"}
    BY <2>2 DEF Stores, After
  <2> QED  BY <1>1, <2>1, <2>2, <2>3
<1>5. CASE \E s \in Stores : Flush(s)
  BY <1>1, <1>2, <1>5, DisturbTyped DEF Flush
<1>6. CASE ObtainKey
  BY <1>1, <1>2, <1>6, DisturbTyped DEF ObtainKey
<1>7. CASE \E s \in Stores : Learn(s)
  BY <1>1, <1>2, <1>7, DisturbTyped DEF Learn
<1>8. CASE \E e \in Entries : LoseKey(e)
  BY <1>1, <1>2, <1>8, DisturbTyped DEF LoseKey
<1> QED  BY <1>3, <1>4, <1>5, <1>6, <1>7, <1>8 DEF Remember, Restore, Write

\* What a GeoIP refresh makes of the credentials' health.
LEMMA HealthAfterTyped ==
  ASSUME StateTyped, NEW origin, NEW body
  PROVE  HealthAfter(origin, body) \in {"not applicable", "pending", "accepted", "rejected"}
BY DEF HealthAfter, StateTyped

\* The updaters take permits, and leave none.
LEMMA UpdateFacts ==
  ASSUME Update, StateTyped
  PROVE  /\ UNCHANGED <<Elsewhere, storeVars, zoneVars, certVars>>
         /\ disturbances' \in 0 .. MaxDisturbances[scenario]
         /\ health' \in {"not applicable", "pending", "accepted", "rejected"}
         /\ wake' \subseteq wake
<1>1. UNCHANGED <<Elsewhere, storeVars, zoneVars, certVars>>
  BY DEF Update, UpdatersStep, BundlesStep, GeoipStep
<1>2. UNCHANGED scenario
  BY <1>1 DEF Elsewhere
<1>3. health \in {"not applicable", "pending", "accepted", "rejected"}
  BY DEF StateTyped
<1>4. CASE BundlesStep
  <2>1. disturbances' \in 0 .. MaxDisturbances[scenario]
    <3>1. CASE WriteCount
      <4>1. PICK fails \in BOOLEAN : Outcome(fails)
        BY <3>1 DEF WriteCount
      <4> QED  BY <1>2, <4>1, DisturbTyped DEF Outcome
    <3>2. CASE UNCHANGED disturbances
      BY <1>2, <3>2, DisturbTyped
    <3> QED  BY <1>4, <3>1, <3>2 DEF BundlesStep, BundlesNext, WarmLoad, Unpark, BeginCycle,
                                    Fetch, Publish
  <2>2. wake' \subseteq wake
    BY <1>4 DEF BundlesStep, BundlesNext, WarmLoad, Unpark, Due, BeginCycle, Fetch, WriteCount,
                Publish
  <2> QED  BY <1>1, <1>3, <1>4, <2>1, <2>2 DEF BundlesStep
<1>5. CASE GeoipStep
  <2>1. disturbances' \in 0 .. MaxDisturbances[scenario]
    BY <1>2, <1>5, DisturbTyped DEF GeoipStep
  <2>2. wake' \subseteq wake
    BY <1>5 DEF GeoipStep, GeoipNext, GeoipBegin, GeoipUnpark, Due, GeoipSnapshot, GeoipRefresh
  <2>3. health' = health \/ \E origin, body : health' = HealthAfter(origin, body)
    BY <1>5 DEF GeoipStep, GeoipNext, GeoipBegin, GeoipUnpark, GeoipSnapshot, GeoipRefresh
  <2> QED  BY <1>1, <1>3, <2>1, <2>2, <2>3, HealthAfterTyped
<1>6. CASE FeedChanges
  <2>1. (\E k \in {"lists", "releases"} : Disturb(k)) /\ UNCHANGED <<wake, health>>
    BY <1>6 DEF FeedChanges
  <2> QED  BY <1>1, <1>2, <1>3, <2>1, DisturbTyped
<1>7. CASE \E s \in Sources : AgesOut(s) /\ UNCHANGED health
  <2>1. Disturb("a week") /\ UNCHANGED <<wake, health>>
    BY <1>7 DEF AgesOut
  <2> QED  BY <1>1, <1>2, <1>3, <2>1, DisturbTyped
<1> QED  BY <1>4, <1>5, <1>6, <1>7 DEF Update, UpdatersStep

\* Visits, the clock and the table of the personal zone.
LEMMA BrowseFacts ==
  ASSUME Browse, StateTyped
  PROVE  /\ UNCHANGED <<phase, Settings, storeVars, updaterVars, certVars>>
         /\ disturbances' \in 0 .. MaxDisturbances[scenario]
<1>1. UNCHANGED <<phase, Settings, storeVars, updaterVars, certVars>> /\ Disturb("visits")
  BY DEF Browse, ClockOrTable, Visit
<1> QED  BY <1>1, DisturbTyped DEF Settings

\* The actions of the certificate, each with the bound of its disturbances.
LEMMA CertifyFacts ==
  ASSUME Certify, StateTyped
  PROVE  /\ UNCHANGED <<phase, Settings, storeVars, updaterVars, zoneVars>>
         /\ disturbances' \in 0 .. MaxDisturbances[scenario]
<1>1. UNCHANGED <<phase, Settings, storeVars, updaterVars, zoneVars>> /\ UNCHANGED scenario
  BY DEF Certify, Settings
<1>2. (\E k : Disturb(k)) \/ UNCHANGED disturbances
  <2>1. ASSUME \E b : Step(b) PROVE (\E k : Disturb(k)) \/ UNCHANGED disturbances
    BY <2>1 DEF Step
  <2>2. CASE LoadsPair
    BY <2>1, <2>2 DEF LoadsPair
  <2>3. CASE MakesPair
    BY <2>1, <2>3 DEF MakesPair
  <2>4. CASE LoseTlsKey
    BY <2>4 DEF LoseTlsKey
  <2>5. ASSUME NEW j \in Jobs, ClearRoot(j) PROVE \E b : Step(b)
    BY <2>5 DEF ClearRoot
  <2>6. ASSUME NEW j \in Jobs, WriteCert(j) PROVE \E b : Step(b)
    BY <2>6 DEF WriteCert
  <2>7. ASSUME NEW j \in Jobs, StoreKey(j) PROVE \E b : Step(b)
    BY <2>7 DEF StoreKey
  <2>8. ASSUME NEW j \in Jobs, LookUp(j) PROVE UNCHANGED disturbances
    BY <2>8 DEF LookUp
  <2>9. ASSUME NEW j \in Jobs, AddToRoot(j) PROVE \E b : Step(b)
    BY <2>9 DEF AddToRoot
  <2>10. ASSUME NEW a, Abandoned(a) PROVE \E k : Disturb(k)
    BY <2>10 DEF Abandoned
  <2>11. ASSUME NEW a, Begin(a) PROVE UNCHANGED disturbances
    BY <2>11 DEF Begin
  <2> QED  BY <2>1, <2>2, <2>3, <2>4, <2>5, <2>6, <2>7, <2>8, <2>9, <2>10, <2>11
             DEF Certify, CertificateStep
<1> QED  BY <1>1, <1>2, DisturbTyped

\* Every step of the whole keeps what is known of the settings.
LEMMA ConfigInvNext == ConfigInv /\ [Next]_vars => ConfigInv'
<1> SUFFICES ASSUME ConfigInv, [Next]_vars PROVE ConfigInv'
  OBVIOUS
<1>0. /\ StateTyped /\ wake \in SUBSET {"bundles", "geoip"}
      /\ health \in {"not applicable", "pending", "accepted", "rejected"}
      /\ disturbances \in 0 .. MaxDisturbances[scenario]
  BY DEF ConfigInv, StateTyped
<1>1. CASE \E r \in Requests : Serve(r)
  BY <1>1, HandleStep DEF Serve
<1>2. CASE User
  BY <1>2, AdminPostStep, EditConfigStep, EditOverridesStep DEF User
<1>3. CASE StartAll
  BY <1>3, StartStep DEF StartAll
<1>4. CASE CrashAll
  BY <1>4, CrashStep DEF CrashAll
<1>5. CASE StartCrash
  <2>1. UNCHANGED <<phase, Settings>> /\ Disturb("crash")
    BY <1>5 DEF StartCrash
  <2>2. disturbances' \in 0 .. MaxDisturbances[scenario]
    BY <1>0, <2>1, DisturbTyped DEF Settings
  <2> QED  BY <1>0, <2>1, <2>2, OtherTaskStep DEF Settings
<1>6. CASE Remember
  <2>1. phase' = phase \/ (phase \notin {"down", "up"} /\ phase' \in Phases \ {"down"})
    BY <1>0, <1>6, RememberFacts DEF Stores, Phases
  <2> QED  BY <1>0, <1>6, <2>1, RememberFacts, OtherTaskStep DEF Settings
<1>7. CASE Update
  <2>1. UNCHANGED Elsewhere /\ wake' \in SUBSET {"bundles", "geoip"}
    BY <1>0, <1>7, UpdateFacts
  <2> QED  BY <1>0, <1>7, <2>1, UpdateFacts, OtherTaskStep DEF Elsewhere
<1>8. CASE Browse
  BY <1>0, <1>8, BrowseFacts, OtherTaskStep DEF Settings
<1>9. CASE Certify
  BY <1>0, <1>9, CertifyFacts, OtherTaskStep DEF Settings
<1>10. CASE UNCHANGED vars
  <2>1. UNCHANGED <<phase, Settings, disturbances>>
    BY <1>10 DEF vars, configVars, memory, bounds, Settings
  <2> QED  BY <1>0, <2>1, OtherTaskStep DEF Settings
<1> QED  BY <1>1, <1>2, <1>3, <1>4, <1>5, <1>6, <1>7, <1>8, <1>9, <1>10 DEF Next

-----------------------------------------------------------------------------
(* The encrypted stores.                                                   *)

\* A start loads the stores one by one: the next is obtained no key for yet.
LEMMA StoresTypedStep == ASSUME StateTyped, StoresTyped, [Next]_vars PROVE StoresTyped'
<1> USE DEF StoresTyped
<1>1. ASSUME UNCHANGED storeVars, phase' = phase \/ obtained = {} PROVE StoresTyped'
  BY <1>1 DEF storeVars
<1>2. CASE \E r \in Requests : Serve(r)
  <2>1. PICK r \in Requests : Handle(r) /\ \E stores : Forget(stores)
    BY <1>2 DEF Serve
  <2>2. UNCHANGED phase
    BY <2>1 DEF Handle, Acquire, ApplySection, SaveSection, ApplyOverrides, SaveOverrides,
       StoreCredentials, UpdateSource, ResetReadsCredentials, ResetLoads, ResetCommits, memory
  <2> QED  BY <2>1, <2>2 DEF Forget
<1>3. CASE User
  BY <1>1, <1>3 DEF User, AdminPost, Post, EditConfig, EditOverrides, memory
<1>4. CASE StartAll
  BY <1>1, <1>4 DEF StartAll, Start, Stores
<1>5. CASE CrashAll
  BY <1>5 DEF CrashAll, StoresCrash
<1>6. CASE StartCrash \/ Browse \/ Certify
  BY <1>1, <1>6 DEF StartCrash, Browse, Certify
<1>7. CASE Update
  BY <1>1, <1>7, UpdateFacts DEF Elsewhere
<1>8. CASE Remember
  <2>1. CASE SkipStore
    BY <2>1 DEF SkipStore, NextStore
  <2>2. CASE LoadStore
    <3>1. PICK with \in obtained : /\ file' = [file EXCEPT ![phase] = {}] \/ file' = file
                                   /\ flusher' = [flusher EXCEPT ![phase] = with.key]
      BY <2>2 DEF LoadStore
    <3>2. UNCHANGED <<keys, minted>> /\ obtained' = {}
      BY <2>2 DEF LoadStore, NextStore
    <3>3. flusher' \in [Stores -> Nat] /\ file' = [s \in Stores |-> file'[s]]
      BY <3>1
    <3> QED  BY <3>2, <3>3
  <2>3. CASE ObtainKey
    <3>1. PICK e \in {EntryOf(phase)} :
             \/ UNCHANGED <<keys, minted>>
             \/ /\ minted' = [minted EXCEPT ![e] = minted[e] + 1]
                /\ keys' = [keys EXCEPT ![e] = minted'[e]]
      BY <2>3 DEF ObtainKey
    <3>2. e \in Entries
      BY DEF EntryOf, Entries
    <3>3. phase \in Stores /\ UNCHANGED <<phase, flusher, file>>
      BY <2>3 DEF ObtainKey
    <3>4. minted' \in [Entries -> Nat] /\ keys' \in [Entries -> Nat]
      BY <3>1, <3>2
    <3>5. \A with \in obtained' : with.key \in Nat
      <4>1. \A with \in obtained' : \/ with.key = keys[EntryOf(phase)]
                                    \/ with.key = minted'[EntryOf(phase)]
        BY <2>3 DEF ObtainKey
      <4> QED  BY <3>2, <3>4, <4>1 DEF EntryOf, Entries
    <3> QED  BY <3>3, <3>4, <3>5
  <2>4. CASE \E s \in Stores : Flush(s)
    BY <2>4 DEF Flush
  <2>5. CASE \E s \in Stores : Learn(s)
    BY <2>5 DEF Learn
  <2>6. CASE \E e \in Entries : LoseKey(e)
    BY <2>6 DEF LoseKey
  <2> QED  BY <1>8, <2>1, <2>2, <2>3, <2>4, <2>5, <2>6 DEF Remember, Restore, Write
<1>9. CASE UNCHANGED vars
  BY <1>1, <1>9 DEF vars, configVars, memory
<1> QED  BY <1>2, <1>3, <1>4, <1>5, <1>6, <1>7, <1>8, <1>9 DEF Next

\* Nothing but a start's ObtainKey and the loss of a key touches the keys, and a key
\* that stood before either still does.
LEMMA KeyStandsStep ==
  ASSUME StoresTyped, Remember, NEW s \in Stores, NEW k, k # 0, KeyStands(s, k)
  PROVE  StandsNext(s, k)
<1> USE DEF KeyStands, StandsNext
<1>1. EntryOf(s) \in Entries
  BY DEF EntryOf, Entries
<1>2. CASE SkipStore \/ LoadStore
  BY <1>2 DEF SkipStore, LoadStore
<1>3. CASE ObtainKey
  <2>1. UNCHANGED keyLost
    BY <1>3 DEF ObtainKey
  <2>2. UNCHANGED keys \/ \E e \in Entries : \E n : keys[e] = 0 /\ keys' = [keys EXCEPT ![e] = n]
    BY <1>3 DEF ObtainKey, EntryOf, Entries
  <2> QED  BY <1>1, <2>1, <2>2 DEF StoresTyped
<1>4. CASE (\E t \in Stores : Flush(t)) \/ \E t \in Stores : Learn(t)
  BY <1>4 DEF Flush, Learn
<1>5. CASE \E e \in Entries : LoseKey(e)
  <2>1. PICK e \in Entries : /\ keys' = [keys EXCEPT ![e] = 0]
                             /\ keyLost' = keyLost \cup {<<e, keys[e]>>}
    BY <1>5 DEF LoseKey
  <2> QED  BY <1>1, <2>1 DEF StoresTyped
<1> QED  BY <1>2, <1>3, <1>4, <1>5 DEF Remember, Restore, Write

\* Every step keeps the keys of files and flushers those of the credential store.
LEMMA KeysStep == ASSUME StateTyped, StoresTyped, KeysInv, [Next]_vars PROVE KeysInv'
<1> USE DEF KeysInv
<1>1. ASSUME UNCHANGED <<file, flusher, keys, keyLost>>,
             obtained' = {} \/ (UNCHANGED obtained /\ phase' = phase)
      PROVE  KeysInv'
  BY <1>1 DEF KeyStands, StandsNext
<1>2. CASE \E r \in Requests : Serve(r)
  <2>1. PICK r \in Requests : Handle(r) /\ \E stores : Forget(stores)
    BY <1>2 DEF Serve
  <2>2. UNCHANGED phase
    BY <2>1 DEF Handle, Acquire, ApplySection, SaveSection, ApplyOverrides, SaveOverrides,
       StoreCredentials, UpdateSource, ResetReadsCredentials, ResetLoads, ResetCommits, memory
  <2> QED  BY <1>1, <2>1, <2>2 DEF Forget
<1>3. CASE User
  BY <1>1, <1>3 DEF User, AdminPost, Post, EditConfig, EditOverrides, memory, storeVars
<1>4. CASE StartAll
  <2>1. obtained = {} /\ UNCHANGED storeVars
    BY <1>4 DEF StartAll, Start, StoresTyped, Stores
  <2> QED  BY <1>1, <2>1 DEF storeVars
<1>5. CASE CrashAll
  <2>1. flusher' = [s \in Stores |-> 0] /\ obtained' = {} /\ UNCHANGED <<file, keys, keyLost>>
    BY <1>5 DEF CrashAll, StoresCrash
  <2> QED  BY <2>1 DEF KeyStands, StandsNext
<1>6. CASE StartCrash \/ Browse \/ Certify
  BY <1>1, <1>6 DEF StartCrash, Browse, Certify, storeVars
<1>7. CASE Update
  BY <1>1, <1>7, UpdateFacts DEF Elsewhere, storeVars
<1>8. CASE Remember
  <2>1. CASE SkipStore
    BY <1>1, <2>1 DEF SkipStore, NextStore
  <2>2. CASE LoadStore
    <3>1. PICK with \in obtained : /\ file' = [file EXCEPT ![phase] = {}] \/ file' = file
                                   /\ flusher' = [flusher EXCEPT ![phase] = with.key]
      BY <2>2 DEF LoadStore
    <3>2. UNCHANGED <<keys, keyLost>> /\ obtained' = {}
      BY <2>2 DEF LoadStore, NextStore
    <3>3. \A s \in Stores : file'[s] \subseteq file[s]
      BY <3>1 DEF StoresTyped
    <3>4. \A s \in Stores : flusher'[s] = flusher[s] \/ (s = phase /\ flusher'[s] = with.key)
      BY <3>1 DEF StoresTyped
    <3> QED  BY <3>2, <3>3, <3>4 DEF KeyStands, StandsNext
  <2>3. CASE ObtainKey
    <3>1. /\ phase \in Stores /\ UNCHANGED <<phase, file, flusher, keyLost>>
          /\ \A with \in obtained' :
                \/ with.key = keys[EntryOf(phase)] /\ with.key # 0 /\ UNCHANGED <<keys, minted>>
                \/ /\ minted' = [minted EXCEPT ![EntryOf(phase)] = @ + 1]
                   /\ with.key = minted'[EntryOf(phase)]
                   /\ keys' = [keys EXCEPT ![EntryOf(phase)] = minted'[EntryOf(phase)]]
      BY <2>3 DEF ObtainKey
    <3>2. EntryOf(phase) \in Entries
      BY DEF EntryOf, Entries
    <3>3. \A with \in obtained' : with.key # 0 /\ with.key = keys'[EntryOf(phase)]
      BY <3>1, <3>2 DEF StoresTyped
    <3>4. \A s \in Stores : \A f \in file[s] : StandsNext(s, f.key)
      BY <1>8, KeyStandsStep
    <3>5. \A s \in Stores : flusher[s] # 0 => StandsNext(s, flusher[s])
      BY <1>8, KeyStandsStep
    <3> QED  BY <3>1, <3>3, <3>4, <3>5 DEF KeyStands, StandsNext
  <2>4. CASE \E s \in Stores : Flush(s)
    <3>1. PICK s \in Stores :
             /\ file' = [file EXCEPT ![s] = {[key |-> flusher[s], fact |-> s \in remembered]}]
             /\ flusher[s] # 0 /\ UNCHANGED <<phase, flusher, keys, keyLost, obtained>>
      BY <2>4 DEF Flush
    <3>2. \A t \in Stores : \A f \in file'[t] : f \in file[t] \/ (t = s /\ f.key = flusher[s])
      BY <3>1 DEF StoresTyped
    <3> QED  BY <3>1, <3>2 DEF KeyStands, StandsNext
  <2>5. CASE \E s \in Stores : Learn(s)
    BY <1>1, <2>5 DEF Learn
  <2>6. CASE \E e \in Entries : LoseKey(e)
    <3>1. UNCHANGED <<phase, file, flusher, obtained>>
      BY <2>6 DEF LoseKey
    <3>2. \A s \in Stores : \A k : k # 0 /\ KeyStands(s, k) => StandsNext(s, k)
      BY <1>8, KeyStandsStep
    <3>3. \A s \in Stores : \A f \in file[s] : f.key # 0 /\ StandsNext(s, f.key)
      BY <3>2 DEF KeyStands, StandsNext
    <3>4. \A s \in Stores : flusher[s] # 0 => StandsNext(s, flusher[s])
      BY <3>2 DEF KeyStands, StandsNext
    <3>5. \A with \in obtained : with.key # 0 /\ StandsNext(phase, with.key)
      BY <3>2 DEF StoresTyped, KeyStands
    <3> QED  BY <3>1, <3>3, <3>4, <3>5 DEF KeyStands, StandsNext
  <2> QED  BY <1>8, <2>1, <2>2, <2>3, <2>4, <2>5, <2>6 DEF Remember, Restore, Write
<1>9. CASE UNCHANGED vars
  BY <1>1, <1>9 DEF vars, configVars, memory, storeVars
<1> QED  BY <1>2, <1>3, <1>4, <1>5, <1>6, <1>7, <1>8, <1>9 DEF Next

\* A step that leaves the files and what they must hold alone keeps the facts, if it
\* starts no flusher and clears nothing from memory that it does not strike off.
LEMMA FlushedFrame ==
  ASSUME FlushedInv, UNCHANGED <<file, aside, stuck>>, flushed' \subseteq flushed,
         \A s \in flushed' : (flusher'[s] # 0 => flusher[s] # 0)
                             /\ (flusher'[s] # 0 /\ s \in remembered => s \in remembered')
  PROVE  FlushedInv'
BY DEF FlushedInv, FlushedIsKept

\* Every step keeps a flushed fact in its file, in one moved aside, or in the memory
\* of a store whose flusher is about to write.
LEMMA FlushedStep == ASSUME StateTyped, StoresTyped, FlushedInv, [Next]_vars PROVE FlushedInv'
<1>1. CASE UNCHANGED storeVars
  BY <1>1, FlushedFrame DEF storeVars
<1>2. CASE \E r \in Requests : Serve(r)
  <2>1. PICK stores : Forget(stores)
    BY <1>2 DEF Serve
  <2>2. /\ UNCHANGED <<file, aside, flusher, stuck>> /\ flushed' = flushed \ stores
        /\ remembered' = remembered \ stores
    BY <2>1 DEF Forget
  <2>3. \A s \in flushed' : s \notin stores
    BY <2>2
  <2> QED  BY <2>2, <2>3, FlushedFrame
<1>3. CASE CrashAll
  <2>1. flusher' = [s \in Stores |-> 0] /\ UNCHANGED <<file, aside, flushed, stuck>>
    BY <1>3 DEF CrashAll, StoresCrash
  <2>2. \A s \in flushed : flusher'[s] = 0
    BY <2>1 DEF FlushedInv
  <2> QED  BY <2>1, <2>2, FlushedFrame
<1>4. CASE Remember
  <2>1. CASE SkipStore
    BY <2>1, FlushedFrame DEF SkipStore
  <2>2. CASE LoadStore
    <3>1. PICK with \in obtained : \E moves \in {SetAside(phase, with)} : \E fails \in BOOLEAN :
            /\ file' = IF moves /\ ~fails THEN [file EXCEPT ![phase] = {}] ELSE file
            /\ aside' = IF moves /\ ~fails /\ \E f \in file[phase] : f.fact
                        THEN aside \cup {phase} ELSE aside
            /\ stuck' = IF fails THEN stuck \cup {phase} ELSE stuck
            /\ remembered' = IF \E f \in file[phase] : f.fact /\ f.key = with.key
                             THEN remembered \cup {phase} ELSE remembered
            /\ flusher' = [flusher EXCEPT ![phase] = with.key]
      BY <2>2 DEF LoadStore
    <3>2. phase \in Stores /\ UNCHANGED flushed
      BY <2>2 DEF LoadStore
    <3>3. ASSUME NEW s \in flushed \ stuck', s # phase
          PROVE  /\ s \in aside' \/ \E f \in file'[s] : f.fact
                 /\ flusher'[s] # 0 => s \in aside' \/ s \in remembered'
      <4>1. file'[s] = file[s] /\ flusher'[s] = flusher[s]
        BY <3>1, <3>2, <3>3 DEF StoresTyped, FlushedInv
      <4> QED  BY <3>1, <3>3, <4>1 DEF FlushedInv, FlushedIsKept
    <3>4. ASSUME phase \in flushed \ stuck'
          PROVE  /\ phase \in aside' \/ \E f \in file'[phase] : f.fact
                 /\ phase \in aside' \/ phase \in remembered'
      <4>1. phase \notin stuck /\ (phase \in aside \/ \E f \in file[phase] : f.fact)
        BY <3>1, <3>4 DEF FlushedInv, FlushedIsKept
      <4>2. CASE SetAside(phase, with)
        BY <3>1, <3>4, <4>1, <4>2
      <4>3. CASE ~SetAside(phase, with)
        <5>1. \A f \in file[phase] : f.key = with.key
          BY <4>3 DEF SetAside
        <5>2. file' = file /\ aside \subseteq aside'
          BY <3>1, <4>3
        <5> QED  BY <3>1, <4>1, <5>1, <5>2
      <4> QED  BY <4>2, <4>3
    <3>5. \A s \in flushed \ stuck' :
             /\ s \in aside' \/ \E f \in file'[s] : f.fact
             /\ flusher'[s] # 0 => s \in aside' \/ s \in remembered'
      BY <3>3, <3>4
    <3> QED  BY <3>2, <3>5 DEF FlushedInv, FlushedIsKept
  <2>3. CASE ObtainKey \/ \E e \in Entries : LoseKey(e)
    BY <2>3, FlushedFrame DEF ObtainKey, LoseKey
  <2>4. CASE \E s \in Stores : Flush(s)
    <3>1. PICK s \in Stores :
             /\ file' = [file EXCEPT ![s] = {[key |-> flusher[s], fact |-> s \in remembered]}]
             /\ flushed' = IF s \in remembered THEN flushed \cup {s} ELSE flushed
             /\ flusher[s] # 0 /\ UNCHANGED <<flusher, aside, stuck, remembered>>
      BY <2>4 DEF Flush
    <3>2. ASSUME NEW t \in flushed' \ stuck, t # s
          PROVE  /\ t \in aside \/ \E f \in file'[t] : f.fact
                 /\ flusher[t] # 0 => t \in aside \/ t \in remembered
      BY <3>1, <3>2 DEF FlushedInv, FlushedIsKept, StoresTyped
    <3>3. ASSUME s \in flushed' \ stuck
          PROVE  /\ s \in aside \/ \E f \in file'[s] : f.fact
                 /\ s \in aside \/ s \in remembered
      <4>1. file'[s] = {[key |-> flusher[s], fact |-> s \in remembered]}
        BY <3>1 DEF StoresTyped
      <4>2. s \in aside \/ s \in remembered
        BY <3>1, <3>3 DEF FlushedInv
      <4> DEFINE sealed == [key |-> flusher[s], fact |-> s \in remembered]
      <4>3. sealed.fact <=> s \in remembered
        OBVIOUS
      <4>4. sealed \in file'[s]
        BY <4>1
      <4> HIDE DEF sealed
      <4> QED  BY <4>2, <4>3, <4>4
    <3> QED  BY <3>1, <3>2, <3>3 DEF FlushedInv, FlushedIsKept
  <2>5. CASE \E s \in Stores : Learn(s)
    BY <2>5, FlushedFrame DEF Learn
  <2> QED  BY <1>4, <2>1, <2>2, <2>3, <2>4, <2>5 DEF Remember, Restore, Write
<1>5. CASE Update
  BY <1>1, <1>5, UpdateFacts
<1> QED  BY <1>1, <1>2, <1>3, <1>4, <1>5
         DEF Next, vars, User, StartAll, StartCrash, Browse, Certify

\* A service that has been up for long seals each file with the key of its store.
LEMMA StoresInitInv == ASSUME StoresInit PROVE StoresInv
<1>1. /\ flusher = [s \in Stores |-> IF OnAtStart(s) THEN 1 ELSE 0]
      /\ keys = [e \in Entries |-> IF \E s \in Stores : EntryOf(s) = e /\ flusher[s] # 0
                                   THEN 1 ELSE 0]
      /\ minted = keys /\ flushed = {} /\ obtained = {}
      /\ file = [s \in Stores |-> {[key |-> k, fact |-> FALSE] : k \in {flusher[s]} \ {0}}]
  BY DEF StoresInit
<1>2. StoresTyped
  BY <1>1 DEF StoresTyped
<1>3. FlushedInv
  BY <1>1 DEF FlushedInv, FlushedIsKept
<1>4. \A s \in Stores : flusher[s] # 0 => flusher[s] = 1 /\ keys[EntryOf(s)] = 1
  <2>1. \A s \in Stores : EntryOf(s) \in Entries
    BY DEF EntryOf, Entries
  <2> QED  BY <1>1, <2>1
<1>5. \A s \in Stores : \A f \in file[s] : f.key = flusher[s] /\ f.key # 0
  BY <1>1
<1>6. KeysInv
  BY <1>1, <1>4, <1>5 DEF KeysInv, KeyStands
<1> QED  BY <1>2, <1>3, <1>6 DEF StoresInv

-----------------------------------------------------------------------------
(* The updaters.                                                           *)

\* A route that puts another selection or another source in force leaves a permit.
LEMMA HandleWakes ==
  ASSUME ConfigInv, NEW r \in Requests, Handle(r)
  PROVE  /\ UNCHANGED phase /\ wake \subseteq wake'
         /\ live'.bundles = live.bundles \/ "bundles" \in wake'
         /\ source' = source \/ "geoip" \in wake'
<1>1. CASE Acquire(r) \/ SaveSection(r) \/ SaveOverrides(r) \/ StoreCredentials(r)
           \/ ResetReadsCredentials(r) \/ ResetLoads(r)
  BY <1>1 DEF Acquire, SaveSection, SaveOverrides, StoreCredentials, ResetReadsCredentials,
              ResetLoads, memory
<1>2. CASE ApplyOverrides(r)
  BY <1>2 DEF ApplyOverrides
<1>3. CASE UpdateSource(r)
  BY <1>3 DEF UpdateSource
<1>4. CASE ResetCommits(r)
  BY <1>4 DEF ResetCommits
<1>5. CASE ApplySection(r)
  <2> DEFINE k == request[r].kind
             v == request[r].value
  <2>1. /\ k \in SectionRoutes /\ live' = [live EXCEPT ![k] = v]
        /\ wake' = wake \cup ({k} \cap {"bundles"}) /\ UNCHANGED <<phase, source>>
    BY <1>5 DEF ApplySection, Handles
  <2>2. live \in Config
    BY DEF ConfigInv, StateTyped
  <2> HIDE DEF k, v
  <2>3. CASE k = "bundles"
    BY <2>1, <2>3
  <2>4. CASE k \in {"runtime", "rating"}
    BY <2>1, <2>2, <2>4 DEF Config
  <2> QED  BY <2>1, <2>3, <2>4 DEF SectionRoutes
<1> QED  BY <1>1, <1>2, <1>3, <1>4, <1>5 DEF Handle

\* Away from the updaters' own steps, starts and crashes, only the permits and what
\* they are for may change.
LEMMA UpdatersFrame ==
  ASSUME UpdatersInv, UNCHANGED <<bundleVars, geoipVars>>, phase = "down" <=> phase' = "down",
         wake \subseteq wake',
         live'.bundles = live.bundles \/ "bundles" \in wake',
         source' = source \/ "geoip" \in wake'
  PROVE  UpdatersInv'
<1> USE DEF UpdatersInv, bundleVars, geoipVars
<1>1. BundlesTyped'
  BY DEF BundlesTyped
<1>2. ValidInv'
  BY DEF ValidInv, RefusedIsNeverUsed, Valid
<1>3. KeptInv'
  BY DEF KeptInv
<1>4. WakeInv'
  BY DEF WakeInv
<1>5. CountInv'
  BY DEF CountInv
<1> QED  BY <1>1, <1>2, <1>3, <1>4, <1>5

\* The bundle task between cycles, but for its step.
LEMMA ParkedIs ==
  ASSUME NEW selected, NEW step
  PROVE  [Parked(selected) EXCEPT !.step = step]
           = [step |-> step, selected |-> selected, todo |-> {}, got |-> {}, last |-> None]
BY DEF Parked

\* What was published when the task began to run.
LEMMA WarmLoadStep ==
  ASSUME ConfigInv, UpdatersInv, WarmLoad, UNCHANGED <<Elsewhere, geoipVars>>
  PROVE  UpdatersInv'
<1> USE DEF UpdatersInv, Elsewhere, geoipVars
<1>1. PICK here \in {{s \in bundles.selected : text[s] # None}} :
         /\ published' = IF here = {} THEN published
                         ELSE {[source |-> s, body |-> text[s]] : s \in here}
         /\ \E step \in {"parked", "cycle"} :
               bundles' = [Parked(bundles.selected) EXCEPT !.step = step]
  BY DEF WarmLoad
<1>2. /\ UNCHANGED <<wake, text, count, aged, skewed>> /\ phase = "up" /\ bundles.step = "begin"
      /\ here = {s \in bundles.selected : text[s] # None}
  BY <1>1 DEF WarmLoad, BundleStep
<1>3. PICK step \in {"parked", "cycle"} :
         bundles' = [step |-> step, selected |-> bundles.selected, todo |-> {}, got |-> {},
                     last |-> None]
  BY <1>1, ParkedIs
<1>4. BundlesTyped'
  BY <1>2, <1>3 DEF BundlesTyped
<1>5. \A p \in published' : /\ p.source \in Sources /\ p.body = text[p.source]
                            /\ text[p.source] # None
  <2>1. published = {} /\ here \subseteq Sources
    BY <1>2 DEF KeptInv, BundlesTyped
  <2> QED  BY <1>1, <1>2, <2>1
<1>6. ValidInv'
  BY <1>2, <1>3, <1>5 DEF ValidInv, RefusedIsNeverUsed
<1>7. KeptInv'
  BY <1>2, <1>3, <1>5 DEF KeptInv
<1>8. WakeInv'
  BY <1>2, <1>3 DEF WakeInv
<1>9. CountInv'
  BY <1>2, <1>3 DEF CountInv
<1> QED  BY <1>4, <1>6, <1>7, <1>8, <1>9

\* The permit is taken to begin a cycle, which reads the selection.
LEMMA UnparkStep ==
  ASSUME ConfigInv, UpdatersInv, Unpark, UNCHANGED <<Elsewhere, geoipVars>>
  PROVE  UpdatersInv'
<1> USE DEF UpdatersInv, Elsewhere, geoipVars
<1>1. /\ bundles' = [bundles EXCEPT !.step = "cycle"] /\ wake \ {"bundles"} \subseteq wake'
      /\ UNCHANGED <<text, count, aged, published, skewed>>
      /\ phase = "up" /\ bundles.step = "parked"
  BY DEF Unpark, Due, BundleStep
<1>2. bundles' = [step |-> "cycle", selected |-> bundles.selected, todo |-> bundles.todo,
                  got |-> bundles.got, last |-> bundles.last]
  BY <1>1 DEF BundlesTyped
<1>3. BundlesTyped'
  BY <1>1, <1>2 DEF BundlesTyped
<1>4. ValidInv'
  BY <1>1, <1>2 DEF ValidInv, RefusedIsNeverUsed
<1>5. KeptInv'
  BY <1>1, <1>2 DEF KeptInv
<1>6. WakeInv'
  BY <1>1, <1>2 DEF WakeInv
<1>7. CountInv'
  BY <1>1, <1>2 DEF CountInv
<1> QED  BY <1>3, <1>4, <1>5, <1>6, <1>7

\* A cycle begins with nothing in its hands.
LEMMA BeginCycleStep ==
  ASSUME ConfigInv, UpdatersInv, BeginCycle, UNCHANGED <<Elsewhere, geoipVars>>
  PROVE  UpdatersInv'
<1> USE DEF UpdatersInv, Elsewhere, geoipVars
<1>1. /\ UNCHANGED <<wake, text, count, aged, published, skewed>>
      /\ phase = "up" /\ bundles.step = "cycle"
  BY DEF BeginCycle, BundleStep
<1>2. PICK step \in {"parked", "fetch"} :
         bundles' = [step |-> step, selected |-> live.bundles, todo |-> live.bundles,
                     got |-> {}, last |-> None]
  BY DEF BeginCycle, Parked
<1>3. live.bundles \subseteq Sources
  BY DEF ConfigInv, StateTyped, Config
<1>4. BundlesTyped'
  BY <1>1, <1>2, <1>3 DEF BundlesTyped
<1>5. ValidInv'
  BY <1>1, <1>2 DEF ValidInv, RefusedIsNeverUsed
<1>6. KeptInv'
  BY <1>1, <1>2 DEF KeptInv
<1>7. WakeInv'
  BY <1>1, <1>2 DEF WakeInv
<1>8. CountInv'
  BY <1>1, <1>2 DEF CountInv
<1> QED  BY <1>4, <1>5, <1>6, <1>7, <1>8

\* The source fetched is one the cycle has not come to yet: what it has in its hands
\* of the others is as their files keep it.
LEMMA FetchStep ==
  ASSUME ConfigInv, UpdatersInv, Fetch, UNCHANGED <<Elsewhere, geoipVars>>
  PROVE  UpdatersInv'
<1> USE DEF UpdatersInv, Elsewhere, geoipVars
<1>1. PICK s \in bundles.todo :
         /\ text' = IF Accepted(s) THEN [text EXCEPT ![s] = feed[s]] ELSE text
         /\ Uses(s, text'[s], IF Accepted(s) THEN "count" ELSE "fetch")
  BY DEF Fetch
<1>2. /\ UNCHANGED <<wake, count, aged, published, skewed>>
      /\ phase = "up" /\ bundles.step = "fetch" /\ s \in Sources
  BY <1>1 DEF Fetch, BundleStep, BundlesTyped
<1> DEFINE step == IF Accepted(s) THEN "count" ELSE "fetch"
<1>3. bundles' = [step |-> step, selected |-> bundles.selected, todo |-> bundles.todo \ {s},
                  got |-> bundles.got \cup {[source |-> s, body |-> text'[s]]}, last |-> s]
  BY <1>1 DEF Uses, BundlesTyped
<1>4. step = "count" \/ (step = "fetch" /\ text' = text)
  BY <1>1
<1>5. /\ text' = [t \in Sources |-> text'[t]] /\ \A t \in Sources \ {s} : text'[t] = text[t]
      /\ text'[s] # None => Valid(text'[s])
  BY <1>1, <1>2 DEF BundlesTyped, ValidInv, RefusedIsNeverUsed, Accepted
<1> HIDE DEF step
<1>6. BundlesTyped'
  BY <1>2, <1>3, <1>4, <1>5 DEF BundlesTyped
<1>7. ValidInv'
  BY <1>2, <1>3, <1>5 DEF ValidInv, RefusedIsNeverUsed
<1>8. KeptInv'
  <2>1. \A g \in bundles'.got : g.source \in Sources \ bundles'.todo /\ g.body = text'[g.source]
    BY <1>2, <1>3, <1>5 DEF KeptInv
  <2> QED  BY <1>2, <1>3, <1>4, <2>1 DEF KeptInv
<1>9. WakeInv'
  BY <1>2, <1>3, <1>4 DEF WakeInv
<1>10. CountInv'
  BY <1>2, <1>3, <1>4, <1>5 DEF CountInv
<1> QED  BY <1>6, <1>7, <1>8, <1>9, <1>10

\* The count of the file just written is written, or known to be apart.
LEMMA WriteCountStep ==
  ASSUME ConfigInv, UpdatersInv, WriteCount, UNCHANGED <<Elsewhere, geoipVars>>
  PROVE  UpdatersInv'
<1> USE DEF UpdatersInv, Elsewhere, geoipVars
<1> DEFINE s == bundles.last
<1>1. /\ \/ count' = [count EXCEPT ![s] = text[s]] /\ skewed' = skewed \ {s}
         \/ count' = count /\ skewed' = skewed \cup {s}
      /\ bundles' = [bundles EXCEPT !.step = "fetch"]
      /\ UNCHANGED <<wake, text, published>> /\ phase = "up" /\ bundles.step = "count"
  BY DEF WriteCount, BundleStep
<1>2. s \in Sources
  BY <1>1 DEF BundlesTyped
<1>3. bundles' = [step |-> "fetch", selected |-> bundles.selected, todo |-> bundles.todo,
                  got |-> bundles.got, last |-> bundles.last]
  BY <1>1 DEF BundlesTyped
<1> HIDE DEF s
<1>4. BundlesTyped'
  BY <1>1, <1>2, <1>3 DEF BundlesTyped
<1>5. ValidInv'
  BY <1>1, <1>3 DEF ValidInv, RefusedIsNeverUsed
<1>6. KeptInv'
  BY <1>1, <1>3 DEF KeptInv
<1>7. WakeInv'
  BY <1>1, <1>3 DEF WakeInv
<1>8. CountInv'
  BY <1>1, <1>2, <1>3 DEF CountInv, BundlesTyped, s
<1> QED  BY <1>4, <1>5, <1>6, <1>7, <1>8

\* What the cycle has in its hands is what the files keep.
LEMMA PublishStep ==
  ASSUME ConfigInv, UpdatersInv, Publish, UNCHANGED <<Elsewhere, geoipVars>>
  PROVE  UpdatersInv'
<1> USE DEF UpdatersInv, Elsewhere, geoipVars
<1>1. /\ published' = bundles.got /\ bundles.step = "fetch" /\ phase = "up"
      /\ bundles' = [step |-> "parked", selected |-> bundles.selected, todo |-> {},
                     got |-> {}, last |-> None]
      /\ UNCHANGED <<wake, text, count, aged, skewed>>
  BY DEF Publish, BundleStep, Parked
<1>2. BundlesTyped'
  BY <1>1 DEF BundlesTyped
<1>3. ValidInv'
  BY <1>1 DEF ValidInv, RefusedIsNeverUsed
<1>4. KeptInv'
  BY <1>1 DEF KeptInv
<1>5. WakeInv'
  BY <1>1 DEF WakeInv
<1>6. CountInv'
  BY <1>1 DEF CountInv
<1> QED  BY <1>2, <1>3, <1>4, <1>5, <1>6

\* The GeoIP task takes a permit only to read the source in force.
LEMMA GeoipStepStep == ASSUME ConfigInv, UpdatersInv, GeoipStep PROVE UpdatersInv'
<1> USE DEF UpdatersInv, Elsewhere, bundleVars
<1>1. UNCHANGED <<Elsewhere, disturbances, feed, bundleVars>> /\ phase = "up"
  BY DEF GeoipStep, GeoipNext, GeoipBegin, GeoipUnpark, GeoipSnapshot, GeoipRefresh
<1>2. \/ geoip' = [step |-> geoip'.step, source |-> source] /\ UNCHANGED wake
      \/ geoip' = [geoip EXCEPT !.step = "cycle"] /\ wake \ {"geoip"} \subseteq wake'
      \/ geoip' = [geoip EXCEPT !.step = "parked"] /\ UNCHANGED wake /\ geoip.step = "refresh"
  <2>1. CASE GeoipBegin
    BY <2>1 DEF GeoipBegin
  <2>2. CASE GeoipUnpark
    BY <2>2 DEF GeoipUnpark, Due
  <2>3. CASE GeoipSnapshot
    BY <2>3 DEF GeoipSnapshot
  <2>4. CASE GeoipRefresh
    BY <2>4 DEF GeoipRefresh
  <2> QED  BY <2>1, <2>2, <2>3, <2>4 DEF GeoipStep, GeoipNext
<1>3. \/ geoip' = [step |-> geoip'.step, source |-> source] /\ UNCHANGED wake
      \/ /\ geoip' = [step |-> "cycle", source |-> geoip.source]
         /\ wake \ {"geoip"} \subseteq wake'
      \/ geoip' = [step |-> "parked", source |-> geoip.source] /\ UNCHANGED wake
           /\ geoip.step = "refresh"
  BY <1>2 DEF BundlesTyped
<1>4. BundlesTyped'
  BY <1>1, <1>3 DEF BundlesTyped
<1>5. ValidInv' /\ KeptInv' /\ CountInv'
  BY <1>1 DEF ValidInv, RefusedIsNeverUsed, KeptInv, CountInv
<1>6. WakeInv'
  BY <1>1, <1>3 DEF WakeInv
<1> QED  BY <1>4, <1>5, <1>6

\* A start: what the tasks begin with is what it has just put in force.
LEMMA UpdatersStartStep == ASSUME ConfigInv, UpdatersInv, StartAll PROVE UpdatersInv'
<1> USE DEF UpdatersInv
<1>1. /\ phase = "down" /\ phase' = "log" /\ live' = config /\ config # Broken
      /\ bundles' = [Parked(live'.bundles) EXCEPT !.step = "begin"]
      /\ published' = {} /\ geoip' = [step |-> "begin", source |-> source']
      /\ UNCHANGED <<feed, text, count, aged, mmdb, skewed>>
  BY DEF StartAll, Start, UpdatersStart
<1>2. bundles' = [step |-> "begin", selected |-> live'.bundles, todo |-> {}, got |-> {},
                  last |-> None]
  BY <1>1, ParkedIs
<1>3. live'.bundles \subseteq Sources
  BY <1>1 DEF ConfigInv, StateTyped, Config
<1>4. BundlesTyped'
  BY <1>1, <1>2, <1>3 DEF BundlesTyped
<1>5. ValidInv'
  BY <1>1, <1>2 DEF ValidInv, RefusedIsNeverUsed
<1>6. KeptInv'
  BY <1>1, <1>2 DEF KeptInv
<1>7. WakeInv'
  BY <1>1, <1>2 DEF WakeInv
<1>8. CountInv'
  <2>1. bundles.step = "parked"
    BY <1>1 DEF BundlesTyped
  <2> QED  BY <1>1, <2>1 DEF CountInv
<1> QED  BY <1>4, <1>5, <1>6, <1>7, <1>8

\* A crash: the one count not written yet is known to be apart.
LEMMA UpdatersCrashStep == ASSUME ConfigInv, UpdatersInv, CrashAll PROVE UpdatersInv'
<1> USE DEF UpdatersInv
<1>1. /\ phase' = "down" /\ bundles' = Parked({})
      /\ skewed' = IF bundles.step = "count" THEN skewed \cup {bundles.last} ELSE skewed
      /\ UNCHANGED <<feed, text, count, aged, published, geoipVars>>
  BY DEF CrashAll, Crash, UpdatersCrash
<1>2. bundles' = [step |-> "parked", selected |-> {}, todo |-> {}, got |-> {}, last |-> None]
  BY <1>1 DEF Parked
<1>3. BundlesTyped'
  BY <1>1, <1>2 DEF BundlesTyped, geoipVars
<1>4. ValidInv'
  BY <1>1, <1>2 DEF ValidInv, RefusedIsNeverUsed
<1>5. KeptInv' /\ WakeInv'
  BY <1>1, <1>2 DEF KeptInv, WakeInv
<1>6. CountInv'
  BY <1>1 DEF CountInv
<1> QED  BY <1>3, <1>4, <1>5, <1>6

\* Every step of the whole keeps what is known of the updaters.
LEMMA UpdatersNext == ASSUME ConfigInv, UpdatersInv, [Next]_vars PROVE UpdatersInv'
<1>1. ASSUME UNCHANGED <<phase, live, source, wake, bundleVars, geoipVars>> PROVE UpdatersInv'
  BY <1>1, UpdatersFrame
<1>2. CASE \E r \in Requests : Serve(r)
  BY <1>2, HandleWakes, UpdatersFrame DEF Serve, updaterVars
<1>3. CASE User
  BY <1>1, <1>3 DEF User, AdminPost, Post, EditConfig, EditOverrides, memory, updaterVars
<1>4. CASE StartAll
  BY <1>4, UpdatersStartStep
<1>5. CASE CrashAll
  BY <1>5, UpdatersCrashStep
<1>6. CASE StartCrash \/ Browse \/ Certify
  BY <1>1, <1>6 DEF StartCrash, Browse, Certify, Settings, updaterVars
<1>7. CASE Remember
  <2>1. StateTyped
    BY DEF ConfigInv
  <2>2. /\ UNCHANGED <<live, source, wake, bundleVars, geoipVars>>
        /\ phase = "down" <=> phase' = "down"
    BY <1>7, <2>1, RememberFacts DEF Settings, updaterVars, Stores
  <2> QED  BY <2>2, UpdatersFrame
<1>8. CASE Update
  <2>1. CASE BundlesStep
    <3>1. BundlesNext /\ UNCHANGED <<Elsewhere, geoipVars>>
      BY <2>1 DEF BundlesStep
    <3> QED  BY <3>1, WarmLoadStep, UnparkStep, BeginCycleStep, FetchStep, WriteCountStep,
                PublishStep DEF BundlesNext
  <2>2. CASE GeoipStep
    BY <2>2, GeoipStepStep
  <2>3. CASE FeedChanges /\ UNCHANGED Elsewhere
    BY <1>1, <2>3 DEF FeedChanges, Elsewhere
  <2>4. CASE (\E s \in Sources : AgesOut(s)) /\ UNCHANGED <<Elsewhere, geoipVars>>
    <3>1. UNCHANGED <<phase, live, source, wake, bundles, text, count, published, skewed,
                      geoip>>
      BY <2>4 DEF AgesOut, Elsewhere, geoipVars
    <3> QED  BY <3>1 DEF UpdatersInv, BundlesTyped, ValidInv, RefusedIsNeverUsed, KeptInv,
                        WakeInv, CountInv
  <2> QED  BY <1>8, <2>1, <2>2, <2>3, <2>4 DEF Update, UpdatersStep
<1>9. CASE UNCHANGED vars
  BY <1>1, <1>9 DEF vars, configVars, memory, updaterVars
<1> QED  BY <1>2, <1>3, <1>4, <1>5, <1>6, <1>7, <1>8, <1>9 DEF Next

\* A service that has been up for long: what is published is what the files keep.
LEMMA UpdatersInitInv == ASSUME ConfigInv, ConfigInit, UpdatersInit PROVE UpdatersInv
<1>1. /\ feed = [s \in Sources \cup Origins |-> "some"] /\ bundles = Parked(live.bundles)
      /\ text = [s \in Sources |-> IF s \in live.bundles THEN feed[s] ELSE None]
      /\ count = text /\ geoip = [step |-> "parked", source |-> source] /\ phase = "up"
      /\ published = {[source |-> s, body |-> text[s]] : s \in live.bundles}
  BY DEF UpdatersInit, ConfigInit
<1>2. bundles = [step |-> "parked", selected |-> live.bundles, todo |-> {}, got |-> {},
                 last |-> None]
  BY <1>1 DEF Parked
<1>3. live.bundles \subseteq Sources
  BY DEF ConfigInv, StateTyped, Config
<1>4. BundlesTyped
  BY <1>1, <1>2, <1>3 DEF BundlesTyped
<1>5. \A s \in Sources : text[s] = None \/ Valid(text[s])
  BY <1>1 DEF Valid
<1>6. \A p \in published : p.source \in Sources /\ p.body = text[p.source]
  <2>1. published = {[source |-> s, body |-> text[s]] : s \in live.bundles}
    BY <1>1
  <2> QED  BY <1>3, <2>1
<1>7. ValidInv /\ KeptInv
  BY <1>2, <1>5, <1>6 DEF ValidInv, RefusedIsNeverUsed, KeptInv
<1>8. WakeInv /\ CountInv
  BY <1>1, <1>2 DEF WakeInv, CountInv
<1> QED  BY <1>4, <1>7, <1>8 DEF UpdatersInv

-----------------------------------------------------------------------------
(* The certificate.                                                        *)

\* An action as it is but for its step and certificate.
LEMMA ChangedJob ==
  ASSUME NEW q, q = [kind |-> q.kind, step |-> q.step, cert |-> q.cert], NEW step, NEW cert
  PROVE  [q EXCEPT !.step = step, !.cert = cert] = [kind |-> q.kind, step |-> step, cert |-> cert]
<1> DEFINE k == q.kind  s == q.step  c == q.cert
           first == [q EXCEPT !.step = step]
<1>1. q = [kind |-> k, step |-> s, cert |-> c]
  OBVIOUS
<1> HIDE DEF k, s, c
<1>2. first = [kind |-> k, step |-> step, cert |-> c]
  BY <1>1
<1>3. [q EXCEPT !.step = step, !.cert = cert] = [first EXCEPT !.cert = cert]
  OBVIOUS
<1> HIDE DEF first
<1>4. [first EXCEPT !.cert = cert] = [kind |-> k, step |-> step, cert |-> cert]
  BY <1>2
<1> QED  BY <1>3, <1>4 DEF k

\* Whatever action steps, ends or begins, what has come last is still what it was,
\* or is no longer claimed.
LEMMA CertSteps ==
  ASSUME CertInv, Certify
  PROVE  CertInv'
<1> USE DEF CertInv
<1>1. CASE LoadsPair
  <2>1. /\ job["start"] = Rest /\ served = 0 /\ served' = certPem
        /\ UNCHANGED <<certPem, root, job, made>>
        /\ lately' = IF ~AtRest THEN "other"
                     ELSE IF lately = "installed" THEN lately ELSE "started"
    BY <1>1 DEF LoadsPair
  <2>2. AtRest => \A a \in Actions : job[a] = Rest
    BY DEF AtRest, Jobs
  <2> QED  BY <2>1, <2>2 DEF Installs, Starts
<1>2. CASE MakesPair
  <2>1. /\ job' = [job EXCEPT !["start"] = [kind |-> "start", step |-> "write", cert |-> made']]
        /\ lately' = IF AtRest THEN "starting" ELSE "other"
        /\ served = 0 /\ UNCHANGED <<certPem, keyPem, root, served>>
    BY <1>2 DEF MakesPair
  <2>2. AtRest => \A a \in Actions : job[a] = Rest
    BY DEF AtRest, Jobs
  <2>3. /\ job'["start"] = [kind |-> "start", step |-> "write", cert |-> made']
        /\ \A a \in Actions : job'[a] = job[a]
        /\ job' = [j \in Jobs |-> [kind |-> job'[j].kind, step |-> job'[j].step,
                                   cert |-> job'[j].cert]]
    BY <2>1, ActionsAssumption DEF Jobs
  <2>4. Starts(job["start"])'
    BY <2>3 DEF Starts
  <2>5. lately' = "other" \/ (lately' = "starting" /\ \A a \in Actions : job[a] = Rest)
    BY <2>1, <2>2
  <2> QED  BY <2>1, <2>3, <2>4, <2>5
<1>3. CASE LoseTlsKey
  BY <1>3 DEF LoseTlsKey, Others, Installs, Starts
<1>4. ASSUME NEW j \in Jobs, ClearRoot(j) PROVE CertInv'
  <2>1. job[j].step = "clear" /\ UNCHANGED <<certPem, served, lately>>
        /\ (UNCHANGED job \/ Ends(j) \/ GoesOn(j, "write"))
    BY <1>4 DEF ClearRoot
  <2>2. lately = "other"
    BY <2>1 DEF Jobs, Installs, Starts, Rest, None
  <2>3. job' = [i \in Jobs |-> [kind |-> job'[i].kind, step |-> job'[i].step,
                                cert |-> job'[i].cert]]
    BY <2>1 DEF Ends, GoesOn, Rest
  <2> QED  BY <2>1, <2>2, <2>3
<1>5. ASSUME NEW j \in Jobs, WriteCert(j) PROVE CertInv'
  <2>1. /\ job[j].step = "write" /\ UNCHANGED <<served, root, lately>>
        /\ Ends(j) \/ (GoesOn(j, "store") /\ certPem' = job[j].cert)
    BY <1>5 DEF WriteCert, Others
  <2>2. lately \in {"started", "installed"} => FALSE
    BY <2>1 DEF Jobs, Installs, Rest, None
  <2>3. lately = "starting" => j = "start"
    BY <2>1 DEF Jobs, Rest, None
  <2>4. CASE Ends(j)
    <3>1. /\ job' = [i \in Jobs |-> [kind |-> job'[i].kind, step |-> job'[i].step,
                                     cert |-> job'[i].cert]]
          /\ job'[j] = Rest /\ \A i \in Jobs \ {j} : job'[i] = job[i]
      BY <2>4 DEF Ends, Rest
    <3> QED  BY <2>1, <2>2, <2>3, <3>1 DEF Starts, Jobs
  <2>5. CASE GoesOn(j, "store") /\ certPem' = job[j].cert
    <3>1. /\ job' = [i \in Jobs |-> [kind |-> job'[i].kind, step |-> job'[i].step,
                                     cert |-> job'[i].cert]]
          /\ job'[j] = [kind |-> job[j].kind, step |-> "store", cert |-> job[j].cert]
          /\ \A i \in Jobs \ {j} : job'[i] = job[i]
      BY <2>5 DEF GoesOn
    <3>2. lately = "starting" => Starts(job["start"]) /\ job["start"] # Rest
      BY <2>1, <2>3 DEF Rest, None
    <3>3. lately = "starting" => Starts(job["start"])'
      BY <2>3, <2>5, <3>1, <3>2 DEF Starts
    <3> QED  BY <2>1, <2>2, <2>3, <3>1, <3>3, ActionsAssumption DEF Jobs
  <2> QED  BY <2>1, <2>4, <2>5
<1>6. ASSUME NEW j \in Jobs, StoreKey(j) PROVE CertInv'
  <2>1. PICK fails \in BOOLEAN :
          /\ served' = IF j = "start" /\ ~fails THEN job[j].cert ELSE served
          /\ lately' = IF j # "start" THEN lately
                       ELSE IF lately = "starting" /\ ~fails THEN "started" ELSE "other"
          /\ IF ~fails /\ j # "start" THEN GoesOn(j, "look") ELSE Ends(j)
    BY <1>6 DEF StoreKey
  <2>2. job[j].step = "store" /\ UNCHANGED <<certPem, root>>
    BY <1>6 DEF StoreKey
  <2>3. lately \in {"started", "installed"} => FALSE
    BY <2>2 DEF Jobs, Installs, Rest, None
  <2>4. lately = "starting" => j = "start" /\ certPem = job[j].cert
    BY <2>2 DEF Jobs, Starts, Rest, None
  <2>5. /\ job' = [i \in Jobs |-> [kind |-> job'[i].kind, step |-> job'[i].step,
                                   cert |-> job'[i].cert]]
        /\ \A i \in Jobs \ {j} : job'[i] = job[i]
    BY <2>1 DEF Ends, GoesOn, Rest
  <2>6. j = "start" => job'[j] = Rest
    BY <2>1 DEF Ends
  <2>7. CASE j # "start"
    BY <2>1, <2>3, <2>4, <2>5, <2>7
  <2>8. CASE j = "start" /\ lately' = "other"
    BY <2>5, <2>8
  <2>9. CASE j = "start" /\ lately' = "started" /\ lately = "starting" /\ ~fails
    <3>1. \A a \in Actions : Installs(job[a])'
      BY <2>5, <2>9, ActionsAssumption DEF Jobs, Installs
    <3> QED  BY <2>1, <2>2, <2>4, <2>5, <2>6, <2>9, <3>1
  <2> QED  BY <2>1, <2>7, <2>8, <2>9
<1>7. ASSUME NEW j \in Jobs, LookUp(j) PROVE CertInv'
  <2>1. /\ job[j].step = "look" /\ UNCHANGED <<certPem, root, served>>
        /\ \/ Ends(j) /\ UNCHANGED lately
           \/ Ends(j) /\ certPem \in root /\ Installed
           \/ /\ job' = [job EXCEPT ![j] = [kind |-> job[j].kind, step |-> "add",
                                              cert |-> certPem]]
              /\ UNCHANGED lately
    <3>1. \/ Ends(j) /\ UNCHANGED lately
          \/ Ends(j) /\ certPem \in root /\ Installed
          \/ job' = [job EXCEPT ![j].step = "add", ![j].cert = certPem] /\ UNCHANGED lately
      BY <1>7 DEF LookUp, Trusted
    <3>2. [job EXCEPT ![j].step = "add", ![j].cert = certPem]
            = [job EXCEPT ![j] = [kind |-> job[j].kind, step |-> "add", cert |-> certPem]]
      <4>1. [job EXCEPT ![j].step = "add", ![j].cert = certPem]
              = [job EXCEPT ![j] = [job[j] EXCEPT !.step = "add", !.cert = certPem]]
        OBVIOUS
      <4>2. job[j] = [kind |-> job[j].kind, step |-> job[j].step, cert |-> job[j].cert]
        OBVIOUS
      <4> QED  BY <4>1, <4>2, ChangedJob
    <3> QED  BY <1>7, <3>1, <3>2 DEF LookUp, Others
  <2>2. /\ lately # "starting"
        /\ lately \in {"started", "installed"} => j \in Actions /\ job[j].kind = "install"
    BY <2>1 DEF Jobs, Installs, Starts, Rest, None
  <2>3. /\ job' = [i \in Jobs |-> [kind |-> job'[i].kind, step |-> job'[i].step,
                                   cert |-> job'[i].cert]]
        /\ \A i \in Jobs \ {j} : job'[i] = job[i]
        /\ \/ job'[j] = Rest
           \/ job'[j] = [kind |-> job[j].kind, step |-> "add", cert |-> certPem]
    BY <2>1 DEF Ends, Rest
  <2>4. lately \in {"started", "installed"} =>
          job'["start"] = Rest /\ \A a \in Actions : Installs(job[a])'
    <3>1. SUFFICES ASSUME lately \in {"started", "installed"}
                   PROVE job'["start"] = Rest /\ \A a \in Actions : Installs(job[a])'
      OBVIOUS
    <3>2. \A a \in Actions : Installs(job[a])
      BY <3>1
    <3>3. job'[j] = Rest \/ (job'[j].kind = "install" /\ job'[j].step = "add"
                               /\ job'[j].cert = certPem)
      BY <2>2, <2>3, <3>1
    <3>4. ASSUME NEW a \in Actions PROVE Installs(job[a])'
      <4>1. UNCHANGED certPem /\ a \in Jobs
        BY <2>1 DEF Jobs
      <4>2. CASE a = j
        BY <3>3, <4>1, <4>2 DEF Installs
      <4>3. CASE a # j
        BY <2>3, <3>2, <4>1, <4>3 DEF Installs
      <4> QED  BY <4>2, <4>3
    <3>5. job'["start"] = Rest
      BY <2>2, <2>3, <3>1, ActionsAssumption DEF Jobs
    <3> QED  BY <3>4, <3>5
  <2>5. /\ lately' = lately \/ (lately = "started" /\ lately' = "installed" /\ certPem \in root)
    BY <2>1 DEF Installed
  <2> QED  BY <2>1, <2>2, <2>3, <2>4, <2>5
<1>8. ASSUME NEW j \in Jobs, AddToRoot(j) PROVE CertInv'
  <2>1. /\ job[j].step = "add" /\ UNCHANGED <<certPem, served>> /\ Ends(j)
        /\ \/ UNCHANGED <<root, lately>>
           \/ root' = root \cup {job[j].cert} /\ Installed
    BY <1>8 DEF AddToRoot
  <2>2. /\ lately # "starting"
        /\ lately \in {"started", "installed"} => j \in Actions /\ job[j].cert = certPem
    BY <2>1 DEF Jobs, Installs, Starts, Rest, None
  <2>3. /\ job' = [i \in Jobs |-> [kind |-> job'[i].kind, step |-> job'[i].step,
                                   cert |-> job'[i].cert]]
        /\ \A i \in Jobs \ {j} : job'[i] = job[i]
        /\ job'[j] = Rest
    BY <2>1 DEF Ends, Rest
  <2>4. lately \in {"started", "installed"} =>
          job'["start"] = Rest /\ \A a \in Actions : Installs(job[a])'
    BY <2>1, <2>2, <2>3, ActionsAssumption DEF Jobs, Installs
  <2>5. CASE UNCHANGED <<root, lately>>
    BY <2>1, <2>2, <2>3, <2>4, <2>5
  <2>6. CASE root' = root \cup {job[j].cert} /\ Installed
    BY <2>1, <2>2, <2>3, <2>4, <2>6 DEF Installed
  <2> QED  BY <2>1, <2>5, <2>6
<1>9. ASSUME NEW a \in Actions, Abandoned(a) PROVE CertInv'
  <2>1. UNCHANGED <<certPem, root, served, lately>> /\ Ends(a)
    BY <1>9 DEF Abandoned, Others
  <2>2. /\ job' = [i \in Jobs |-> [kind |-> job'[i].kind, step |-> job'[i].step,
                                   cert |-> job'[i].cert]]
        /\ \A i \in Jobs \ {a} : job'[i] = job[i]
        /\ job'[a] = Rest
    BY <2>1 DEF Ends, Rest, Jobs
  <2>3. lately \in {"started", "installed"} =>
          job'["start"] = Rest /\ \A b \in Actions : Installs(job[b])'
    BY <2>1, <2>2, ActionsAssumption DEF Jobs, Installs
  <2>4. lately = "starting" =>
          Starts(job["start"])' /\ \A b \in Actions : job'[b] = Rest
    <3>1. a # "start" /\ "start" \in Jobs /\ Actions \subseteq Jobs
      BY ActionsAssumption DEF Jobs
    <3>2. job'["start"] = job["start"] /\ \A b \in Actions : job'[b] = job[b] \/ job'[b] = Rest
      BY <2>2, <3>1
    <3>3. UNCHANGED certPem /\ (Starts(job["start"]) => Starts(job["start"])')
      BY <2>1, <3>2 DEF Starts
    <3>4. /\ lately = "starting" => Starts(job["start"])
          /\ lately = "starting" => \A b \in Actions : job[b] = Rest
      OBVIOUS
    <3>5. lately = "starting" => Starts(job["start"])'
      BY <3>3, <3>4 DEF Starts
    <3>6. ASSUME lately = "starting", NEW b \in Actions PROVE job'[b] = Rest
      <4>1. job[b] = Rest
        BY <3>4, <3>6
      <4> QED  BY <3>2, <4>1
    <3> QED  BY <3>5, <3>6 DEF Starts
  <2> QED  BY <2>1, <2>2, <2>3, <2>4
<1>10. ASSUME NEW a \in Actions, Begin(a) PROVE CertInv'
  <2>1. PICK kind \in {"install", "uninstall", "rotate"} :
          /\ job' = [job EXCEPT ![a] = [kind |-> kind,
                         step |-> IF kind = "install" THEN "look" ELSE "clear",
                         cert |-> IF kind = "rotate" THEN made' ELSE 0]]
          /\ lately' = IF kind = "install" /\ lately # "starting" THEN lately ELSE "other"
    BY <1>10 DEF Begin
  <2>2. UNCHANGED <<certPem, root, served>>
    BY <1>10 DEF Begin
  <2>3. /\ job' = [i \in Jobs |-> [kind |-> job'[i].kind, step |-> job'[i].step,
                                   cert |-> job'[i].cert]]
        /\ \A i \in Jobs \ {a} : job'[i] = job[i]
        /\ job'[a].kind = kind /\ job'[a].step = IF kind = "install" THEN "look" ELSE "clear"
    BY <2>1 DEF Jobs
  <2>4. CASE lately' = "other"
    BY <2>3, <2>4
  <2>5. CASE lately' # "other"
    <3>1. kind = "install" /\ lately' = lately /\ lately # "starting" /\ lately # "other"
      BY <2>1, <2>5
    <3>2. job'["start"] = Rest /\ \A b \in Actions : Installs(job[b])'
      BY <2>2, <2>3, <3>1, ActionsAssumption DEF Jobs, Installs
    <3> QED  BY <2>2, <2>3, <3>1, <3>2
  <2> QED  BY <2>4, <2>5
<1>11. (CHOOSE b \in Actions : (\E c \in Actions : job[c] = Rest) => job[b] = Rest) \in Actions
  <2>1. \E b \in Actions : (\E c \in Actions : job[c] = Rest) => job[b] = Rest
    BY ActionsAssumption
  <2> QED  BY <2>1
<1> QED  BY <1>1, <1>2, <1>3, <1>4, <1>5, <1>6, <1>7, <1>8, <1>9, <1>10, <1>11
            DEF Certify, CertificateStep

\* Every step of the whole keeps what is known of the certificate.
LEMMA CertNext == ASSUME CertInv, [Next]_vars PROVE CertInv'
<1>1. CASE UNCHANGED certVars
  BY <1>1 DEF certVars, CertInv, Installs, Starts
<1>2. CASE CertificateCrash
  <2>1. /\ served' = 0 /\ job' = [job EXCEPT !["start"] = Rest]
        /\ lately' = IF lately = "starting" THEN "other" ELSE lately
        /\ UNCHANGED <<certPem, tlsKey, keyPem, root, made>>
    BY <1>2 DEF CertificateCrash
  <2>2. /\ job'["start"] = Rest /\ \A a \in Actions : job'[a] = job[a]
        /\ job' = [j \in Jobs |-> [kind |-> job'[j].kind, step |-> job'[j].step,
                                   cert |-> job'[j].cert]]
    BY <2>1, ActionsAssumption DEF CertInv, Jobs, Rest
  <2>3. lately' # "starting" /\ lately' \in {"started", "installed", "other"}
    BY <2>1 DEF CertInv
  <2>4. lately' \in {"started", "installed"} => \A a \in Actions : Installs(job[a])'
    BY <2>1, <2>2 DEF CertInv, Installs
  <2> QED  BY <2>1, <2>2, <2>3, <2>4 DEF CertInv
<1>3. CASE Certify
  BY <1>3, CertSteps
<1>4. UNCHANGED certVars \/ CertificateCrash \/ Certify
  BY DEF Next, vars, Serve, User, StartAll, CrashAll, StartCrash, Remember, Update, Browse
<1> QED  BY <1>1, <1>2, <1>3, <1>4

\* A pair in use and trusted, with no action under way.
LEMMA CertInitInv == CertificateInit => CertInv
BY DEF CertificateInit, CertInv, Installs, Rest, Jobs

-----------------------------------------------------------------------------
(* The whole.                                                              *)

IndInv == ConfigInv /\ StoresInv /\ UpdatersInv /\ CertInv

\* The invariants of the parts, together.
LEMMA Invariance == Spec => []IndInv
<1>1. Init => IndInv
  BY ConfigInitInv, StoresInitInv, UpdatersInitInv, CertInitInv DEF Init, IndInv
<1>2. IndInv /\ [Next]_vars => IndInv'
  <2> SUFFICES ASSUME IndInv, [Next]_vars PROVE IndInv'
    OBVIOUS
  <2>1. ConfigInv' /\ CertInv' /\ StateTyped
    BY ConfigInvNext, CertNext DEF IndInv, ConfigInv
  <2>2. StoresInv'
    BY <2>1, StoresTypedStep, KeysStep, FlushedStep DEF IndInv, StoresInv
  <2>3. UpdatersInv'
    BY UpdatersNext DEF IndInv
  <2> QED  BY <2>1, <2>2, <2>3 DEF IndInv
<1> QED  BY <1>1, <1>2, PTL DEF Spec

\* The settings, in memory, on disk and under their locks, are what they are declared
\* to be, and every request has as many locks as it has taken.
THEOREM ConfigTypeCorrect == Spec => []ConfigTypeOK
<1>1. IndInv => ConfigTypeOK
  BY ConfigInvAgrees DEF IndInv
<1> QED  BY <1>1, Invariance, PTL

(***************************************************************************)
(* A section answered `persisted` is on disk, whatever other routes, resets*)
(* and crashes do, until the user edits the file.                          *)
(***************************************************************************)
THEOREM AcknowledgedIsOnDiskCorrect == Spec => []AcknowledgedIsOnDisk
<1>1. IndInv => AcknowledgedIsOnDisk
  BY ConfigInvAgrees DEF IndInv
<1> QED  BY <1>1, Invariance, PTL

(***************************************************************************)
(* With nobody at work on it, and no failure or edit since, each file says *)
(* what is in force.                                                       *)
(***************************************************************************)
THEOREM MemoryAgreesWithDiskCorrect == Spec => []MemoryAgreesWithDisk
<1>1. IndInv => MemoryAgreesWithDisk
  BY ConfigInvAgrees DEF IndInv
<1> QED  BY <1>1, Invariance, PTL

\* No save of overrides.toml drops the lines the service has not understood.
THEOREM TyposSurviveCorrect == Spec => []TyposSurvive
<1>1. IndInv => TyposSurvive
  BY ConfigInvAgrees DEF IndInv
<1> QED  BY <1>1, Invariance, PTL

(***************************************************************************)
(* A fact once flushed is never overwritten unread, whatever keys are lost,*)
(* starts end half-way and stores are switched off and on.                 *)
(***************************************************************************)
THEOREM FlushedIsKeptCorrect == Spec => []FlushedIsKept
<1>1. IndInv => FlushedIsKept
  BY DEF IndInv, StoresInv, FlushedInv
<1> QED  BY <1>1, Invariance, PTL

\* The key a file is sealed with is the one stored, or one the store has lost.
THEOREM FilesOpenWithTheStoredKeyCorrect == Spec => []FilesOpenWithTheStoredKey
<1>1. IndInv => FilesOpenWithTheStoredKey
  BY DEF IndInv, StoresInv, KeysInv, KeyStands, FilesOpenWithTheStoredKey
<1> QED  BY <1>1, Invariance, PTL

\* No refused list is in force, or kept for a later cycle to fall back on.
THEOREM RefusedIsNeverUsedCorrect == Spec => []RefusedIsNeverUsed
<1>1. IndInv => RefusedIsNeverUsed
  BY DEF IndInv, UpdatersInv, ValidInv
<1> QED  BY <1>1, Invariance, PTL

\* Between cycles, what is in force of a source is what its file keeps.
THEOREM PublishedIsKeptCorrect == Spec => []PublishedIsKept
<1>1. IndInv => PublishedIsKept
  BY DEF IndInv, UpdatersInv, KeptInv, PublishedIsKept
<1> QED  BY <1>1, Invariance, PTL

(***************************************************************************)
(* No wake is lost: whenever a route changes the selection or the source,  *)
(* the task that is to follow has a permit, or is about to look.           *)
(***************************************************************************)
THEOREM ChangesWakeTheTasksCorrect == Spec => []ChangesWakeTheTasks
<1>1. IndInv => ChangesWakeTheTasks
  BY DEF IndInv, UpdatersInv, WakeInv, ChangesWakeTheTasks
<1> QED  BY <1>1, Invariance, PTL

(***************************************************************************)
(* Within the grace period no step takes a list to more than five times its*)
(* size, or less than a fifth: the count it is compared with is that of the*)
(* file it replaces.                                                       *)
(***************************************************************************)
THEOREM NoSuddenChangeCorrect == Spec => NoSuddenChange
<1> DEFINE Moderate == \A s \in Sources \ (aged \cup skewed) :
                          text'[s] # text[s] => WithinDelta(text'[s], text[s])
<1>1. IndInv /\ [Next]_vars => Moderate
  <2> SUFFICES ASSUME IndInv, [Next]_vars, NEW s \in Sources \ (aged \cup skewed),
                      text'[s] # text[s]
               PROVE  WithinDelta(text'[s], text[s])
    OBVIOUS
  <2>1. Fetch
    <3>1. StateTyped
      BY DEF IndInv, ConfigInv
    <3>2. ~UNCHANGED text
      OBVIOUS
    <3>3. ~(Remember \/ Browse \/ Certify)
      BY <3>1, <3>2, RememberFacts, BrowseFacts, CertifyFacts DEF updaterVars, bundleVars
    <3>4. ~(User \/ StartAll \/ CrashAll \/ StartCrash \/ UNCHANGED vars
             \/ \E r \in Requests : Serve(r))
      BY <3>2 DEF User, StartAll, CrashAll, StartCrash, vars, Serve, UpdatersStart,
                  UpdatersCrash, updaterVars, bundleVars
    <3>5. UpdatersStep
      BY <3>3, <3>4 DEF Next, Update
    <3> QED  BY <3>2, <3>5 DEF UpdatersStep, BundlesStep, GeoipStep, FeedChanges, AgesOut,
             BundlesNext, WarmLoad, Unpark, BeginCycle, WriteCount, Publish, bundleVars
  <2>2. PICK t \in bundles.todo :
           text' = IF Accepted(t) THEN [text EXCEPT ![t] = feed[t]] ELSE text
    BY <2>1 DEF Fetch
  <2>3. text'[s] = feed[s] /\ Accepted(s)
    BY <2>2 DEF IndInv, UpdatersInv, BundlesTyped
  <2>4. count[s] = text[s]
    BY <2>1 DEF IndInv, UpdatersInv, CountInv, Fetch, BundleStep
  <2> QED  BY <2>3, <2>4 DEF Accepted
<1>2. IndInv /\ [Next]_vars => [Moderate]_<<text, count, aged, skewed>>
  BY <1>1
<1> QED  BY <1>2, Invariance, PTL DEF Spec, NoSuddenChange

(***************************************************************************)
(* A start and then an install, with no removal or rotation at work        *)
(* meanwhile, mend whatever has failed or crossed before.                  *)
(***************************************************************************)
THEOREM StartAndInstallMendCorrect == Spec => []StartAndInstallMend
<1>1. IndInv => StartAndInstallMend
  BY DEF IndInv, CertInv, StartAndInstallMend
<1> QED  BY <1>1, Invariance, PTL

-----------------------------------------------------------------------------
(* The personal zone, within the whole.                                    *)

\* Only what reads, writes or ends the tally, or counts a visit, changes the zone.
LEMMA ZoneNext == ASSUME ZoneInv, [Next]_vars PROVE ZoneInv'
<1>1. CASE UNCHANGED zoneVars
  BY <1>1 DEF zoneVars, ZoneInv
<1>2. CASE UNCHANGED vars
  BY <1>1, <1>2 DEF vars
<1>3. CASE (\E r \in Requests : Serve(r)) \/ User \/ StartAll \/ StartCrash \/ Update \/ Certify
  <2>1. UNCHANGED zoneVars
    BY <1>3 DEF Serve, User, StartAll, StartCrash, Update, Certify
  <2> QED  BY <1>1, <2>1
<1>4. CASE CrashAll
  BY <1>4, ZoneCrashKeeps DEF CrashAll
<1>5. CASE Browse
  BY <1>5, ClockOrTableKeeps, VisitKeeps DEF Browse
<1>6. CASE Remember
  <2>1. CASE Restore
    <3>1. {} \in SUBSET saved /\ Opened \in SUBSET saved
      BY DEF Opened
    <3>2. \/ UNCHANGED zoneVars
          \/ \E opened \in SUBSET saved : \E on, moved : ZoneStarts(opened, on, moved)
      BY <2>1, <3>1 DEF Restore
    <3> QED  BY <1>1, <3>2, ZoneStartsKeeps
  <2>2. CASE Write
    BY <1>1, <2>2, RepublishKeeps DEF Write
  <2>3. CASE UNCHANGED zoneVars
    BY <1>1, <2>3
  <2> QED  BY <1>6, <2>1, <2>2, <2>3 DEF Remember
<1> QED  BY <1>2, <1>3, <1>4, <1>5, <1>6 DEF Next

(***************************************************************************)
(* The hosts that qualify are those a count over the visits on record comes*)
(* to, whatever the clock, the table, the restarts and the evictions: for  *)
(* every set of hosts and tables, any cap and any number of days.          *)
(***************************************************************************)
THEOREM TheZoneIsWhatTheVisitsSayCorrect == Spec => []TheZoneIsWhatTheVisitsSay
<1>1. Init => ZoneInv
  BY ZoneInitInv DEF Init
<1>2. ZoneInv /\ [Next]_vars => ZoneInv'
  BY ZoneNext
<1> QED  BY <1>1, <1>2, ZoneInvSays, PTL DEF Spec
=============================================================================
