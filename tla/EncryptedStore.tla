--------------------------- MODULE EncryptedStore ---------------------------
(***************************************************************************)
(* What the service remembers in encrypted files: the query log, the cache *)
(* and the rating-filter removals under one shared key, the personal zone  *)
(* under its own.  A start obtains the key of each store that is switched  *)
(* on, restores its file, and runs a flusher that rewrites the file every  *)
(* minute; a file that cannot be opened is moved aside first.              *)
(*                                                                         *)
(* A store's contents are one fact: whether it remembers it.  Keys are     *)
(* numbered as they are minted; 0 is a missing entry.                      *)
(*                                                                         *)
(* `flushed`, `keyLost` and `stuck` are history.                           *)
(***************************************************************************)
EXTENDS ConfigStore

VARIABLES
    remembered,  \* the stores whose memory holds the fact
    file,        \* store -> its file: at most one [key, fact]
    aside,       \* the stores whose fact is in a file moved aside
    flusher,     \* store -> the key its flusher seals with; 0, no flusher
    keys,        \* entry of the credential store -> its key; 0 when missing
    minted,      \* entry -> keys ever minted
    obtained,    \* the key of the store being loaded: at most one [key, orphaned]
    flushed,     \* the stores that have had the fact on disk
    keyLost,     \* the <<entry, key>> the credential store has lost
    stuck        \* the stores whose file could not be moved aside

storeVars == <<remembered, file, aside, flusher, keys, minted, obtained,
               flushed, keyLost, stuck>>

Stores == {"log", "cache", "removals", "zone"}
Entries == {"persistence-key", "personal-zone-key"}
EntryOf(s) == IF s = "zone" THEN "personal-zone-key" ELSE "persistence-key"

\* The order of run; the service is up after the last.
After(s) == CASE s = "log" -> "cache" [] s = "cache" -> "removals"
              [] s = "removals" -> "zone" [] s = "zone" -> "up"

\* What has a store loaded at a start.
OnAtStart(s) == CASE s \in {"log", "cache"} -> startup.fixed
                  [] s = "removals" -> startup.rating
                  [] s = "zone" -> startup.zone
\* What lets a running flusher write, and the store learn.
OnNow(s) == CASE s \in {"log", "cache"} -> TRUE
              [] s = "removals" -> live.rating
              [] s = "zone" -> live.zone

-----------------------------------------------------------------------------
(* A start: one store after the other.                                     *)

NextStore == phase' = After(phase) /\ obtained' = {}

\* A store that is off, or whose key cannot be obtained, is left alone.
SkipStore ==
    /\ phase \in Stores
    /\ \/ ~OnAtStart(phase) /\ UNCHANGED disturbances
       \/ OnAtStart(phase) /\ obtained = {} /\ Disturb("fail")
    /\ NextStore
    /\ UNCHANGED <<remembered, file, aside, flusher, keys, minted, flushed, keyLost, stuck>>

\* The key is used although the credential store has refused it.
ObtainKey_Bug ==
    /\ phase \in Stores /\ OnAtStart(phase) /\ obtained = {}
    /\ \E e \in {EntryOf(phase)} :
          IF keys[e] # 0
          THEN /\ obtained' = {[key |-> keys[e], orphaned |-> FALSE]}
               /\ UNCHANGED <<keys, minted, disturbances>>
          ELSE \E fails \in BOOLEAN :
               /\ Outcome(fails)
               /\ minted' = [minted EXCEPT ![e] = @ + 1]
               /\ keys' = [keys EXCEPT ![e] = IF fails THEN 0 ELSE minted'[e]]
               /\ obtained' = {[key |-> minted'[e], orphaned |-> file[phase] # {}]}
    /\ UNCHANGED <<phase, remembered, file, aside, flusher, flushed, keyLost, stuck>>

\* load_or_create_symmetric_key
ObtainKey ==
    /\ phase \in Stores /\ OnAtStart(phase) /\ obtained = {}
    /\ \E e \in {EntryOf(phase)} :
          IF keys[e] # 0
          THEN /\ obtained' = {[key |-> keys[e], orphaned |-> FALSE]}
               /\ UNCHANGED <<keys, minted>>
          ELSE /\ minted' = [minted EXCEPT ![e] = @ + 1]
               /\ keys' = [keys EXCEPT ![e] = minted'[e]]
               /\ obtained' = {[key |-> minted'[e], orphaned |-> file[phase] # {}]}
    /\ UNCHANGED <<phase, disturbances, remembered, file, aside, flusher, flushed, keyLost, stuck>>

\* seed_from_file opens a file with the key it was sealed with.
SetAside_Bug(s, with) == FALSE
SetAside(s, with) == \E f \in file[s] : with.orphaned \/ f.key # with.key

(***************************************************************************)
(* The file is restored, or renamed out of the way of the flusher; a rename*)
(* that fails is logged, and the start goes on.                            *)
(***************************************************************************)
LoadStore ==
    /\ phase \in Stores
    /\ \E with \in obtained : \E moves \in {SetAside(phase, with)} : \E fails \in BOOLEAN :
          /\ fails => moves
          /\ Outcome(fails)
          /\ file' = IF moves /\ ~fails THEN [file EXCEPT ![phase] = {}] ELSE file
          /\ aside' = IF moves /\ ~fails /\ \E f \in file[phase] : f.fact
                      THEN aside \cup {phase} ELSE aside
          /\ stuck' = IF fails THEN stuck \cup {phase} ELSE stuck
          /\ remembered' = IF \E f \in file[phase] : f.fact /\ f.key = with.key
                           THEN remembered \cup {phase} ELSE remembered
          /\ flusher' = [flusher EXCEPT ![phase] = with.key]
    /\ NextStore
    /\ UNCHANGED <<keys, minted, flushed, keyLost>>

-----------------------------------------------------------------------------
(* The running service.                                                    *)

\* A query, a removal or a visited domain worth remembering.
Learn(s) ==
    /\ phase = "up" /\ OnNow(s) /\ s \notin remembered
    /\ Disturb("learn")
    /\ remembered' = remembered \cup {s}
    /\ UNCHANGED <<phase, file, aside, flusher, keys, minted, obtained, flushed, keyLost, stuck>>

\* flush_now and tick: every minute, for the zone when woken too, and at the end.
Flush(s) ==
    /\ phase = "up" /\ OnNow(s) /\ flusher[s] # 0
    /\ file' = [file EXCEPT ![s] = {[key |-> flusher[s], fact |-> s \in remembered]}]
    /\ flushed' = IF s \in remembered THEN flushed \cup {s} ELSE flushed
    /\ UNCHANGED <<phase, disturbances, remembered, aside, flusher, keys, minted, obtained,
                   keyLost, stuck>>

\* A route clears what is in memory; the next flush carries it to the file.
Forget(stores) ==
    /\ remembered' = remembered \ stores
    /\ flushed' = flushed \ stores
    /\ UNCHANGED <<file, aside, flusher, keys, minted, obtained, keyLost, stuck>>

\* The credential store is cleared.
LoseKey(e) ==
    /\ keys[e] # 0
    /\ Disturb("keys")
    /\ keys' = [keys EXCEPT ![e] = 0]
    /\ keyLost' = keyLost \cup {<<e, keys[e]>>}
    /\ UNCHANGED <<phase, remembered, file, aside, flusher, minted, obtained, flushed, stuck>>

\* What a crash takes with it.
StoresCrash ==
    /\ remembered' = {}
    /\ flusher' = [s \in Stores |-> 0]
    /\ obtained' = {}
    /\ UNCHANGED <<file, aside, keys, minted, flushed, keyLost, stuck>>

-----------------------------------------------------------------------------
StoresInit ==
    /\ remembered = {} /\ aside = {} /\ flushed = {} /\ keyLost = {} /\ stuck = {}
    /\ flusher = [s \in Stores |-> IF OnAtStart(s) THEN 1 ELSE 0]
    /\ keys = [e \in Entries |-> IF \E s \in Stores : EntryOf(s) = e /\ flusher[s] # 0 THEN 1 ELSE 0]
    /\ minted = keys
    /\ file = [s \in Stores |-> {[key |-> k, fact |-> FALSE] : k \in {flusher[s]} \ {0}}]
    /\ obtained = {}

Settings == <<live, startup, overrides, source, health, wake, disk, handlers, notes, scenario>>

-----------------------------------------------------------------------------
(* What has once been written to disk is never overwritten unread: it is in *)
(* the file, or in one moved aside, whatever keys were lost, starts ended   *)
(* half-way or stores were switched off and on.  What a route has cleared,  *)
(* and a file that could not be moved aside, are the exceptions. *)
FlushedIsKept ==
    \A s \in flushed \ stuck : s \in aside \/ \E f \in file[s] : f.fact

(* As long as the credential store has not lost it, the key a file is      *)
(* sealed with is the one the next start obtains: no run seals a file with  *)
(* a key that was never stored, or with one of two. *)
FilesOpenWithTheStoredKey ==
    \A s \in Stores : \A f \in file[s] :
        <<EntryOf(s), f.key>> \in keyLost \/ f.key = keys[EntryOf(s)]
=============================================================================
