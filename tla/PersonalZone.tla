---------------------------- MODULE PersonalZone ----------------------------
(***************************************************************************)
(* The zone learned from the user's own visits: for each host a ring of    *)
(* daily counts, capped in number, saved with the zone's store and rolled  *)
(* forward by a clock that may also jump.  EncryptedStore says when the    *)
(* file is written, restored or moved aside; this is what it holds.        *)
(*                                                                         *)
(* A ring maps an age in days to the visits of that day.  The saturation of*)
(* the counters (65535 visits a day) is left out.  `visits` is history.    *)
(***************************************************************************)
EXTENDS ConfigStore, Functions
Sets == INSTANCE FiniteSetsExt

CONSTANTS
    Hosts,       \* numbered in the order of their names
    LastDay,     \* bound of the clock
    Thresholds,  \* [personal_zone] tables: [frequency, regularity, top, days]
    Cap,         \* MAX_TRACKED_DOMAINS
    Batch        \* EVICTION_BATCH

ASSUME PersonalZoneAssumption ==
    /\ Hosts \subseteq Nat /\ LastDay \in Nat
    /\ Thresholds # {}
    /\ Thresholds \subseteq [frequency : Nat, regularity : Nat, top : Nat, days : Nat \ {0}]
    /\ Cap \in Nat /\ Batch \in 1 .. Cap - 1

VARIABLES
    clock,       \* the system's day
    cfg,         \* the table in force
    tally,       \* PersonalZoneStats: [today, window, rings, last]
    zone,        \* the hosts published as the personal zone
    saved,       \* what personal-zone.enc holds: at most one [today, rings]
    visits,      \* host -> day of the tally -> visits
    savedVisits  \* ... as of the last save

zoneVars == <<clock, cfg, tally, zone, saved, visits, savedVisits>>

Days == 0 .. LastDay
NoVisits == [h \in Hosts |-> [d \in Days |-> 0]]

\* window_len_from_config
WindowOf(c) == Sets!Max({c.frequency, c.regularity, 1})
Ages(window) == 0 .. window - 1
Empty(window, day) == [today |-> day, window |-> window, rings |-> <<>>, last |-> <<>>]

\* The sum of the counts of the days in S, as the number of the visits they count.
Total(counts, S) == Cardinality(UNION {{a} \X (1 .. counts[a]) : a \in S})

\* sum_last and count_nonzero_last.
SumLast(ring, n) == Total(ring, {a \in DOMAIN ring : a < n})
DaysLast(ring, n) == Cardinality({a \in DOMAIN ring : a < n /\ ring[a] # 0})

\* rotate_day: forward only; what falls out of the window is forgotten.
Rotate(t, day) ==
    IF day <= t.today THEN t
    ELSE LET shifted == [h \in DOMAIN t.rings |->
                            [a \in Ages(t.window) |-> IF a < day - t.today THEN 0
                                                      ELSE t.rings[h][a - (day - t.today)]]]
             alive == {h \in DOMAIN shifted : SumLast(shifted[h], t.window) # 0}
         IN [today |-> day, window |-> t.window,
             rings |-> Restrict(shifted, alive), last |-> Restrict(t.last, alive)]

\* evict_batch: a choice among hosts of the same rank.
RanksBelow(t, g, h) ==
    \/ t.last[g] < t.last[h]
    \/ t.last[g] = t.last[h] /\ SumLast(t.rings[g], t.window) < SumLast(t.rings[h], t.window)
Victims(t) ==
    {out \in Sets!kSubset(Batch, DOMAIN t.rings) :
        \A g \in DOMAIN t.rings \ out : \A h \in out : ~RanksBelow(t, g, h)}

\* record_visit
Visited(t, h) ==
    [today |-> t.today, window |-> t.window,
     rings |-> [g \in DOMAIN t.rings \cup {h} |->
                  IF g # h THEN t.rings[g]
                  ELSE [a \in Ages(t.window) |-> (IF h \in DOMAIN t.rings THEN t.rings[h][a] ELSE 0)
                                                  + (IF a = 0 THEN 1 ELSE 0)]],
     last |-> [g \in DOMAIN t.last \cup {h} |-> IF g = h THEN clock ELSE t.last[g]]]
Without(t, out) == [today |-> t.today, window |-> t.window,
                    rings |-> Restrict(t.rings, DOMAIN t.rings \ out),
                    last |-> Restrict(t.last, DOMAIN t.last \ out)]

\* derive_qualifying_domains, given each host's visits and its days of visit.
Qualifying(sum, days) ==
    {h \in DOMAIN sum :
        \/ /\ sum[h] > 0
           /\ Cardinality({g \in DOMAIN sum : \/ sum[g] > sum[h]
                                              \/ sum[g] = sum[h] /\ g < h}) < cfg.top
        \/ days[h] >= cfg.days}
Derived(t) == Qualifying([h \in DOMAIN t.rings |-> SumLast(t.rings[h], cfg.frequency)],
                         [h \in DOMAIN t.rings |-> DaysLast(t.rings[h], cfg.regularity)])

\* from_persisted: the rings are cut or padded to the window of today's table,
\* and the day of the last visit is made out from the counts.
Resized(file, window) ==
    [h \in DOMAIN file.rings |->
        [a \in Ages(window) |-> IF a \in DOMAIN file.rings[h] THEN file.rings[h][a] ELSE 0]]
LastVisited(file, ring) ==
    LET ages == {a \in DOMAIN ring : ring[a] # 0}
    IN IF ages = {} THEN file.today ELSE file.today - Sets!Min(ages)
FromPersisted_Bug(file, window, day) ==  \* not rolled forward
    LET rings == Resized(file, window)
    IN [today |-> day, window |-> window, rings |-> rings,
        last |-> [h \in DOMAIN rings |-> LastVisited(file, rings[h])]]
FromPersisted(file, window, day) ==
    LET rings == Resized(file, window)
    IN Rotate([today |-> file.today, window |-> window, rings |-> rings,
               last |-> [h \in DOMAIN rings |-> LastVisited(file, rings[h])]], day)

-----------------------------------------------------------------------------
\* record_personal_visit: an allowed answer, on a day that may have begun since.
Visit(h) ==
    /\ phase = "up" /\ live.zone
    /\ Disturb("visits")
    /\ \E t \in {Rotate(tally, clock)} :
       \E out \in IF h \in DOMAIN t.rings \/ Cardinality(DOMAIN t.rings) < Cap THEN {{}}
                  ELSE Victims(t) :
          /\ tally' = Visited(Without(t, out), h)
          /\ visits' = [g \in Hosts |-> IF g \in out THEN NoVisits[g]
                                        ELSE IF g = h THEN [visits[g] EXCEPT ![t.today] = @ + 1]
                                        ELSE visits[g]]
    /\ UNCHANGED <<clock, cfg, zone, saved, savedVisits>>

\* rotate_and_republish_personal_zone and persist_snapshot, with a Flush of the store.
Republish ==
    /\ tally' = Rotate(tally, clock)
    /\ zone' = Derived(tally')
    /\ saved' = {[today |-> tally'.today, rings |-> tally'.rings]}
    /\ savedVisits' = visits
    /\ UNCHANGED <<clock, cfg, visits>>

\* The days before the window the file was written with are gone for good.
Remembered(file) ==
    [h \in Hosts |-> [d \in Days |->
        IF h \in DOMAIN file.rings /\ file.today - d \in DOMAIN file.rings[h]
        THEN savedVisits[h][d] ELSE 0]]

\* load_persisted_personal_zone: `opened` is what could be read of the file, `on`
\* whether the store is on and its key at hand, `moved` whether the file is gone.
ZoneStarts(opened, on, moved) ==
    /\ tally' = IF opened = {} THEN Empty(WindowOf(cfg), clock)
                ELSE FromPersisted(CHOOSE f \in opened : TRUE, WindowOf(cfg), clock)
    /\ zone' = IF on THEN Derived(tally') ELSE {}
    /\ visits' = IF opened = {} THEN NoVisits ELSE Remembered(CHOOSE f \in opened : TRUE)
    /\ saved' = IF moved THEN {} ELSE saved
    /\ UNCHANGED <<clock, cfg, savedVisits>>

\* The clock is set, or a day goes by; the user edits the table and resets.
ClockOrTable ==
    /\ Disturb("visits")
    /\ \/ clock' \in Days \ {clock} /\ UNCHANGED cfg
       \/ cfg' \in Thresholds \ {cfg} /\ UNCHANGED clock
    /\ UNCHANGED <<tally, zone, saved, visits, savedVisits>>

\* The memory of a process that has ended.
ZoneCrash ==
    /\ tally' = Empty(WindowOf(cfg), clock) /\ zone' = {} /\ visits' = NoVisits
    /\ UNCHANGED <<clock, cfg, saved, savedVisits>>

ZoneInit ==
    /\ clock = 0
    /\ cfg = CHOOSE c \in Thresholds : \A d \in Thresholds : WindowOf(c) <= WindowOf(d)
    /\ tally = Empty(WindowOf(cfg), clock)
    /\ zone = {} /\ saved = {}
    /\ visits = NoVisits /\ savedVisits = visits

-----------------------------------------------------------------------------
(* The rings forget nothing a log of the visits would say: at any time the *)
(* hosts that qualify are those a count over the visits on record, dated by*)
(* the tally's day, comes to - across clocks that jump, days skipped,      *)
(* restarts, tables with other windows, and evictions, which alone strike  *)
(* a host off the record. *)
SumOnRecord(h, n) == Total(visits[h], {d \in Days : d <= tally.today /\ d + n > tally.today})
DaysOnRecord(h, n) == Cardinality({d \in Days : /\ d <= tally.today /\ d + n > tally.today
                                                /\ visits[h][d] # 0})
TheZoneIsWhatTheVisitsSay ==
    LET Within(n) == Sets!Min({n, tally.window})
    IN phase = "up" =>
        Derived(tally) = Qualifying([h \in Hosts |-> SumOnRecord(h, Within(cfg.frequency))],
                                    [h \in Hosts |-> DaysOnRecord(h, Within(cfg.regularity))])
=============================================================================
