------------------------ MODULE PersonalZone_proofs ------------------------
(***************************************************************************)
(* The personal zone's rings say what a log of the visits would: the       *)
(* invariant behind TheZoneIsWhatTheVisitsSay, and why each operation      *)
(* keeps it.  AppData_proofs draws the theorem about the whole process.    *)
(***************************************************************************)
EXTENDS PersonalZone, FiniteSetTheorems, TLAPS

Logs == [Hosts -> [Days -> Nat]]

\* What a log says of a host on a day, the days before the first included.
CountOn(log, h, d) == IF d \in Days THEN log[h][d] ELSE 0

\* Each ring has, for every age within the window, the count of its day.
RingsSay(rings, window, today, log) ==
    /\ DOMAIN rings \subseteq Hosts
    /\ \A h \in DOMAIN rings :
          /\ DOMAIN rings[h] = Ages(window)
          /\ \A a \in Ages(window) : rings[h][a] = CountOn(log, h, today - a)

\* A tally says what a log does: the hosts it has no ring for were not visited
\* within the window, and nobody was visited after its day.
TallyTyped(t) ==
    /\ t = [today |-> t.today, window |-> t.window, rings |-> t.rings, last |-> t.last]
    /\ t.today \in Days /\ t.window \in Nat \ {0}
Says(t, log) ==
    /\ TallyTyped(t)
    /\ RingsSay(t.rings, t.window, t.today, log)
    /\ \A h \in Hosts \ DOMAIN t.rings : \A d \in Days :
          d <= t.today /\ d + t.window > t.today => log[h][d] = 0
    /\ \A h \in Hosts : \A d \in Days : d > t.today => log[h][d] = 0

\* The file was written with some window, and says what the log did then.
FileSays(f, log) ==
    /\ f.today \in Days
    /\ \E w \in Nat \ {0} : RingsSay(f.rings, w, f.today, log)

ZoneInv ==
    /\ clock \in Days /\ cfg \in Thresholds
    /\ visits \in Logs /\ savedVisits \in Logs
    /\ Says(tally, visits)
    /\ \A f \in saved : FileSays(f, savedVisits)

-----------------------------------------------------------------------------
(* Sums.  The visits a sum counts are pairs of a day and a number.         *)

Counted(counts, S) == UNION {{a} \X (1 .. counts[a]) : a \in S}

\* What is counted: a day of the set with a number up to its count.
LEMMA CountedIs ==
  ASSUME NEW counts, NEW S
  PROVE  \A p : p \in Counted(counts, S) <=> \E a \in S : \E k \in 1 .. counts[a] : p = <<a, k>>
BY DEF Counted

\* Finitely many days have finitely many visits.
LEMMA CountedFinite ==
  ASSUME NEW counts, NEW S, IsFiniteSet(S), \A a \in S : counts[a] \in Nat
  PROVE  IsFiniteSet(Counted(counts, S))
<1> DEFINE of(a) == {a} \X (1 .. counts[a])
<1>1. ASSUME NEW a \in S PROVE IsFiniteSet(of(a))
  <2>1. IsFiniteSet({a}) /\ IsFiniteSet(1 .. counts[a])
    <3>1. IsFiniteSet({a})
      BY FS_Singleton
    <3>2. 1 \in Int /\ counts[a] \in Int
      OBVIOUS
    <3> QED  BY <3>1, <3>2, FS_Interval
  <2> DEFINE one == {a}
             numbers == 1 .. counts[a]
  <2>2. of(a) = one \X numbers
    OBVIOUS
  <2> HIDE DEF one, numbers
  <2> QED  BY <2>1, <2>2, FS_Product DEF one, numbers
<1> HIDE DEF of
<1>2. IsFiniteSet({of(a) : a \in S})
  <2>1. [a \in S |-> of(a)] \in Surjection(S, {of(a) : a \in S})
    BY DEF Surjection
  <2> QED  BY <2>1, FS_Surjection
<1>3. IsFiniteSet(UNION {of(a) : a \in S})
  BY <1>1, <1>2, FS_UNION
<1> QED  BY <1>3 DEF Counted, of

\* A sum is a number, and none when there is nothing to count.
LEMMA TotalFacts ==
  ASSUME NEW counts, NEW S, IsFiniteSet(S), \A a \in S : counts[a] \in Nat
  PROVE  /\ Total(counts, S) \in Nat
         /\ Total(counts, S) = 0 <=> \A a \in S : counts[a] = 0
<1>1. IsFiniteSet(Counted(counts, S))
  BY CountedFinite
<1>2. Total(counts, S) = Cardinality(Counted(counts, S))
  BY DEF Total, Counted
<1>3. Total(counts, S) \in Nat /\ (Total(counts, S) = 0 <=> Counted(counts, S) = {})
  BY <1>1, <1>2, FS_CardinalityType, FS_EmptySet
<1>4. ASSUME NEW a \in S, counts[a] # 0 PROVE <<a, 1>> \in Counted(counts, S)
  BY <1>4, CountedIs
<1>5. ASSUME \A a \in S : counts[a] = 0, NEW p \in Counted(counts, S) PROVE FALSE
  BY <1>5, CountedIs
<1> QED  BY <1>3, <1>4, <1>5

AreNumbers(S) == \A x \in S : x \in Int

\* Days told by their age count the same as days told by their date.
LEMMA TotalByDate ==
  ASSUME NEW A, NEW D, NEW byAge, NEW byDate, NEW today \in Int,
         AreNumbers(A), AreNumbers(D), IsFiniteSet(A),
         \A a \in A : byAge[a] \in Nat,
         \A a \in A : byAge[a] # 0 => today - a \in D /\ byDate[today - a] = byAge[a],
         \A d \in D : byDate[d] \in Nat,
         \A d \in D : byDate[d] # 0 => today - d \in A /\ byAge[today - d] = byDate[d]
  PROVE  Total(byAge, A) = Total(byDate, D)
<1> DEFINE P == Counted(byAge, A)
           Q == Counted(byDate, D)
<1>1. \A p : p \in P <=> \E a \in A : \E k \in 1 .. byAge[a] : p = <<a, k>>
  BY CountedIs
<1>2. \A q : q \in Q <=> \E d \in D : \E k \in 1 .. byDate[d] : q = <<d, k>>
  BY CountedIs
<1>3. IsFiniteSet(P)
  BY CountedFinite
<1> HIDE DEF P, Q
<1> DEFINE F == [p \in P |-> <<today - p[1], p[2]>>]
<1>4. ASSUME NEW p \in P PROVE F[p] \in Q
  <2>0. PICK a \in A : \E k \in 1 .. byAge[a] : p = <<a, k>>
    BY <1>1
  <2>1. PICK k \in 1 .. byAge[a] : p = <<a, k>>
    BY <2>0
  <2>2. F[p] = <<today - a, k>>
    BY <2>1
  <2>3. byAge[a] # 0
    BY <2>1
  <2>4. today - a \in D /\ byDate[today - a] = byAge[a]
    BY <2>3
  <2> QED  BY <2>2, <2>4, <1>2
<1>5. ASSUME NEW p \in P, NEW q \in P, F[p] = F[q] PROVE p = q
  <2>0. PICK a \in A : \E k \in 1 .. byAge[a] : p = <<a, k>>
    BY <1>1
  <2>1. PICK k \in 1 .. byAge[a] : p = <<a, k>>
    BY <2>0
  <2>a. PICK b \in A : \E j \in 1 .. byAge[b] : q = <<b, j>>
    BY <1>1
  <2>2. PICK j \in 1 .. byAge[b] : q = <<b, j>>
    BY <2>a
  <2>3. F[p] = <<today - a, k>> /\ F[q] = <<today - b, j>>
    BY <2>1, <2>2
  <2>4. today - a = today - b /\ k = j
    BY <2>3, <1>5
  <2>5. a = b
    BY <2>4 DEF AreNumbers
  <2> QED  BY <2>1, <2>2, <2>4, <2>5
<1>6. ASSUME NEW q \in Q PROVE \E p \in P : F[p] = q
  <2>0. PICK d \in D : \E k \in 1 .. byDate[d] : q = <<d, k>>
    BY <1>2
  <2>1. PICK k \in 1 .. byDate[d] : q = <<d, k>>
    BY <2>0
  <2>2. byDate[d] # 0
    BY <2>1
  <2>3. today - d \in A
    BY <2>2
  <2>4. d \in Int /\ today - (today - d) = d
    BY DEF AreNumbers
  <2>5. <<today - d, k>> \in P
    BY <2>1, <2>2, <2>3, <1>1
  <2> QED  BY <2>1, <2>4, <2>5
<1>7. ExistsBijection(P, Q)
  <2>1. F \in [P -> Q]
    BY <1>4
  <2>2. \A q \in Q : \E p \in P : F[p] = q
    BY <1>6
  <2>3. \A p, q \in P : F[p] = F[q] => p = q
    BY <1>5
  <2> HIDE DEF F
  <2>4. F \in Bijection(P, Q)
    BY <2>1, <2>2, <2>3 DEF Bijection, Injection, Surjection, IsInjective
  <2> QED  BY <2>4 DEF ExistsBijection
<1>8. Cardinality(P) = Cardinality(Q)
  BY <1>3, <1>7, FS_Bijection
<1> QED  BY <1>8 DEF P, Q, Total, Counted

\* And so do the days with a visit.
LEMMA DaysByDate ==
  ASSUME NEW A, NEW D, NEW byAge, NEW byDate, NEW today \in Int,
         AreNumbers(A), AreNumbers(D), IsFiniteSet(A),
         \A a \in A : byAge[a] # 0 => today - a \in D /\ byDate[today - a] = byAge[a],
         \A d \in D : byDate[d] # 0 => today - d \in A /\ byAge[today - d] = byDate[d]
  PROVE  Cardinality({a \in A : byAge[a] # 0}) = Cardinality({d \in D : byDate[d] # 0})
<1> DEFINE P == {a \in A : byAge[a] # 0}
           Q == {d \in D : byDate[d] # 0}
           F == [a \in P |-> today - a]
<1>1. IsFiniteSet(P)
  BY FS_Subset
<1>2. F \in [P -> Q]
  OBVIOUS
<1>3. \A p, q \in P : F[p] = F[q] => p = q
  BY DEF AreNumbers
<1>4. ASSUME NEW q \in Q PROVE \E p \in P : F[p] = q
  <2>1. q \in Int /\ today - (today - q) = q
    BY DEF AreNumbers
  <2>2. today - q \in P
    OBVIOUS
  <2> QED  BY <2>1, <2>2
<1>5. ExistsBijection(P, Q)
  <2> HIDE DEF P, Q, F
  <2>1. F \in Bijection(P, Q)
    BY <1>2, <1>3, <1>4 DEF Bijection, Injection, Surjection, IsInjective
  <2> QED  BY <2>1 DEF ExistsBijection
<1> QED  BY <1>1, <1>5, FS_Bijection

-----------------------------------------------------------------------------
(* The window, and what a tally that says what a log does comes to.        *)

\* Hosts and days are numbers, and the days those from the first to the last.
LEMMA ZoneConstants ==
  /\ Hosts \subseteq Nat /\ LastDay \in Nat /\ Days \subseteq Nat
  /\ \A d \in Days : d \in Int /\ d <= LastDay
  /\ \A d \in Int : d \in Days <=> 0 <= d /\ d <= LastDay
BY PersonalZoneAssumption DEF Days

\* What a table sets is a number, and the days it asks for at least one.
LEMMA ThresholdFields ==
  ASSUME NEW c \in Thresholds
  PROVE  c.frequency \in Nat /\ c.regularity \in Nat /\ c.top \in Nat /\ c.days \in Nat \ {0}
BY PersonalZoneAssumption

\* The window of a table is at least a day long.
LEMMA WindowIs ==
  ASSUME NEW c \in Thresholds
  PROVE  WindowOf(c) \in Nat \ {0}
<1> DEFINE S == {c.frequency, c.regularity, 1}
<1>1. c.frequency \in Nat /\ c.regularity \in Nat
  BY ThresholdFields
<1>2. \E m \in S : \A n \in S : m >= n
  <2>1. CASE c.frequency >= c.regularity /\ c.frequency >= 1
    BY <1>1, <2>1
  <2>2. CASE c.regularity >= c.frequency /\ c.regularity >= 1
    BY <1>1, <2>2
  <2>3. CASE 1 >= c.frequency /\ 1 >= c.regularity
    BY <1>1, <2>3
  <2> QED  BY <1>1, <2>1, <2>2, <2>3
<1>3. Sets!Max(S) \in S /\ \A n \in S : Sets!Max(S) >= n
  <2> HIDE DEF S
  <2> QED  BY <1>2 DEF Sets!Max
<1>4. 1 \in S /\ \A n \in S : n \in Nat
  BY <1>1
<1>5. WindowOf(c) = Sets!Max(S)
  BY DEF WindowOf
<1> HIDE DEF S
<1> QED  BY <1>3, <1>4, <1>5

\* The lesser of two numbers bounds what both bound.
LEMMA LesserOf ==
  ASSUME NEW m \in Nat, NEW n \in Nat
  PROVE  /\ Sets!Min({m, n}) \in Nat
         /\ \A a \in Int : a < Sets!Min({m, n}) <=> a < m /\ a < n
<1> DEFINE S == {m, n}
<1>1. \E x \in S : \A y \in S : x =< y
  <2>1. CASE m <= n
    BY <2>1
  <2>2. CASE n <= m
    BY <2>2
  <2> QED  BY <2>1, <2>2
<1>2. Sets!Min(S) \in S /\ \A y \in S : Sets!Min(S) =< y
  <2> HIDE DEF S
  <2> QED  BY <1>1 DEF Sets!Min
<1> QED  BY <1>2

\* What a ring counts of its last n days is what the log says of them.
LEMMA RingSums ==
  ASSUME NEW t, NEW log \in Logs, Says(t, log), NEW n \in Nat, NEW h \in DOMAIN t.rings
  PROVE  LET dates == {d \in Days : d <= t.today /\ d + Sets!Min({n, t.window}) > t.today}
         IN /\ SumLast(t.rings[h], n) = Total(log[h], dates)
            /\ DaysLast(t.rings[h], n) = Cardinality({d \in dates : log[h][d] # 0})
<1> DEFINE m == Sets!Min({n, t.window})
           dates == {d \in Days : d <= t.today /\ d + m > t.today}
           ring == t.rings[h]
           ages == {a \in DOMAIN ring : a < n}
<1>1. t.today \in Days /\ t.window \in Nat \ {0} /\ h \in Hosts
  BY DEF Says, TallyTyped, RingsSay
<1>2. t.today \in Nat /\ m \in Nat /\ \A a \in Int : a < m <=> a < n /\ a < t.window
  BY <1>1, LesserOf, ZoneConstants
<1>3. /\ DOMAIN ring = 0 .. t.window - 1
      /\ \A a \in 0 .. t.window - 1 : ring[a] = CountOn(log, h, t.today - a)
  BY DEF Says, RingsSay, Ages
<1>4. log[h] \in [Days -> Nat]
  BY <1>1 DEF Logs
<1> HIDE DEF m, ring
<1>5. \A a \in ages : /\ a \in Int /\ ring[a] \in Nat
                      /\ ring[a] # 0 => t.today - a \in dates /\ log[h][t.today - a] = ring[a]
  <2> SUFFICES ASSUME NEW a \in ages
               PROVE  /\ a \in Int /\ ring[a] \in Nat
                      /\ ring[a] # 0 => t.today - a \in dates /\ log[h][t.today - a] = ring[a]
    OBVIOUS
  <2>1. a \in Nat /\ a < n /\ a < t.window /\ ring[a] = CountOn(log, h, t.today - a)
    BY <1>1, <1>3
  <2>2. a < m
    BY <1>2, <2>1
  <2>3. CASE t.today - a \in Days
    <3>1. ring[a] = log[h][t.today - a] /\ ring[a] \in Nat
      BY <1>4, <2>1, <2>3 DEF CountOn
    <3>2. t.today - a <= t.today /\ (t.today - a) + m > t.today
      BY <1>2, <2>1, <2>2
    <3> QED  BY <2>1, <2>3, <3>1, <3>2
  <2>4. CASE t.today - a \notin Days
    BY <2>1, <2>4 DEF CountOn
  <2> QED  BY <2>3, <2>4
<1>6. \A d \in dates : /\ d \in Int /\ log[h][d] \in Nat
                       /\ log[h][d] # 0 => t.today - d \in ages /\ ring[t.today - d] = log[h][d]
  <2> SUFFICES ASSUME NEW d \in dates
               PROVE  /\ d \in Int /\ log[h][d] \in Nat
                      /\ t.today - d \in ages /\ ring[t.today - d] = log[h][d]
    OBVIOUS
  <2>1. d \in Nat /\ log[h][d] \in Nat
    BY <1>4, ZoneConstants
  <2>2. t.today - d \in Nat /\ t.today - d < m
    BY <1>2, <2>1
  <2>3. t.today - d < n /\ t.today - d < t.window
    BY <1>2, <2>2
  <2>4. t.today - d \in 0 .. t.window - 1 /\ t.today - (t.today - d) = d
    BY <1>1, <1>2, <2>1, <2>2, <2>3
  <2>5. ring[t.today - d] = CountOn(log, h, d)
    BY <1>3, <2>4
  <2> QED  BY <1>3, <2>1, <2>3, <2>4, <2>5 DEF CountOn
<1>7. IsFiniteSet(ages)
  <2>1. t.window - 1 \in Int
    BY <1>1
  <2>2. IsFiniteSet(0 .. t.window - 1)
    BY <2>1, FS_Interval
  <2>3. ages \in SUBSET (0 .. t.window - 1)
    BY <1>3
  <2> QED  BY <2>2, <2>3, FS_Subset
<1> DEFINE byDate == log[h]
<1>8. AreNumbers(ages) /\ AreNumbers(dates) /\ t.today \in Int
  BY <1>2, <1>5, <1>6 DEF AreNumbers
<1> HIDE DEF ages, dates, byDate
<1>9. /\ \A a \in ages : ring[a] \in Nat
      /\ \A a \in ages : ring[a] # 0 => t.today - a \in dates /\ byDate[t.today - a] = ring[a]
  BY <1>5 DEF byDate
<1>10. /\ \A d \in dates : byDate[d] \in Nat
       /\ \A d \in dates : byDate[d] # 0 => t.today - d \in ages /\ ring[t.today - d] = byDate[d]
  BY <1>6 DEF byDate
<1>11. Total(ring, ages) = Total(byDate, dates)
  BY <1>7, <1>8, <1>9, <1>10, TotalByDate
<1>12. Cardinality({a \in ages : ring[a] # 0}) = Cardinality({d \in dates : byDate[d] # 0})
  BY <1>7, <1>8, <1>9, <1>10, DaysByDate
<1>13. /\ SumLast(t.rings[h], n) = Total(ring, ages)
       /\ DaysLast(t.rings[h], n) = Cardinality({a \in ages : ring[a] # 0})
  BY DEF SumLast, DaysLast, ages, ring
<1> QED  BY <1>11, <1>12, <1>13 DEF dates, m, byDate

\* A host without visits neither ranks nor qualifies, nor outranks one that does.
LEMMA VisitedOnesQualify ==
  ASSUME NEW sum, NEW days, NEW sums, NEW dates, cfg.days \in Nat \ {0},
         DOMAIN sum \subseteq DOMAIN sums,
         \A h \in DOMAIN sum : sums[h] = sum[h] /\ dates[h] = days[h] /\ sum[h] \in Nat,
         \A h \in DOMAIN sums \ DOMAIN sum : sums[h] = 0 /\ dates[h] = 0
  PROVE  Qualifying(sum, days) = Qualifying(sums, dates)
<1> DEFINE Above(f, h) == {g \in DOMAIN f : f[g] > f[h] \/ (f[g] = f[h] /\ g < h)}
           Is(f, k, h) == (f[h] > 0 /\ Cardinality(Above(f, h)) < cfg.top) \/ k[h] >= cfg.days
<1>1. ASSUME NEW h \in DOMAIN sum PROVE Is(sum, days, h) <=> Is(sums, dates, h)
  <2>1. ASSUME sum[h] > 0 PROVE Above(sum, h) = Above(sums, h)
    BY <2>1
  <2> HIDE DEF Above
  <2> QED  BY <2>1
<1>2. ASSUME NEW h \in DOMAIN sums \ DOMAIN sum PROVE ~Is(sums, dates, h)
  <2> HIDE DEF Above
  <2> QED  OBVIOUS
<1>3. /\ Qualifying(sum, days) = {h \in DOMAIN sum : Is(sum, days, h)}
      /\ Qualifying(sums, dates) = {h \in DOMAIN sums : Is(sums, dates, h)}
  BY DEF Qualifying
<1> HIDE DEF Is
<1> QED  BY <1>1, <1>2, <1>3

\* While the rings say what the log does, so does what is derived from them.
LEMMA ZoneInvSays == ZoneInv => TheZoneIsWhatTheVisitsSay
<1> SUFFICES ASSUME ZoneInv PROVE TheZoneIsWhatTheVisitsSay
  OBVIOUS
<1> DEFINE Within(n) == Sets!Min({n, tally.window})
           f == cfg.frequency
           r == cfg.regularity
           sum == [h \in DOMAIN tally.rings |-> SumLast(tally.rings[h], f)]
           days == [h \in DOMAIN tally.rings |-> DaysLast(tally.rings[h], r)]
           sums == [h \in Hosts |-> SumOnRecord(h, Within(f))]
           dates == [h \in Hosts |-> DaysOnRecord(h, Within(r))]
           Recent(n) == {d \in Days : d <= tally.today /\ d + Within(n) > tally.today}
<1>1. cfg \in Thresholds /\ visits \in Logs /\ Says(tally, visits)
  BY DEF ZoneInv
<1>2. f \in Nat /\ r \in Nat /\ cfg.days \in Nat \ {0}
  BY <1>1, ThresholdFields
<1>3. /\ \A h, n : SumOnRecord(h, Within(n)) = Total(visits[h], Recent(n))
      /\ \A h, n : DaysOnRecord(h, Within(n)) = Cardinality({d \in Recent(n) : visits[h][d] # 0})
  BY DEF SumOnRecord, DaysOnRecord
<1>4. \A n \in Nat : \A h \in DOMAIN tally.rings :
         /\ SumLast(tally.rings[h], n) = Total(visits[h], Recent(n))
         /\ DaysLast(tally.rings[h], n) = Cardinality({d \in Recent(n) : visits[h][d] # 0})
  BY <1>1, RingSums
<1>5. ASSUME NEW n \in Nat, NEW h \in Hosts
      PROVE  /\ Total(visits[h], Recent(n)) \in Nat
             /\ h \notin DOMAIN tally.rings =>
                   /\ Total(visits[h], Recent(n)) = 0
                   /\ Cardinality({d \in Recent(n) : visits[h][d] # 0}) = 0
  <2>1. tally.today \in Nat /\ tally.window \in Nat /\ LastDay \in Nat
    BY <1>1, ZoneConstants DEF Says, TallyTyped
  <2>2. IsFiniteSet(Days)
    BY <2>1, FS_Interval DEF Days
  <2>3. IsFiniteSet(Recent(n))
    BY <2>2, FS_Subset
  <2>4. \A d \in Recent(n) : visits[h][d] \in Nat
    BY <1>1 DEF Logs
  <2>5. ASSUME h \notin DOMAIN tally.rings PROVE \A d \in Recent(n) : visits[h][d] = 0
    <3> SUFFICES ASSUME NEW d \in Recent(n) PROVE visits[h][d] = 0
      OBVIOUS
    <3>1. d \in Days /\ d \in Nat /\ d <= tally.today /\ d + Within(n) > tally.today
      BY ZoneConstants
    <3>2. Within(n) \in Nat /\ tally.today - d < tally.window
      BY <2>1, <3>1, LesserOf
    <3>3. d + tally.window > tally.today
      BY <2>1, <3>1, <3>2
    <3> QED  BY <1>1, <2>5, <3>1, <3>3 DEF Says
  <2> DEFINE count == visits[h]
             S == Recent(n)
  <2> HIDE DEF count, S
  <2>6. Total(count, S) \in Nat /\ (Total(count, S) = 0 <=> \A d \in S : count[d] = 0)
    BY <2>3, <2>4, TotalFacts DEF count, S
  <2>7. (\A d \in S : count[d] = 0) => Cardinality({d \in S : count[d] # 0}) = 0
    BY FS_EmptySet
  <2> QED  BY <2>5, <2>6, <2>7 DEF count, S
<1> HIDE DEF Recent, Within
<1>6. DOMAIN tally.rings \subseteq Hosts
  BY <1>1 DEF Says, RingsSay
<1>a. \A h \in Hosts : /\ sums[h] = Total(visits[h], Recent(f))
                       /\ dates[h] = Cardinality({d \in Recent(r) : visits[h][d] # 0})
  BY <1>3
<1>b. \A h \in DOMAIN tally.rings :
         /\ sum[h] = Total(visits[h], Recent(f))
         /\ days[h] = Cardinality({d \in Recent(r) : visits[h][d] # 0})
  BY <1>2, <1>4
<1>c. DOMAIN sum = DOMAIN tally.rings /\ DOMAIN sums = Hosts
  OBVIOUS
<1> HIDE DEF sum, sums, days, dates
<1>7. \A h \in DOMAIN sum : sums[h] = sum[h] /\ dates[h] = days[h] /\ sum[h] \in Nat
  <2> SUFFICES ASSUME NEW h \in DOMAIN sum
               PROVE  sums[h] = sum[h] /\ dates[h] = days[h] /\ sum[h] \in Nat
    OBVIOUS
  <2>1. h \in Hosts /\ h \in DOMAIN tally.rings
    BY <1>6, <1>c
  <2>2. Total(visits[h], Recent(f)) \in Nat
    BY <1>2, <1>5, <2>1
  <2>3. /\ sums[h] = Total(visits[h], Recent(f)) /\ sum[h] = Total(visits[h], Recent(f))
        /\ dates[h] = days[h]
    BY <1>a, <1>b, <2>1
  <2> QED  BY <2>2, <2>3
<1>8. \A h \in DOMAIN sums \ DOMAIN sum : sums[h] = 0 /\ dates[h] = 0
  <2> SUFFICES ASSUME NEW h \in DOMAIN sums \ DOMAIN sum PROVE sums[h] = 0 /\ dates[h] = 0
    OBVIOUS
  <2>1. h \in Hosts /\ h \notin DOMAIN tally.rings
    BY <1>c
  <2>2. /\ Total(visits[h], Recent(f)) = 0
        /\ Cardinality({d \in Recent(r) : visits[h][d] # 0}) = 0
    BY <1>2, <1>5, <2>1
  <2> QED  BY <1>a, <2>1, <2>2
<1>9. Derived(tally) = Qualifying(sum, days)
  BY DEF Derived, sum, days
<1>10. DOMAIN sum \subseteq DOMAIN sums
  BY <1>6, <1>c
<1>11. Qualifying(sum, days) = Qualifying(sums, dates)
  BY <1>2, <1>7, <1>8, <1>10, VisitedOnesQualify
<1> QED  BY <1>9, <1>11 DEF TheZoneIsWhatTheVisitsSay, Within, sums, dates

-----------------------------------------------------------------------------
(* A day begins.                                                           *)

ShiftedRings(t, day) ==
    [h \in DOMAIN t.rings |->
        [a \in Ages(t.window) |-> IF a < day - t.today THEN 0
                                  ELSE t.rings[h][a - (day - t.today)]]]
Alive(t, day) == {h \in DOMAIN t.rings : SumLast(ShiftedRings(t, day)[h], t.window) # 0}

\* What a rotation makes of a tally of an earlier day.
LEMMA RotateIs ==
  ASSUME NEW t, NEW day, ~(day <= t.today)
  PROVE  Rotate(t, day) = [today |-> day, window |-> t.window,
                           rings |-> [h \in Alive(t, day) |-> ShiftedRings(t, day)[h]],
                           last |-> [h \in Alive(t, day) |-> t.last[h]]]
<1>1. DOMAIN ShiftedRings(t, day) = DOMAIN t.rings
  BY DEF ShiftedRings
<1> QED  BY <1>1 DEF Rotate, Alive, ShiftedRings, Restrict

\* What has not happened yet, or is in a shifted ring, is what the log says.
LEMMA ShiftedSay ==
  ASSUME NEW t, NEW log \in Logs, Says(t, log), NEW day \in Days, ~(day <= t.today),
         NEW h \in DOMAIN t.rings, NEW a \in Ages(t.window)
  PROVE  ShiftedRings(t, day)[h][a] = CountOn(log, h, day - a)
<1> DEFINE gap == day - t.today
<1>1. /\ t.today \in Nat /\ t.window \in Nat /\ day \in Nat /\ LastDay \in Nat
      /\ h \in Hosts /\ t.today < day
  BY ZoneConstants DEF Says, TallyTyped, RingsSay
<1>2. a \in Nat /\ a < t.window
  BY <1>1 DEF Ages
<1>3. ShiftedRings(t, day)[h][a] = IF a < gap THEN 0 ELSE t.rings[h][a - gap]
  BY DEF ShiftedRings
<1>4. CASE a < gap
  <2>1. day - a \in Int /\ day - a > t.today
    BY <1>1, <1>2, <1>4
  <2>2. day - a \in Days => log[h][day - a] = 0
    BY <1>1, <2>1 DEF Says
  <2> QED  BY <1>3, <1>4, <2>2 DEF CountOn
<1>5. CASE ~(a < gap)
  <2>1. a - gap \in Ages(t.window)
    BY <1>1, <1>2, <1>5 DEF Ages
  <2>2. t.today - (a - gap) = day - a
    BY <1>1, <1>2
  <2>3. t.rings[h][a - gap] = CountOn(log, h, t.today - (a - gap))
    BY <2>1 DEF Says, RingsSay
  <2> QED  BY <1>3, <1>5, <2>2, <2>3
<1> QED  BY <1>4, <1>5

\* What a log says of a day is a number.
LEMMA CountTyped ==
  ASSUME NEW log \in Logs, NEW h \in Hosts, NEW d
  PROVE  CountOn(log, h, d) \in Nat
BY DEF CountOn, Logs

\* A rotation keeps what is said: a ring dropped has nothing within the window.
LEMMA RotateSays ==
  ASSUME NEW t, NEW log \in Logs, Says(t, log), NEW day \in Days
  PROVE  Says(Rotate(t, day), log)
<1>1. CASE day <= t.today
  BY <1>1 DEF Rotate
<1>2. CASE ~(day <= t.today)
  <2> DEFINE u == Rotate(t, day)
             R == ShiftedRings(t, day)
             A == Alive(t, day)
  <2>1. /\ t.today \in Nat /\ t.window \in Nat \ {0} /\ day \in Nat /\ t.today < day
        /\ DOMAIN t.rings \subseteq Hosts
    BY <1>2, ZoneConstants DEF Says, TallyTyped, RingsSay
  <2>2. /\ u = [today |-> day, window |-> t.window, rings |-> [h \in A |-> R[h]],
                last |-> [h \in A |-> t.last[h]]]
        /\ A = {h \in DOMAIN t.rings : SumLast(R[h], t.window) # 0}
    BY <1>2, RotateIs DEF Alive
  <2>3. /\ \A h \in DOMAIN t.rings : DOMAIN R[h] = Ages(t.window)
        /\ \A h \in DOMAIN t.rings : \A a \in Ages(t.window) : R[h][a] = CountOn(log, h, day - a)
    <3>1. \A h \in DOMAIN t.rings : DOMAIN R[h] = Ages(t.window)
      BY DEF ShiftedRings
    <3> QED  BY <1>2, <3>1, ShiftedSay
  <2> HIDE DEF u, R, A
  <2>4. /\ u.today = day /\ u.window = t.window /\ DOMAIN u.rings = A
        /\ \A h \in A : u.rings[h] = R[h]
    BY <2>2
  <2>5. TallyTyped(u)
    BY <2>1, <2>2, <2>4 DEF TallyTyped
  <2>6. A \subseteq DOMAIN t.rings
    BY <2>2
  <2>7. RingsSay(u.rings, u.window, u.today, log)
    <3>1. ASSUME NEW h \in A
          PROVE  /\ DOMAIN u.rings[h] = Ages(t.window)
                 /\ \A a \in Ages(t.window) : u.rings[h][a] = CountOn(log, h, day - a)
      BY <2>3, <2>4, <2>6
    <3> QED  BY <2>1, <2>4, <2>6, <3>1 DEF RingsSay
  <2>8. ASSUME NEW h \in Hosts, NEW d \in Days, d > day PROVE log[h][d] = 0
    <3>1. d > t.today
      BY <2>1, <2>8, ZoneConstants
    <3> QED  BY <3>1 DEF Says
  <2>9. ASSUME NEW h \in Hosts \ A, NEW d \in Days, d <= day, d + t.window > day
        PROVE  log[h][d] = 0
    <3>1. d \in Nat
      BY ZoneConstants
    <3>2. CASE d > t.today
      BY <3>2 DEF Says
    <3>3. CASE d <= t.today /\ h \notin DOMAIN t.rings
      <4>1. d + t.window > t.today
        BY <2>1, <2>9, <3>1
      <4> QED  BY <3>3, <4>1 DEF Says
    <3>4. CASE h \in DOMAIN t.rings
      <4> DEFINE ring == R[h]
                 S == {a \in DOMAIN ring : a < t.window}
      <4>1. Total(ring, S) = 0
        BY <2>2, <3>4 DEF SumLast
      <4>2. DOMAIN ring = 0 .. t.window - 1
        BY <2>3, <3>4 DEF Ages
      <4>3. S = 0 .. t.window - 1
        BY <2>1, <4>2
      <4>4. IsFiniteSet(S)
        <5>1. t.window - 1 \in Int
          BY <2>1
        <5>2. IsFiniteSet(0 .. t.window - 1)
          BY <5>1, FS_Interval
        <5> HIDE DEF S
        <5> QED  BY <4>3, <5>2
      <4>5. \A a \in S : ring[a] = CountOn(log, h, day - a)
        BY <2>3, <3>4, <4>3 DEF Ages
      <4>6. \A a \in S : ring[a] \in Nat
        BY <4>5, CountTyped
      <4> HIDE DEF S, ring
      <4>7. \A a \in S : ring[a] = 0
        BY <4>1, <4>4, <4>6, TotalFacts
      <4>8. day - d \in S /\ day - (day - d) = d
        BY <2>1, <2>9, <3>1, <4>3
      <4>9. CountOn(log, h, d) = 0
        BY <4>5, <4>7, <4>8
      <4> QED  BY <4>9 DEF CountOn
    <3> QED  BY <2>1, <3>1, <3>2, <3>3, <3>4
  <2>10. Says(u, log)
    BY <2>4, <2>5, <2>7, <2>8, <2>9 DEF Says
  <2> QED  BY <2>10 DEF u
<1> QED  BY <1>1, <1>2

-----------------------------------------------------------------------------
(* A visit: hosts are struck off the rings and the record, and one of the  *)
(* tally's day is added.                                                   *)

\* Hosts struck off both the rings and the record leave the rest as it was.
LEMMA WithoutSays ==
  ASSUME NEW t, NEW log \in Logs, Says(t, log), NEW out,
         NEW struck \in Logs,
         \A h \in Hosts : struck[h] = IF h \in out THEN NoVisits[h] ELSE log[h]
  PROVE  Says(Without(t, out), struck)
<1> DEFINE u == Without(t, out)
<1>1. /\ u = [today |-> t.today, window |-> t.window, rings |-> u.rings, last |-> u.last]
      /\ u.today = t.today /\ u.window = t.window
      /\ u.rings = [h \in DOMAIN t.rings \ out |-> t.rings[h]]
  BY DEF Without, Restrict
<1> HIDE DEF u
<1>2. TallyTyped(u)
  BY <1>1 DEF TallyTyped, Says
<1>3. \A h \in Hosts : h \in out => \A d \in Days : struck[h][d] = 0
  BY DEF NoVisits
<1>4. RingsSay(u.rings, u.window, u.today, struck)
  BY <1>1 DEF Says, RingsSay, CountOn
<1>5. \A h \in Hosts \ DOMAIN u.rings : \A d \in Days :
          d <= u.today /\ d + u.window > u.today => struck[h][d] = 0
  BY <1>1, <1>3 DEF Says
<1>6. \A h \in Hosts : \A d \in Days : d > u.today => struck[h][d] = 0
  BY <1>1, <1>3 DEF Says
<1> QED  BY <1>2, <1>4, <1>5, <1>6 DEF Says, u

\* A visit is in the ring, at age 0, and on the record, on the day of the tally.
LEMMA VisitedSays ==
  ASSUME NEW t, NEW log \in Logs, Says(t, log), NEW h \in Hosts,
         NEW more \in Logs, \A g \in Hosts : g # h => more[g] = log[g],
         \A d \in Days : more[h][d] = log[h][d] + (IF d = t.today THEN 1 ELSE 0)
  PROVE  Says(Visited(t, h), more)
<1> DEFINE u == Visited(t, h)
<1>1. /\ u = [today |-> t.today, window |-> t.window, rings |-> u.rings, last |-> u.last]
      /\ u.today = t.today /\ u.window = t.window /\ DOMAIN u.rings = DOMAIN t.rings \cup {h}
      /\ \A g \in DOMAIN t.rings : g # h => u.rings[g] = t.rings[g]
      /\ DOMAIN u.rings[h] = Ages(t.window)
      /\ \A a \in Ages(t.window) :
            u.rings[h][a] = (IF h \in DOMAIN t.rings THEN t.rings[h][a] ELSE 0)
                             + (IF a = 0 THEN 1 ELSE 0)
  BY DEF Visited
<1> HIDE DEF u
<1>2. TallyTyped(u) /\ t.today \in Days /\ t.today \in Nat /\ t.window \in Nat \ {0}
  BY <1>1, ZoneConstants DEF TallyTyped, Says
<1>3. \A a \in Ages(t.window) : u.rings[h][a] = CountOn(more, h, t.today - a)
  <2> SUFFICES ASSUME NEW a \in Ages(t.window)
               PROVE  u.rings[h][a] = CountOn(more, h, t.today - a)
    OBVIOUS
  <2>1. a \in Nat /\ a < t.window
    BY <1>2 DEF Ages
  <2>2. h \in DOMAIN t.rings => t.rings[h][a] = CountOn(log, h, t.today - a)
    BY DEF Says, RingsSay
  <2>3. CASE t.today - a \in Days
    <3>1. h \notin DOMAIN t.rings => log[h][t.today - a] = 0
      <4>1. t.today - a <= t.today /\ (t.today - a) + t.window > t.today
        BY <1>2, <2>1
      <4> QED  BY <2>3, <4>1 DEF Says
    <3>2. (IF h \in DOMAIN t.rings THEN t.rings[h][a] ELSE 0) = log[h][t.today - a]
      BY <2>2, <2>3, <3>1 DEF CountOn
    <3>3. a = 0 <=> t.today - a = t.today
      BY <1>2, <2>1
    <3> QED  BY <1>1, <2>3, <3>2, <3>3 DEF CountOn
  <2>4. CASE t.today - a \notin Days
    <3>1. a # 0
      BY <1>2, <2>4
    <3> QED  BY <1>1, <2>2, <2>4, <3>1 DEF CountOn
  <2> QED  BY <2>3, <2>4
<1>4. RingsSay(u.rings, u.window, u.today, more)
  BY <1>1, <1>3 DEF Says, RingsSay, CountOn
<1>5. \A g \in Hosts \ DOMAIN u.rings : \A d \in Days :
          d <= u.today /\ d + u.window > u.today => more[g][d] = 0
  BY <1>1 DEF Says
<1>6. \A g \in Hosts : \A d \in Days : d > u.today => more[g][d] = 0
  <2> SUFFICES ASSUME NEW g \in Hosts, NEW d \in Days, d > t.today PROVE more[g][d] = 0
    BY <1>1
  <2>1. log[g][d] = 0 /\ d # t.today
    BY <1>2, ZoneConstants DEF Says
  <2> QED  BY <2>1
<1> QED  BY <1>2, <1>4, <1>5, <1>6 DEF Says, u

-----------------------------------------------------------------------------
(* A file restored says what is left of the log it was written by.         *)

RememberedOf(f, log) ==
    [h \in Hosts |-> [d \in Days |->
        IF h \in DOMAIN f.rings /\ f.today - d \in DOMAIN f.rings[h] THEN log[h][d] ELSE 0]]

\* A file cut or padded to a window, and rotated to a day, says what is remembered.
LEMMA RestoredSays ==
  ASSUME NEW f, NEW log \in Logs, FileSays(f, log), NEW window \in Nat \ {0}, NEW day \in Days
  PROVE  /\ RememberedOf(f, log) \in Logs
         /\ Says(FromPersisted(f, window, day), RememberedOf(f, log))
<1> DEFINE left == RememberedOf(f, log)
           R == Resized(f, window)
           u == [today |-> f.today, window |-> window, rings |-> R,
                 last |-> [h \in DOMAIN R |-> LastVisited(f, R[h])]]
<1>1. PICK w \in Nat \ {0} : RingsSay(f.rings, w, f.today, log)
  BY DEF FileSays
<1>2. f.today \in Days /\ f.today \in Nat
  BY ZoneConstants DEF FileSays
<1>3. \A h \in DOMAIN f.rings : h \in Hosts /\ DOMAIN f.rings[h] = Ages(w)
  BY <1>1 DEF RingsSay
<1>4. \A h \in Hosts : \A d \in Days :
         left[h][d] = IF h \in DOMAIN f.rings /\ f.today - d \in DOMAIN f.rings[h]
                      THEN log[h][d] ELSE 0
  BY DEF RememberedOf
<1>5. left \in Logs
  BY DEF RememberedOf, Logs
<1>6. /\ DOMAIN R = DOMAIN f.rings
      /\ \A h \in DOMAIN f.rings : DOMAIN R[h] = Ages(window)
      /\ \A h \in DOMAIN f.rings : \A a \in Ages(window) :
            R[h][a] = IF a \in DOMAIN f.rings[h] THEN f.rings[h][a] ELSE 0
  BY DEF Resized
<1> HIDE DEF left, R
<1>7. ASSUME NEW h \in DOMAIN f.rings, NEW a \in Ages(window)
      PROVE  R[h][a] = CountOn(left, h, f.today - a)
  <2>1. a \in Int /\ f.today - (f.today - a) = a
    BY <1>2 DEF Ages
  <2>2. a \in Ages(w) => f.rings[h][a] = CountOn(log, h, f.today - a)
    BY <1>1 DEF RingsSay
  <2>3. R[h][a] = IF a \in Ages(w) THEN CountOn(log, h, f.today - a) ELSE 0
    BY <1>3, <1>6, <2>2
  <2>4. CASE f.today - a \in Days
    <3>1. left[h][f.today - a] = IF a \in Ages(w) THEN log[h][f.today - a] ELSE 0
      BY <1>3, <1>4, <2>1, <2>4
    <3> QED  BY <2>3, <2>4, <3>1 DEF CountOn
  <2>5. CASE f.today - a \notin Days
    BY <2>3, <2>5 DEF CountOn
  <2> QED  BY <2>4, <2>5
<1>8. RingsSay(R, window, f.today, left)
  BY <1>3, <1>6, <1>7 DEF RingsSay
<1>9. \A h \in Hosts \ DOMAIN R : \A d \in Days : left[h][d] = 0
  BY <1>4, <1>6
<1>10. ASSUME NEW h \in Hosts, NEW d \in Days, d > f.today PROVE left[h][d] = 0
  <2>1. f.today - d \notin Ages(w)
    BY <1>2, <1>10, ZoneConstants DEF Ages
  <2> QED  BY <1>3, <1>4, <2>1
<1>11. Says(u, left)
  <2>1. /\ u = [today |-> u.today, window |-> u.window, rings |-> u.rings, last |-> u.last]
        /\ u.today = f.today /\ u.window = window /\ u.rings = R
    OBVIOUS
  <2> HIDE DEF u
  <2>2. TallyTyped(u)
    BY <1>2, <2>1 DEF TallyTyped
  <2> QED  BY <1>8, <1>9, <1>10, <2>1, <2>2 DEF Says
<1>12. FromPersisted(f, window, day) = Rotate(u, day)
  BY DEF FromPersisted, R
<1> HIDE DEF u
<1>13. Says(Rotate(u, day), left)
  BY <1>5, <1>11, RotateSays
<1> QED  BY <1>5, <1>12, <1>13 DEF left

\* No ring says what no visit does.
LEMMA EmptySays ==
  ASSUME NEW window \in Nat \ {0}, NEW day \in Days
  PROVE  NoVisits \in Logs /\ Says(Empty(window, day), NoVisits)
<1>1. NoVisits \in Logs /\ \A h \in Hosts : \A d \in Days : NoVisits[h][d] = 0
  BY DEF NoVisits, Logs
<1>2. /\ TallyTyped(Empty(window, day)) /\ DOMAIN Empty(window, day).rings = {}
      /\ RingsSay(Empty(window, day).rings, window, day, NoVisits)
  BY DEF TallyTyped, Empty, RingsSay
<1>3. Empty(window, day).today = day /\ Empty(window, day).window = window
  BY DEF Empty
<1> HIDE DEF NoVisits, Empty
<1> QED  BY <1>1, <1>2, <1>3 DEF Says

-----------------------------------------------------------------------------
(* Each operation keeps the invariant.                                     *)

\* At first there are no visits, and some table has the shortest window.
LEMMA ZoneInitInv == ZoneInit => ZoneInv
<1> SUFFICES ASSUME ZoneInit PROVE ZoneInv
  OBVIOUS
<1>1. \E c \in Thresholds : \A d \in Thresholds : WindowOf(c) <= WindowOf(d)
  <2> DEFINE lengths == {WindowOf(c) : c \in Thresholds}
             less == OpToRel(<, Nat)
  <2>1. lengths \subseteq Nat /\ lengths # {}
    BY WindowIs, PersonalZoneAssumption
  <2>2. IsWellFoundedOn(less, Nat)
    BY NatLessThanWellFounded
  <2>3. \A i, j \in Nat : i < j => <<i, j>> \in less
    BY DEF OpToRel
  <2> HIDE DEF less, lengths
  <2>4. PICK m \in lengths : \A n \in lengths : ~(<<n, m>> \in less)
    BY <2>1, <2>2, WFMin
  <2>5. ASSUME NEW n \in lengths PROVE m <= n
    <3>1. m \in Nat /\ n \in Nat
      BY <2>1
    <3>2. ~(n < m)
      BY <2>3, <2>4, <3>1
    <3> QED  BY <3>1, <3>2
  <2>6. PICK c \in Thresholds : m = WindowOf(c)
    BY <2>4 DEF lengths
  <2>7. \A d \in Thresholds : WindowOf(d) \in lengths
    BY DEF lengths
  <2> QED  BY <2>5, <2>6, <2>7
<1>2. cfg \in Thresholds
  BY <1>1 DEF ZoneInit
<1>3. clock \in Days /\ clock = 0
  BY ZoneConstants DEF ZoneInit
<1>4. Says(tally, visits) /\ visits \in Logs
  BY <1>2, <1>3, WindowIs, EmptySays DEF ZoneInit
<1> QED  BY <1>2, <1>3, <1>4 DEF ZoneInit, ZoneInv

\* A visit, on a day that may have begun since, with or without an eviction.
LEMMA VisitKeeps == ASSUME ZoneInv, NEW h \in Hosts, Visit(h) PROVE ZoneInv'
<1>1. PICK out : \E t \in {Rotate(tally, clock)} :
         /\ out \in IF h \in DOMAIN t.rings \/ Cardinality(DOMAIN t.rings) < Cap THEN {{}}
                    ELSE Victims(t)
         /\ tally' = Visited(Without(t, out), h)
         /\ visits' = [g \in Hosts |-> IF g \in out THEN NoVisits[g]
                                       ELSE IF g = h THEN [visits[g] EXCEPT ![t.today] = @ + 1]
                                       ELSE visits[g]]
  BY DEF Visit
<1> DEFINE t == Rotate(tally, clock)
           struck == [g \in Hosts |-> IF g \in out THEN NoVisits[g] ELSE visits[g]]
<1>2. clock \in Days /\ visits \in Logs /\ Says(tally, visits)
  BY DEF ZoneInv
<1>3. Says(t, visits)
  BY <1>2, RotateSays
<1>4. h \notin out
  BY <1>1 DEF Victims, Sets!kSubset
<1>5. /\ tally' = Visited(Without(t, out), h)
      /\ visits' = [g \in Hosts |-> IF g \in out THEN NoVisits[g]
                                    ELSE IF g = h THEN [visits[g] EXCEPT ![t.today] = @ + 1]
                                    ELSE visits[g]]
  BY <1>1
<1> HIDE DEF t
<1>6. t.today \in Days /\ NoVisits \in Logs
  BY <1>3 DEF Says, TallyTyped, NoVisits, Logs
<1>7. struck \in Logs /\ \A g \in Hosts : struck[g] = IF g \in out THEN NoVisits[g] ELSE visits[g]
  BY <1>2, <1>6 DEF Logs
<1>8. visits[h] \in [Days -> Nat]
  BY <1>2 DEF Logs
<1>9. /\ \A g \in Hosts : visits'[g] = IF g = h THEN [visits[h] EXCEPT ![t.today] = @ + 1]
                                       ELSE struck[g]
      /\ struck[h] = visits[h] /\ DOMAIN visits' = Hosts
  BY <1>4, <1>5, <1>7
<1> HIDE DEF struck
<1> DEFINE row == [visits[h] EXCEPT ![t.today] = @ + 1]
<1>10. /\ row \in [Days -> Nat]
       /\ \A d \in Days : row[d] = visits[h][d] + (IF d = t.today THEN 1 ELSE 0)
  BY <1>6, <1>8
<1>11. visits'[h] = row /\ \A g \in Hosts : g # h => visits'[g] = struck[g]
  BY <1>9
<1> HIDE DEF row
<1>12. visits' \in Logs
  <2>1. visits' = [g \in Hosts |-> visits'[g]]
    BY <1>5
  <2>2. \A g \in Hosts : visits'[g] \in [Days -> Nat]
    BY <1>7, <1>10, <1>11 DEF Logs
  <2> QED  BY <2>1, <2>2 DEF Logs
<1>13. Says(Without(t, out), struck)
  BY <1>2, <1>3, <1>7, WithoutSays
<1>14. Without(t, out).today = t.today
  BY DEF Without
<1>15. \A d \in Days : visits'[h][d] = struck[h][d] + (IF d = t.today THEN 1 ELSE 0)
  BY <1>9, <1>10, <1>11
<1>16. Says(tally', visits')
  <2> DEFINE more == visits'
             less == Without(t, out)
  <2>1. /\ more \in Logs /\ Says(less, struck) /\ struck \in Logs
        /\ \A g \in Hosts : g # h => more[g] = struck[g]
        /\ \A d \in Days : more[h][d] = struck[h][d] + (IF d = less.today THEN 1 ELSE 0)
    BY <1>7, <1>11, <1>12, <1>13, <1>14, <1>15
  <2> HIDE DEF more, less
  <2>2. Says(Visited(less, h), more)
    BY <2>1, VisitedSays
  <2> QED  BY <1>5, <2>2 DEF more, less
<1> QED  BY <1>2, <1>12, <1>16 DEF Visit, ZoneInv

\* The rings and the file of the same tally say the same.
LEMMA RepublishKeeps == ASSUME ZoneInv, Republish PROVE ZoneInv'
<1>1. /\ tally' = Rotate(tally, clock) /\ UNCHANGED <<clock, cfg, visits>>
      /\ saved' = {[today |-> tally'.today, rings |-> tally'.rings]} /\ savedVisits' = visits
  BY DEF Republish
<1>2. Says(tally', visits)
  BY <1>1, RotateSays DEF ZoneInv
<1>3. \A f \in saved' : FileSays(f, visits)
  BY <1>1, <1>2 DEF FileSays, Says, TallyTyped
<1> QED  BY <1>1, <1>2, <1>3 DEF ZoneInv

\* A start has a file to restore, or begins with nothing on record.
LEMMA ZoneStartsKeeps ==
  ASSUME ZoneInv, NEW opened \in SUBSET saved, NEW on, NEW moved, ZoneStarts(opened, on, moved)
  PROVE  ZoneInv'
<1> DEFINE f == CHOOSE f \in opened : TRUE
<1>1. WindowOf(cfg) \in Nat \ {0} /\ clock \in Days /\ savedVisits \in Logs
  BY WindowIs DEF ZoneInv
<1>2. UNCHANGED <<clock, cfg, savedVisits>> /\ saved' \subseteq saved
  BY DEF ZoneStarts
<1>3. visits' \in Logs /\ Says(tally', visits')
  <2>1. CASE opened = {}
    <3>1. tally' = Empty(WindowOf(cfg), clock) /\ visits' = NoVisits
      BY <2>1 DEF ZoneStarts
    <3> QED  BY <1>1, <3>1, EmptySays
  <2>2. CASE opened # {}
    <3>1. f \in saved
      BY <2>2
    <3>2. tally' = FromPersisted(f, WindowOf(cfg), clock) /\ visits' = Remembered(f)
      BY <2>2 DEF ZoneStarts
    <3>3. Remembered(f) = RememberedOf(f, savedVisits)
      BY DEF Remembered, RememberedOf
    <3> HIDE DEF f
    <3>4. FileSays(f, savedVisits)
      BY <3>1 DEF ZoneInv
    <3> QED  BY <1>1, <3>2, <3>3, <3>4, RestoredSays
  <2> QED  BY <2>1, <2>2
<1> QED  BY <1>2, <1>3 DEF ZoneInv

\* Neither the clock nor the table is the rings' concern until the next operation.
LEMMA ClockOrTableKeeps == ASSUME ZoneInv, ClockOrTable PROVE ZoneInv'
BY DEF ZoneInv, ClockOrTable

\* A crash leaves the file, and the log of the last save.
LEMMA ZoneCrashKeeps == ASSUME ZoneInv, ZoneCrash PROVE ZoneInv'
<1>1. /\ tally' = Empty(WindowOf(cfg), clock) /\ visits' = NoVisits
      /\ UNCHANGED <<clock, cfg, saved, savedVisits>>
  BY DEF ZoneCrash
<1>2. Says(tally', visits') /\ visits' \in Logs
  BY <1>1, WindowIs, EmptySays DEF ZoneInv
<1> QED  BY <1>1, <1>2 DEF ZoneInv
=============================================================================
