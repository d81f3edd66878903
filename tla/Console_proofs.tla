--------------------------- MODULE Console_proofs ---------------------------
(***************************************************************************)
(* The ceilings of connections and of event streams hold for any number of *)
(* peers, pages, topics, permits and slots, in any scenario.               *)
(*                                                                         *)
(* What is taken is counted by who holds it: each step that changes the    *)
(* permits left or the slots left adds one peer to the admitted or one page*)
(* to the receivers, or removes one.  The prober's steps come after, and   *)
(* then the types of the whole.                                            *)
(***************************************************************************)
EXTENDS Console, FiniteSetTheorems, TLAPS

\* Every page is at some step, whatever else is known of it.
PageShape == DOMAIN page = Pages /\ \A p \in Pages : "step" \in DOMAIN page[p]

Counters == /\ conn \in [Peers -> {"none", "handshake", "open"}]
            /\ permits \in Nat /\ slots \in Nat

IndInv == Counters /\ PageShape /\ CeilingsHold

\* What a step may do to the pages: nothing to where they are, or move one.
PagesStay == PageShape' /\ \A q \in Pages : page'[q].step = page[q].step
PageMoves(p, steps) ==
    /\ PageShape'
    /\ page'[p].step \in steps
    /\ \A q \in Pages \ {p} : page'[q].step = page[q].step

Receiving == {"subscribing", "opening", "live"}

-----------------------------------------------------------------------------
\* Who holds a connection, or a stream, can be counted: there are finitely many peers.
LEMMA FinitelyMany == IsFiniteSet(Admitted) /\ IsFiniteSet(Receivers)
<1>1. Admitted \subseteq Peers /\ Receivers \subseteq Peers
  BY PagesAssumption DEF Admitted, Receivers
<1> QED  BY <1>1, PeersAssumption, FS_Subset

\* One more, when a finite set gains a member.
LEMMA OneMore ==
  ASSUME NEW S, IsFiniteSet(S), NEW e, e \notin S
  PROVE  Cardinality(S \cup {e}) = Cardinality(S) + 1 /\ Cardinality(S) \in Nat
  BY FS_AddElement, FS_CardinalityType

\* One less, when a member of a finite set goes.
LEMMA OneLess ==
  ASSUME NEW S, IsFiniteSet(S), NEW e \in S
  PROVE  Cardinality(S \ {e}) = Cardinality(S) - 1 /\ Cardinality(S) \in Nat
  BY FS_RemoveElement, FS_CardinalityType

-----------------------------------------------------------------------------
(* The connections. *)

\* A step that leaves the connections, permits, slots and the pages' places alone.
LEMMA NothingTaken ==
  ASSUME IndInv, UNCHANGED <<conn, permits, slots>>, PagesStay
  PROVE  IndInv'
<1>1. Admitted' = Admitted /\ Receivers' = Receivers
  BY DEF Admitted, Receivers, Receives, PagesStay
<1> QED  BY <1>1 DEF IndInv, Counters, CeilingsHold, PagesStay

\* The pages have not changed at all.
LEMMA SamePages == ASSUME IndInv, UNCHANGED page PROVE PagesStay
  BY DEF IndInv, PageShape, PagesStay

\* A connection is accepted: a permit less, an admitted peer more.
LEMMA ConnectsStep ==
  ASSUME IndInv, NEW p \in Peers, Accept(p), UNCHANGED eventVars
  PROVE  IndInv'
<1> USE DEF IndInv, Counters
<1>1. Admitted' = Admitted \cup {p} /\ p \notin Admitted
  BY DEF Accept, Admitted
<1>2. Cardinality(Admitted') = Cardinality(Admitted) + 1 /\ Cardinality(Admitted) \in Nat
  BY <1>1, FinitelyMany, OneMore
<1>3. PagesStay /\ Receivers' = Receivers
  BY SamePages DEF eventVars, Receivers, Receives
<1>4. Counters'
  BY DEF Accept, eventVars
<1>5. permits' + Cardinality(Admitted)' = MaxConnections /\ permits' >= 0
  BY <1>2 DEF Accept, CeilingsHold
<1>6. slots' + Cardinality(Receivers)' = MaxStreams /\ slots' >= 0
  BY <1>3 DEF eventVars, CeilingsHold
<1>7. \A q \in Receivers' : conn'[q] = "open"
  <2>1. p \notin Receivers
    BY DEF Accept, CeilingsHold
  <2> QED  BY <1>3, <2>1, PagesAssumption DEF Accept, CeilingsHold, Receivers
<1> QED  BY <1>3, <1>4, <1>5, <1>6, <1>7 DEF PagesStay, CeilingsHold

\* The task of a connection ends; whoever receives on it has gone before.
LEMMA CloseStep ==
  ASSUME IndInv, NEW p \in Peers, conn[p] # "none", Close(p), PageShape',
         slots' \in Nat, slots' + Cardinality(Receivers') = MaxStreams,
         Receivers' \subseteq Receivers \ {p}
  PROVE  IndInv'
<1> USE DEF IndInv, Counters
<1>1. Admitted' = Admitted \ {p} /\ p \in Admitted
  BY DEF Close, Admitted
<1>2. Cardinality(Admitted') = Cardinality(Admitted) - 1 /\ Cardinality(Admitted) \in Nat
  BY <1>1, FinitelyMany, OneLess
<1>3. Counters'
  BY DEF Close
<1>4. permits' + Cardinality(Admitted)' = MaxConnections /\ permits' >= 0
  BY <1>2, <1>3 DEF Close, CeilingsHold
<1>5. \A q \in Receivers' : conn'[q] = "open"
  BY PagesAssumption DEF Close, CeilingsHold, Receivers
<1> QED  BY <1>3, <1>4, <1>5 DEF CeilingsHold

\* A handshake ends well and nothing is counted, or fails and its permit is back.
LEMMA HandshakeStep ==
  ASSUME IndInv, NEW p \in Peers, HandshakeDone(p) \/ HandshakeFails(p), UNCHANGED eventVars
  PROVE  IndInv'
<1> USE DEF IndInv, Counters
<1>1. PagesStay /\ Receivers' = Receivers /\ slots' = slots
  BY SamePages DEF eventVars, Receivers, Receives
<1>2. conn[p] = "handshake"
  BY DEF HandshakeDone, HandshakeFails
<1>3. p \notin Receivers
  BY <1>2 DEF CeilingsHold
<1>4. CASE HandshakeDone(p)
  <2>1. Admitted' = Admitted
    BY <1>4, <1>2 DEF HandshakeDone, Admitted
  <2>2. Counters' /\ permits' = permits
    BY <1>4, <1>1 DEF HandshakeDone
  <2>3. \A q \in Receivers' : conn'[q] = "open"
    BY <1>4, <1>1, <1>3, PagesAssumption DEF HandshakeDone, CeilingsHold, Receivers
  <2> QED  BY <1>1, <2>1, <2>2, <2>3 DEF PagesStay, CeilingsHold
<1>5. CASE HandshakeFails(p)
  <2>1. Receivers' \subseteq Receivers \ {p}
    BY <1>1, <1>3
  <2>2. slots' + Cardinality(Receivers') = MaxStreams
    BY <1>1 DEF CeilingsHold
  <2> QED  BY <1>1, <1>2, <1>5, <2>1, <2>2, CloseStep DEF HandshakeFails, PagesStay
<1> QED  BY <1>4, <1>5

-----------------------------------------------------------------------------
(* The streams. *)

\* A page that receives nothing goes to another place where it receives nothing,
\* or from one place where it receives to another: nothing is taken or given.
LEMMA PageMovesOn ==
  ASSUME IndInv, NEW p \in Pages, NEW steps, PageMoves(p, steps),
         UNCHANGED <<conn, permits, slots>>,
         IF Receives(p) THEN steps \subseteq Receiving ELSE steps \cap Receiving = {}
  PROVE  IndInv'
<1>1. Receivers' = Receivers
  BY DEF Receivers, Receives, Receiving, PageMoves
<1>2. Admitted' = Admitted
  BY DEF Admitted
<1> QED  BY <1>1, <1>2 DEF IndInv, Counters, CeilingsHold, PageMoves

\* DropStream gives back the slot of a page that had one.
LEMMA DropStreamFacts ==
  ASSUME IndInv, NEW p \in Pages, DropStream(p)
  PROVE  /\ PageShape' /\ slots' \in Nat
         /\ Receivers' = Receivers \ {p}
         /\ slots' + Cardinality(Receivers') = MaxStreams
<1>1. PageMoves(p, {page'[p].step})
  BY DEF IndInv, PageShape, PageMoves, DropStream
<1>2. page'[p].step \notin Receiving
  BY DEF IndInv, PageShape, DropStream, Receives, Receiving
<1>3. Receivers' = Receivers \ {p}
  BY <1>1, <1>2 DEF Receivers, Receives, Receiving, PageMoves
<1>4. CASE p \in Receivers
  <2>1. Cardinality(Receivers') = Cardinality(Receivers) - 1 /\ Cardinality(Receivers) \in Nat
    BY <1>3, <1>4, FinitelyMany, OneLess
  <2>2. slots' = slots + 1
    BY <1>4 DEF DropStream, Receivers
  <2> QED  BY <1>1, <1>3, <2>1, <2>2 DEF IndInv, Counters, CeilingsHold, PageMoves
<1>5. CASE p \notin Receivers
  <2>1. Receivers' = Receivers
    BY <1>3, <1>5
  <2>2. slots' = slots
    BY <1>5 DEF DropStream, Receivers
  <2> QED  BY <1>1, <1>3, <2>1, <2>2 DEF IndInv, Counters, CeilingsHold, PageMoves
<1> QED  BY <1>4, <1>5

\* An open connection ends, with the stream on it if it is a page's.
LEMMA EndsStep ==
  ASSUME IndInv, NEW p \in Peers, Ends(p)
  PROVE  IndInv'
<1>1. CASE p \in Pages
  BY <1>1, DropStreamFacts, CloseStep DEF Ends
<1>2. CASE p \notin Pages
  <2>1. PagesStay /\ Receivers' = Receivers /\ slots' = slots
    BY <1>2, SamePages DEF Ends, eventVars, Receivers, Receives
  <2>2. p \notin Receivers
    BY <1>2 DEF Receivers
  <2>3. slots' \in Nat /\ slots' + Cardinality(Receivers') = MaxStreams
    BY <2>1 DEF IndInv, Counters, CeilingsHold
  <2> QED  BY <2>1, <2>2, <2>3, CloseStep DEF Ends, PagesStay
<1> QED  BY <1>1, <1>2

\* A page is refused a stream, or takes a slot.
LEMMA OpenStep ==
  ASSUME IndInv, NEW p \in Pages, OpenEventStream(p), UNCHANGED admissionVars
  PROVE  IndInv'
<1> USE DEF IndInv, Counters
<1>1. ~Receives(p) /\ conn[p] = "open"
  BY DEF OpenEventStream, Receives
<1>2. CASE slots = 0 \/ shutdown
  <2>1. PageMoves(p, {"lost"}) /\ UNCHANGED <<conn, permits, slots>>
    BY <1>2 DEF OpenEventStream, PageMoves, PageShape, admissionVars
  <2> QED  BY <1>1, <2>1, PageMovesOn DEF Receiving
<1>3. CASE slots > 0 /\ ~shutdown
  <2>1. PageMoves(p, {"subscribing"}) /\ slots' = slots - 1 /\ UNCHANGED <<conn, permits>>
    BY <1>3 DEF OpenEventStream, PageMoves, PageShape, admissionVars
  <2>2. Receivers' = Receivers \cup {p} /\ p \notin Receivers
    BY <1>1, <2>1 DEF Receivers, Receives, PageMoves
  <2>3. Cardinality(Receivers') = Cardinality(Receivers) + 1 /\ Cardinality(Receivers) \in Nat
    BY <2>2, FinitelyMany, OneMore
  <2>4. Admitted' = Admitted
    BY <2>1 DEF Admitted
  <2>5. slots' \in Nat /\ slots' + Cardinality(Receivers)' = MaxStreams
    BY <1>3, <2>1, <2>3 DEF CeilingsHold
  <2>6. \A q \in Receivers' : conn'[q] = "open"
    BY <1>1, <2>1, <2>2 DEF CeilingsHold
  <2> QED  BY <2>1, <2>4, <2>5, <2>6 DEF CeilingsHold, PageMoves
<1> QED  BY <1>2, <1>3 DEF OpenEventStream

\* A page that has not loaded its cards holds no stream, before or after.
LEMMA LoadStep ==
  ASSUME IndInv, NEW p \in Pages, PageLoads(p), UNCHANGED admissionVars
  PROVE  IndInv'
<1>1. PageMoves(p, {"loaded"}) /\ UNCHANGED <<conn, permits, slots>> /\ ~Receives(p)
  BY DEF IndInv, PageLoads, PageMoves, PageShape, Receives, admissionVars
<1> QED  BY <1>1, PageMovesOn DEF Receiving

\* A stream goes on from place to place, sends a frame, or ends.
LEMMA StreamStep ==
  ASSUME IndInv, NEW p \in Pages, UNCHANGED admissionVars,
         SubscribeTopics(p) \/ PageOpens(p) \/ NextFrame(p)
  PROVE  IndInv'
<1>1. CASE SubscribeTopics(p)
  <2>1. PageMoves(p, {"opening"}) /\ UNCHANGED <<conn, permits, slots>> /\ Receives(p)
    BY <1>1 DEF IndInv, SubscribeTopics, PageMoves, PageShape, Receives, admissionVars
  <2> QED  BY <2>1, PageMovesOn DEF Receiving
<1>2. CASE PageOpens(p)
  <2>1. PageMoves(p, {"live"}) /\ UNCHANGED <<conn, permits, slots>> /\ Receives(p)
    BY <1>2 DEF IndInv, PageOpens, PageMoves, PageShape, Receives, admissionVars
  <2> QED  BY <2>1, PageMovesOn DEF Receiving
<1>3. ASSUME SendStatus(p) PROVE IndInv'
  <2>1. PagesStay /\ UNCHANGED <<conn, permits, slots>>
    BY <1>3 DEF IndInv, SendStatus, PagesStay, PageShape, admissionVars
  <2> QED  BY <2>1, NothingTaken
<1>4. ASSUME NEW t \in Topics, SendTopic(p, t) PROVE IndInv'
  <2>1. PagesStay /\ UNCHANGED <<conn, permits, slots>>
    BY <1>4 DEF IndInv, SendTopic, PagesStay, PageShape, admissionVars
  <2> QED  BY <2>1, NothingTaken
<1>5. ASSUME EndFrames(p) PROVE IndInv'
  <2>1. /\ PageShape' /\ slots' \in Nat /\ Receivers' = Receivers \ {p}
        /\ slots' + Cardinality(Receivers') = MaxStreams
    BY <1>5, DropStreamFacts DEF EndFrames
  <2>2. Admitted' = Admitted /\ UNCHANGED <<conn, permits>>
    BY DEF Admitted, admissionVars
  <2> QED  BY <2>1, <2>2 DEF IndInv, Counters, CeilingsHold
<1> QED  BY <1>1, <1>2, <1>3, <1>4, <1>5 DEF NextFrame

-----------------------------------------------------------------------------
(* Steps that concern neither. *)

\* Changes, bumps and the sampler touch what pages are told, never where they are.
LEMMA EventStep ==
  ASSUME IndInv, UNCHANGED admissionVars,
         \/ (\E topics \in SUBSET Topics : Change(topics))
         \/ Bump \/ SamplerCounts \/ SamplerParks \/ SamplerUnparks
         \/ SamplerSamples \/ SamplerWakes
  PROVE  IndInv'
<1>1. UNCHANGED <<conn, permits, slots>>
  BY DEF admissionVars, Change, Bump, SamplerCounts, SamplerParks, SamplerUnparks,
         SamplerSamples, SamplerWakes
<1>2. CASE UNCHANGED page
  BY <1>1, <1>2, SamePages, NothingTaken
<1>3. CASE Bump
  <2>1. PagesStay
    BY <1>3 DEF IndInv, Bump, PagesStay, PageShape
  <2> QED  BY <1>1, <2>1, NothingTaken
<1>4. CASE SamplerSamples
  <2>1. PagesStay
    BY <1>4 DEF IndInv, SamplerSamples, PagesStay, PageShape
  <2> QED  BY <1>1, <2>1, NothingTaken
<1> QED
  BY <1>2, <1>3, <1>4 DEF Change, SamplerCounts, SamplerParks, SamplerUnparks, SamplerWakes

\* The prober, the network and the listener's shutdown touch neither.
LEMMA ElsewhereStep ==
  ASSUME IndInv, UNCHANGED <<conn, permits, eventVars>>
  PROVE  IndInv'
  BY SamePages, NothingTaken DEF eventVars

-----------------------------------------------------------------------------
\* Nothing is held at the start and everything is left.
LEMMA InitEstablishes == Init => IndInv
<1> SUFFICES ASSUME Init PROVE IndInv
  OBVIOUS
<1>1. Counters /\ PageShape
  BY ConnectionsAssumption, StreamsAssumption
     DEF Init, AdmissionInit, EventInit, Counters, PageShape
<1>2. Admitted = {} /\ Receivers = {}
  BY DEF Init, AdmissionInit, EventInit, Admitted, Receivers, Receives
<1> QED
  BY <1>1, <1>2, FS_EmptySet, ConnectionsAssumption, StreamsAssumption
     DEF Init, AdmissionInit, EventInit, IndInv, CeilingsHold

\* Every step keeps the account, by the lemma of its kind.
LEMMA NextPreserves == IndInv /\ [Next]_vars => IndInv'
<1> SUFFICES ASSUME IndInv, [Next]_vars PROVE IndInv'
  OBVIOUS
<1>1. CASE UNCHANGED vars
  BY <1>1, ElsewhereStep DEF vars, admissionVars
<1>2. CASE Probes \/ Deadline \/ Network \/ StopsServing \/ Shutdown
  <2>1. UNCHANGED <<conn, permits, eventVars>>
    BY <1>2 DEF Probes, Deadline, Network, StopsServing, Shutdown, admissionVars, StopAccepting,
                Drained, DrainTimeout, Gone, ServeAdminShutdown
  <2> QED  BY <2>1, ElsewhereStep
<1>3. CASE Changes \/ Bumps \/ Sampler
  BY <1>3, EventStep DEF Changes, Bumps, Sampler
<1>4. ASSUME NEW p \in Peers, Connects(p) PROVE IndInv'
  BY <1>4, ConnectsStep DEF Connects
<1>5. ASSUME NEW p \in Peers, Handshake(p) PROVE IndInv'
  BY <1>5, HandshakeStep DEF Handshake
<1>6. ASSUME NEW p \in Peers, Disconnects(p) \/ Drains(p) PROVE IndInv'
  BY <1>6, EndsStep DEF Disconnects, Drains
<1>7. ASSUME NEW p \in Pages, Browses(p) PROVE IndInv'
  BY <1>7, LoadStep, OpenStep DEF Browses
<1>8. ASSUME NEW p \in Pages, Streams(p) PROVE IndInv'
  BY <1>8, StreamStep DEF Streams
<1> QED  BY <1>1, <1>2, <1>3, <1>4, <1>5, <1>6, <1>7, <1>8 DEF Next

(* However connections and streams begin, fail, stall and end, beside any  *)
(* changes and during a shutdown: what is held and what is left add up to  *)
(* the ceiling, and a stream has an open connection below it. *)
THEOREM CeilingsHoldCorrect == Spec => []CeilingsHold
<1>1. IndInv => CeilingsHold
  BY DEF IndInv
<1> QED  BY <1>1, InitEstablishes, NextPreserves, PTL DEF Spec

-----------------------------------------------------------------------------
(***************************************************************************)
(* The prober, for any number of markers, any length of the chain and any  *)
(* thresholds, whenever a marker or a resolver answers or falls silent:    *)
(* how many probes have failed in a row is never less than what the cycles *)
(* of the verdict stand for, and the baseline is an entry of the chain.    *)
(***************************************************************************)
Limit == Markers * ConfirmCycles

ProberType == [step : ProberSteps, raw : {"None", "Online", "Offline"},
               fails : 0 .. ConfirmCycles, rotation : AllMarkers, asked : 0 .. Chain - 1]
BaselineType == [active : 0 .. Chain - 1, failures : 0 .. SwitchThreshold]

ReachTyped ==
    /\ prober \in ProberType
    /\ unheard \in 0 .. Limit
    /\ baseline \in BaselineType /\ retryDue \in BOOLEAN
    /\ baseline.active = 0 => ~retryDue

(***************************************************************************)
(* Each cycle that has failed has asked every marker; the one under way has*)
(* asked the first of them, or has ended and is not counted yet.  After a  *)
(* cycle in which one answered there is nothing to count from.             *)
(***************************************************************************)
FailuresAreHeard ==
    /\ reachability = IF prober.fails = ConfirmCycles THEN "Offline" ELSE "Online"
    /\ prober.step = "cycle" => unheard >= Markers * prober.fails
    /\ prober.step = "rest" => unheard >= 1
    /\ prober.step = "publish" => prober.raw # "None"
    /\ prober.step = "publish" /\ prober.raw = "Offline" =>
          unheard >= UpTo(Limit, Markers * (prober.fails + 1))
    /\ prober.step # "publish" /\ prober.raw = "Online" => prober.fails = 0
    /\ prober.step \in {"rest", "ask", "record"} => prober.raw = "Online"

ReachInv == ReachTyped /\ FailuresAreHeard

-----------------------------------------------------------------------------
\* The parameters are positive numbers, and so is what they limit.
LEMMA ReachConstants ==
  /\ Markers \in Nat /\ Markers >= 1 /\ Chain \in Nat /\ Chain >= 1
  /\ ConfirmCycles \in Nat /\ ConfirmCycles >= 1
  /\ SwitchThreshold \in Nat /\ SwitchThreshold >= 1
  BY MarkersAssumption, ChainAssumption, ThresholdsAssumption

\* Cycles of probes: more cycles are more probes, one more is all the markers more.
LEMMA Cycles ==
  ASSUME NEW n \in Nat
  PROVE  /\ Markers * n \in Nat /\ Markers * (n + 1) = Markers * n + Markers
         /\ Markers * 0 = 0
         /\ n <= ConfirmCycles => Markers * n <= Limit
         /\ Limit \in Nat /\ Limit >= Markers
<1>1. /\ Markers * n \in Nat /\ Markers * (n + 1) = Markers * n + Markers
      /\ Markers * 0 = 0
  BY ReachConstants
<1>2. ASSUME n <= ConfirmCycles PROVE Markers * n <= Markers * ConfirmCycles
  BY <1>2, ReachConstants
<1>3. Markers * ConfirmCycles \in Nat /\ Markers * ConfirmCycles >= Markers
  BY ReachConstants
<1> QED  BY <1>1, <1>2, <1>3 DEF Limit

\* A counter that is kept up to a limit.
LEMMA UpToFacts ==
  ASSUME NEW limit \in Nat, NEW n \in Nat
  PROVE  /\ UpTo(limit, n) \in 0 .. limit /\ UpTo(limit, n) <= n
         /\ UpTo(limit, n) = n \/ UpTo(limit, n) = limit
         /\ \A m \in Nat : m <= n => UpTo(limit, m) <= UpTo(limit, n)
  BY DEF UpTo

\* Asking them all asks as many as there are; all but the first, one less.
LEMMA MarkersAsked ==
  ASSUME ReachTyped
  PROVE  /\ Cardinality(AllMarkers) = Markers
         /\ Cardinality(First) = 1
         /\ Cardinality(AllMarkers \ First) = Markers - 1
<1>1. IsFiniteSet(AllMarkers) /\ Cardinality(AllMarkers) = Markers
  <2>1. Markers - 1 \in Int /\ 0 <= Markers - 1
    BY ReachConstants
  <2> QED  BY <2>1, ReachConstants, FS_Interval DEF AllMarkers
<1>2. prober.rotation \in AllMarkers
  BY DEF ReachTyped, ProberType
<1>3. Cardinality(AllMarkers \ {prober.rotation}) = Markers - 1
  BY <1>1, <1>2, FS_RemoveElement
<1>4. Cardinality({prober.rotation}) = 1
  BY FS_Singleton
<1> QED  BY <1>1, <1>3, <1>4 DEF First

\* The prober starts with nothing heard of and the primary in use.
LEMMA ReachInitInv == ReachInit => ReachInv
<1> SUFFICES ASSUME ReachInit PROVE ReachInv
  OBVIOUS
<1>1. 0 \in AllMarkers /\ 0 \in 0 .. Chain - 1 /\ 0 \in 0 .. ConfirmCycles
      /\ 0 \in 0 .. SwitchThreshold /\ 0 \in 0 .. Limit
  BY ReachConstants, Cycles DEF AllMarkers
<1>2. prober \in ProberType /\ baseline \in BaselineType
  BY <1>1 DEF ReachInit, Primary, ProberType, BaselineType, ProberSteps
<1>3. ReachTyped
  BY <1>1, <1>2 DEF ReachInit, ReachTyped
<1>4. FailuresAreHeard
  BY ReachConstants, Cycles DEF ReachInit, FailuresAreHeard
<1> QED  BY <1>3, <1>4 DEF ReachInv

\* Some markers are asked: an answer leaves nothing to count, silence adds to it.
LEMMA ProbeFacts ==
  ASSUME ReachInv, NEW asked, NEW more, Probe(asked, more), Cardinality(asked) \in Nat
  PROVE  /\ UNCHANGED <<reachability, baseline, retryDue>>
         /\ prober' \in ProberType /\ prober'.fails = prober.fails
         /\ unheard' \in 0 .. Limit
         /\ \/ prober'.step = "publish" /\ prober'.raw = "Online"
            \/ /\ unheard' = UpTo(Limit, unheard + Cardinality(asked))
               /\ \/ more /\ prober'.step = "rest" /\ prober'.raw = prober.raw
                  \/ ~more /\ prober'.step = "publish" /\ prober'.raw = "Offline"
<1> DEFINE heard == asked \cap markersUp
           turn == IF Steady THEN (prober.rotation + 1) % Markers ELSE prober.rotation
           raw == IF heard = {} THEN "Offline" ELSE "Online"
<1>1. turn \in AllMarkers
  <2>1. prober.rotation \in 0 .. Markers - 1
    BY DEF ReachInv, ReachTyped, ProberType, AllMarkers
  <2>2. (prober.rotation + 1) % Markers \in 0 .. Markers - 1
    BY <2>1, ReachConstants
  <2> QED  BY <2>1, <2>2 DEF AllMarkers
<1>2. /\ prober' = IF heard = {} /\ more THEN [prober EXCEPT !.step = "rest"]
                   ELSE [prober EXCEPT !.step = "publish", !.raw = raw, !.rotation = turn]
      /\ unheard' = IF heard # {} THEN 0 ELSE UpTo(Limit, unheard + Cardinality(asked))
      /\ UNCHANGED <<reachability, baseline, retryDue>>
  BY DEF Probe, Limit
<1>3. raw \in {"Online", "Offline"}
  OBVIOUS
<1>4. prober \in ProberType /\ unheard \in 0 .. Limit /\ Limit \in Nat
  BY ReachConstants, Cycles DEF ReachInv, ReachTyped
<1>5. unheard' \in 0 .. Limit
  BY <1>2, <1>4, UpToFacts
<1> HIDE DEF turn, heard
<1>6. CASE heard = {} /\ more
  <2>1. prober' = [prober EXCEPT !.step = "rest"]
    BY <1>2, <1>6
  <2> QED  BY <1>2, <1>4, <1>5, <1>6, <2>1 DEF ProberType, ProberSteps
<1>7. CASE ~(heard = {} /\ more)
  <2>1. prober' = [prober EXCEPT !.step = "publish", !.raw = raw, !.rotation = turn]
    BY <1>2, <1>7
  <2> HIDE DEF raw
  <2>2. /\ prober' \in ProberType /\ prober'.fails = prober.fails
        /\ prober'.step = "publish" /\ prober'.raw = raw
    BY <1>1, <1>3, <1>4, <2>1 DEF ProberType, ProberSteps
  <2>3. raw = "Online" \/ (heard = {} /\ raw = "Offline")
    BY DEF raw
  <2> QED  BY <1>2, <1>5, <1>7, <2>2, <2>3
<1> QED  BY <1>6, <1>7

\* Both halves of a steady cycle, or the whole of another, ask every marker.
LEMMA ProbesKeepReachInv ==
  ASSUME ReachInv, ProbeFirst \/ ProbeRest \/ ProbeAll
  PROVE  ReachInv'
<1>1. /\ prober.fails \in Nat /\ prober.fails <= ConfirmCycles /\ unheard \in Nat
      /\ ReachTyped
  BY ReachConstants, Cycles DEF ReachInv, ReachTyped, ProberType
<1>2. /\ Cardinality(AllMarkers) = Markers /\ Cardinality(First) = 1
      /\ Cardinality(AllMarkers \ First) = Markers - 1
      /\ Markers \in Nat /\ Markers >= 1 /\ Markers - 1 \in Nat
  BY <1>1, MarkersAsked, ReachConstants
<1>3. /\ Markers * prober.fails \in Nat /\ Limit \in Nat /\ Limit >= Markers
      /\ Markers * (prober.fails + 1) = Markers * prober.fails + Markers
      /\ Markers * 0 = 0
  BY <1>1, Cycles
<1>4. ASSUME UNCHANGED <<reachability, baseline, retryDue>>, prober' \in ProberType,
             unheard' \in 0 .. Limit
      PROVE  ReachTyped'
  BY <1>4 DEF ReachInv, ReachTyped
<1>5. ASSUME UNCHANGED reachability, prober'.fails = prober.fails,
             prober'.step = "publish", prober'.raw = "Online"
      PROVE  FailuresAreHeard'
  BY <1>5 DEF ReachInv, FailuresAreHeard
<1>6. CASE ProbeFirst
  <2>1. Probe(First, TRUE) /\ prober.raw = "Online" /\ prober.step = "cycle"
    BY <1>6 DEF ProbeFirst, Steady
  <2>3. prober.fails = 0 /\ Cardinality(First) \in Nat
    BY <1>2, <2>1 DEF ReachInv, FailuresAreHeard
  <2>2. ASSUME prober'.step = "rest", prober'.raw = prober.raw, prober'.fails = prober.fails,
               unheard' = UpTo(Limit, unheard + 1), UNCHANGED reachability
        PROVE  FailuresAreHeard'
    <3>1. unheard' >= 1
      BY <1>1, <1>2, <1>3, <2>2 DEF UpTo
    <3> QED  BY <2>3, <2>1, <2>2, <3>1 DEF ReachInv, FailuresAreHeard
  <2> QED  BY <1>2, <1>4, <1>5, <2>3, <2>1, <2>2, ProbeFacts DEF ReachInv
<1>7. CASE ProbeRest
  <2>1. Probe(AllMarkers \ First, FALSE) /\ unheard >= 1 /\ prober.fails = 0
    BY <1>7 DEF ProbeRest, ReachInv, FailuresAreHeard
  <2>2. ASSUME prober'.step = "publish", prober'.raw = "Offline",
               prober'.fails = prober.fails,
               unheard' = UpTo(Limit, unheard + (Markers - 1)), UNCHANGED reachability
        PROVE  FailuresAreHeard'
    <3>1. Markers * (prober'.fails + 1) = Markers
      BY <1>2, <1>3, <2>1, <2>2
    <3>2. unheard' >= UpTo(Limit, Markers)
      BY <1>1, <1>2, <1>3, <2>1, <2>2 DEF UpTo
    <3> QED  BY <2>2, <3>1, <3>2 DEF ReachInv, FailuresAreHeard
  <2> QED  BY <1>2, <1>4, <1>5, <2>1, <2>2, ProbeFacts DEF ReachInv
<1>8. CASE ProbeAll
  <2>1. Probe(AllMarkers, FALSE) /\ unheard >= Markers * prober.fails
    BY <1>8 DEF ProbeAll, ReachInv, FailuresAreHeard
  <2>2. ASSUME prober'.step = "publish", prober'.raw = "Offline",
               prober'.fails = prober.fails,
               unheard' = UpTo(Limit, unheard + Markers), UNCHANGED reachability
        PROVE  FailuresAreHeard'
    <3> DEFINE all == Markers * (prober.fails + 1)
    <3>1. all \in Nat /\ all <= unheard + Markers
      BY <1>1, <1>2, <1>3, <2>1
    <3> HIDE DEF all
    <3>2. unheard' >= UpTo(Limit, all)
      BY <1>1, <1>2, <1>3, <2>2, <3>1 DEF UpTo
    <3> QED  BY <2>2, <3>2 DEF ReachInv, FailuresAreHeard, all
  <2> QED  BY <1>2, <1>4, <1>5, <2>1, <2>2, ProbeFacts DEF ReachInv
<1> QED  BY <1>6, <1>7, <1>8

\* A cycle counts as one more only when it has asked all; an answer ends the count.
LEMMA PublishKeepsReachInv == ASSUME ReachInv, Publish PROVE ReachInv'
<1> DEFINE fails == Streak(prober.raw, prober.fails)
<1>1. /\ prober.step = "publish"
      /\ prober' = [prober EXCEPT !.fails = fails,
                        !.step = IF prober.raw = "Online" THEN "ask" ELSE "cycle"]
      /\ reachability' = IF fails = ConfirmCycles THEN "Offline" ELSE "Online"
      /\ UNCHANGED <<baseline, retryDue, unheard>>
  BY DEF Publish
<1>2. /\ prober \in ProberType /\ prober.fails \in 0 .. ConfirmCycles /\ unheard \in 0 .. Limit
      /\ prober.raw \in {"None", "Online", "Offline"}
  BY DEF ReachInv, ReachTyped, ProberType
<1>3. /\ fails \in 0 .. ConfirmCycles
      /\ prober.raw = "Online" => fails = 0
      /\ prober.raw # "Online" => fails = UpTo(ConfirmCycles, prober.fails + 1)
  BY <1>2, ReachConstants DEF Streak, UpTo
<1> HIDE DEF fails
<1>4. /\ prober' \in ProberType /\ prober'.fails = fails /\ prober'.raw = prober.raw
      /\ prober'.step = IF prober.raw = "Online" THEN "ask" ELSE "cycle"
  BY <1>1, <1>2, <1>3 DEF ProberType, ProberSteps
<1>5. ReachTyped'
  BY <1>1, <1>4 DEF ReachInv, ReachTyped
<1>6. CASE prober.raw = "Online"
  <2>1. Markers * 0 = 0 /\ 0 # ConfirmCycles /\ unheard' >= 0
    BY <1>1, <1>2, ReachConstants
  <2>2. fails = 0 /\ prober'.step = "ask" /\ reachability' = "Online"
    BY <1>1, <1>3, <1>4, <1>6, <2>1
  <2> QED  BY <1>4, <1>5, <1>6, <2>1, <2>2 DEF ReachInv, FailuresAreHeard
<1>7. CASE prober.raw = "Offline"
  <2>1. unheard >= UpTo(Limit, Markers * (prober.fails + 1))
    BY <1>1, <1>7 DEF ReachInv, FailuresAreHeard
  <2>2. unheard >= Markers * fails
    <3>1. CASE prober.fails < ConfirmCycles
      <4>1. fails = prober.fails + 1 /\ fails \in Nat /\ fails <= ConfirmCycles
        BY <1>2, <1>3, <1>7, <3>1, ReachConstants DEF UpTo
      <4>2. Markers * fails \in Nat /\ Markers * fails <= Limit /\ Limit \in Nat
        BY <4>1, Cycles
      <4>3. unheard >= UpTo(Limit, Markers * fails)
        BY <2>1, <4>1
      <4> DEFINE all == Markers * fails
      <4> HIDE DEF all
      <4>4. UpTo(Limit, all) = all
        BY <4>2 DEF UpTo, all
      <4> QED  BY <4>3, <4>4 DEF all
    <3>2. CASE prober.fails = ConfirmCycles
      <4>1. fails = ConfirmCycles
        BY <1>2, <1>3, <1>7, <3>2, ReachConstants DEF UpTo
      <4>2. Markers * (prober.fails + 1) = Limit + Markers /\ Limit \in Nat
        BY <3>2, ReachConstants, Cycles DEF Limit
      <4>3. UpTo(Limit, Limit + Markers) = Limit
        BY <4>2, ReachConstants DEF UpTo
      <4> QED  BY <2>1, <4>1, <4>2, <4>3 DEF Limit
    <3> QED  BY <1>2, <3>1, <3>2, ReachConstants
  <2>3. prober'.step = "cycle" /\ prober'.raw = "Offline" /\ prober'.fails = fails
    BY <1>4, <1>7
  <2>4. reachability' = IF prober'.fails = ConfirmCycles THEN "Offline" ELSE "Online"
    BY <1>1, <2>3
  <2>5. unheard' >= Markers * prober'.fails
    BY <1>1, <2>2, <2>3
  <2> QED  BY <1>5, <2>3, <2>4, <2>5 DEF ReachInv, FailuresAreHeard
<1>8. CASE prober.raw = "None"
  BY <1>1, <1>8 DEF ReachInv, FailuresAreHeard
<1> QED  BY <1>2, <1>5, <1>6, <1>7, <1>8 DEF ReachInv

-----------------------------------------------------------------------------
\* The entry asked is one of the chain.
LEMMA AskKeepsReachInv == ASSUME ReachInv, AskBaseline PROVE ReachInv'
<1> DEFINE asked == IF ShouldRetryPrimary THEN 0 ELSE baseline.active
<1>1. prober.step = "ask" /\ prober' = [prober EXCEPT !.step = "record", !.asked = asked]
      /\ UNCHANGED <<reachability, baseline, retryDue, unheard>>
  BY DEF AskBaseline
<1>2. asked \in 0 .. Chain - 1 /\ prober \in ProberType
  BY ReachConstants DEF ReachInv, ReachTyped, BaselineType
<1> HIDE DEF asked
<1>3. /\ prober' \in ProberType /\ prober'.step = "record"
      /\ prober'.raw = prober.raw /\ prober'.fails = prober.fails
  BY <1>1, <1>2 DEF ProberType, ProberSteps
<1> QED  BY <1>1, <1>3 DEF ReachInv, ReachTyped, FailuresAreHeard

\* Failures move the baseline on to the last entry at most.
LEMMA AfterFailureFacts ==
  ASSUME ReachTyped
  PROVE  /\ AfterFailure.baseline \in BaselineType /\ AfterFailure.retryDue \in BOOLEAN
         /\ AfterFailure.baseline.active = 0 => ~AfterFailure.retryDue
<1> DEFINE failures == UpTo(SwitchThreshold, baseline.failures + 1)
<1>1. /\ baseline.active \in 0 .. Chain - 1 /\ baseline.failures \in 0 .. SwitchThreshold
      /\ failures \in 0 .. SwitchThreshold
  BY ReachConstants DEF ReachTyped, BaselineType, UpTo
<1> HIDE DEF failures
<1>2. CASE failures < SwitchThreshold \/ baseline.active >= Chain - 1
  <2>1. AfterFailure = [baseline |-> [baseline EXCEPT !.failures = failures],
                        retryDue |-> retryDue]
    BY <1>2 DEF AfterFailure, failures
  <2>2. /\ [baseline EXCEPT !.failures = failures] \in BaselineType
        /\ [baseline EXCEPT !.failures = failures].active = baseline.active
    BY <1>1 DEF ReachTyped, BaselineType
  <2> QED  BY <2>1, <2>2 DEF ReachTyped
<1>3. CASE ~(failures < SwitchThreshold \/ baseline.active >= Chain - 1)
  <2>1. AfterFailure = [baseline |-> [active |-> baseline.active + 1, failures |-> 0],
                        retryDue |-> FALSE]
    BY <1>3 DEF AfterFailure, failures
  <2>2. baseline.active + 1 \in 1 .. Chain - 1 /\ 0 \in 0 .. SwitchThreshold
    BY <1>1, <1>3, ReachConstants
  <2> QED  BY <2>1, <2>2 DEF BaselineType
<1> QED  BY <1>2, <1>3

\* So does whatever has been answered, or not, to whom was asked.
LEMMA RecordedFacts ==
  ASSUME ReachTyped
  PROVE  /\ Recorded.baseline \in BaselineType /\ Recorded.retryDue \in BOOLEAN
         /\ Recorded.baseline.active = 0 => ~Recorded.retryDue
<1> DEFINE answered == prober.asked \in chainUp
           primaryProbe == baseline.active > 0 /\ prober.asked = 0
<1>1. 0 \in 0 .. Chain - 1 /\ 0 \in 0 .. SwitchThreshold
  BY ReachConstants
<1>2. CASE primaryProbe /\ answered
  <2>1. Recorded = [baseline |-> Primary, retryDue |-> FALSE]
    BY <1>2 DEF Recorded
  <2> QED  BY <1>1, <2>1 DEF Primary, BaselineType
<1>3. CASE primaryProbe /\ ~answered
  <2>1. Recorded = [baseline |-> baseline, retryDue |-> FALSE]
    BY <1>3 DEF Recorded
  <2> QED  BY <2>1 DEF ReachTyped
<1>4. CASE ~primaryProbe /\ answered
  <2>1. Recorded = [baseline |-> [baseline EXCEPT !.failures = 0], retryDue |-> retryDue]
    BY <1>4 DEF Recorded
  <2>2. /\ [baseline EXCEPT !.failures = 0] \in BaselineType
        /\ [baseline EXCEPT !.failures = 0].active = baseline.active
    BY <1>1 DEF ReachTyped, BaselineType
  <2> QED  BY <2>1, <2>2 DEF ReachTyped
<1>5. CASE ~primaryProbe /\ ~answered
  <2>1. Recorded = AfterFailure
    BY <1>5 DEF Recorded
  <2> QED  BY <2>1, AfterFailureFacts
<1> QED  BY <1>2, <1>3, <1>4, <1>5

\* The answer is folded in, and the next cycle begins.
LEMMA RecordKeepsReachInv == ASSUME ReachInv, RecordHealth PROVE ReachInv'
<1>1. /\ prober.step = "record" /\ prober' = [prober EXCEPT !.step = "cycle", !.asked = 0]
      /\ baseline' = Recorded.baseline /\ retryDue' = Recorded.retryDue
      /\ UNCHANGED <<reachability, unheard>>
  BY DEF RecordHealth
<1>2. prober \in ProberType /\ 0 \in 0 .. Chain - 1 /\ unheard \in 0 .. Limit
  BY ReachConstants DEF ReachInv, ReachTyped
<1>3. /\ prober' \in ProberType /\ prober'.step = "cycle"
      /\ prober'.raw = prober.raw /\ prober'.fails = prober.fails
  BY <1>1, <1>2 DEF ProberType, ProberSteps
<1>4. ReachTyped'
  BY <1>1, <1>3, RecordedFacts DEF ReachInv, ReachTyped
<1>5. prober.raw = "Online" /\ prober.fails = 0
  BY <1>1 DEF ReachInv, FailuresAreHeard
<1>6. unheard >= Markers * 0
  BY <1>2, ReachConstants
<1>7. FailuresAreHeard'
  BY <1>1, <1>3, <1>5, <1>6 DEF ReachInv, FailuresAreHeard
<1> QED  BY <1>4, <1>7 DEF ReachInv

-----------------------------------------------------------------------------
\* All that the prober, its deadline and the network do keeps the invariant.
LEMMA ReachStep ==
  ASSUME ReachInv, ProberStep \/ RetryPrimaryAfter \/ NetworkChanges \/ UNCHANGED reachVars
  PROVE  ReachInv'
<1>1. CASE ProberStep
  BY <1>1, ProbesKeepReachInv, PublishKeepsReachInv, AskKeepsReachInv, RecordKeepsReachInv
     DEF ProberStep
<1>2. CASE RetryPrimaryAfter
  BY <1>2 DEF RetryPrimaryAfter, ReachInv, ReachTyped, FailuresAreHeard
<1>3. CASE NetworkChanges \/ UNCHANGED reachVars
  BY <1>3 DEF NetworkChanges, reachVars, ReachInv, ReachTyped, FailuresAreHeard
<1> QED  BY <1>1, <1>2, <1>3

\* When the verdict stands at the start of a cycle, all its probes have failed.
LEMMA ReachInvConfirms == ReachInv => OfflineIsConfirmed
<1> SUFFICES ASSUME ReachInv, reachability = "Offline", prober.step = "cycle"
             PROVE  unheard = Markers * ConfirmCycles
  BY DEF OfflineIsConfirmed
<1>1. prober.fails = ConfirmCycles
  BY DEF ReachInv, FailuresAreHeard
<1>2. unheard >= Limit /\ unheard \in 0 .. Limit /\ Limit \in Nat
  BY <1>1, ReachConstants, Cycles DEF ReachInv, ReachTyped, FailuresAreHeard, Limit
<1> QED  BY <1>2 DEF Limit

-----------------------------------------------------------------------------
(* What the events carry. *)

StatusType == [reach : {"None", "Online", "Offline"}, baseline : 0 .. Chain - 1,
               value : [Topics -> Int]]
PageType == [step : PageSteps, ever : BOOLEAN, first : BOOLEAN, news : SUBSET Topics,
             fresh : BOOLEAN, cards : [Topics -> Int], status : StatusType]

ListenerTyped ==
    /\ conn \in [Peers -> {"none", "handshake", "open"}]
    /\ listener \in {"accepting", "draining", "gone"} /\ shutdown \in BOOLEAN
    /\ listener # "accepting" => shutdown
FeedTyped ==
    /\ value \in [Topics -> Int] /\ bumps \subseteq Topics /\ feed \in StatusType
    /\ sampler \in {"count", "sample", "wait", "parking", "park"} /\ arrived \in BOOLEAN
PagesTyped == page \in [Pages -> PageType]

ConsoleInv == ReachInv /\ ListenerTyped /\ FeedTyped /\ PagesTyped

\* A status sampled is of the verdict and the baseline there are.
LEMMA StatusTyped == ASSUME ReachInv, FeedTyped PROVE Status \in StatusType
<1>1. reachability \in {"Online", "Offline"} /\ baseline.active \in 0 .. Chain - 1
  BY DEF ReachInv, ReachTyped, FailuresAreHeard, BaselineType
<1> QED  BY <1>1 DEF Status, StatusType, FeedTyped

\* Nothing painted, and nothing sampled, are a card's and a status's contents too.
LEMMA NothingTyped == Unset \in [Topics -> Int] /\ NoStatus \in StatusType
<1>1. Unset \in [Topics -> Int] /\ 0 \in 0 .. Chain - 1
  BY ReachConstants DEF Unset
<1> QED  BY <1>1 DEF NoStatus, StatusType

\* The listener and the connections keep their kinds whatever a peer does.
LEMMA ListenerStep ==
  ASSUME ListenerTyped, NEW p \in Peers,
         \/ Accept(p) \/ HandshakeDone(p) \/ HandshakeFails(p) \/ Close(p)
         \/ ServeAdminShutdown(p) \/ StopAccepting \/ Drained \/ DrainTimeout
         \/ UNCHANGED admissionVars
  PROVE  ListenerTyped'
<1> USE DEF ListenerTyped
<1>1. CASE Accept(p)
  BY <1>1 DEF Accept
<1>2. CASE HandshakeDone(p)
  BY <1>2 DEF HandshakeDone
<1>3. CASE HandshakeFails(p) \/ Close(p)
  BY <1>3 DEF HandshakeFails, Close
<1>4. CASE ServeAdminShutdown(p)
  BY <1>4 DEF ServeAdminShutdown
<1>5. CASE StopAccepting \/ Drained \/ DrainTimeout
  BY <1>5 DEF StopAccepting, Drained, DrainTimeout, Gone
<1>6. CASE UNCHANGED admissionVars
  BY <1>6 DEF admissionVars
<1> QED  BY <1>1, <1>2, <1>3, <1>4, <1>5, <1>6

\* A change, a bump or the sampler: the topics told are topics, and so the status.
LEMMA FeedStep ==
  ASSUME ConsoleInv,
         \/ (\E topics \in SUBSET Topics : Change(topics))
         \/ Bump \/ SamplerCounts \/ SamplerParks \/ SamplerUnparks
         \/ SamplerSamples \/ SamplerWakes
  PROVE  FeedTyped' /\ PagesTyped'
<1>1. FeedTyped /\ PagesTyped
  BY DEF ConsoleInv
<1>2. ASSUME NEW topics \in SUBSET Topics, Change(topics) PROVE FeedTyped' /\ PagesTyped'
  BY <1>1, <1>2 DEF Change, FeedTyped, PagesTyped
<1>3. CASE Bump
  <2>1. ASSUME NEW p \in Pages PROVE [page[p] EXCEPT !.news = @ \cup bumps] \in PageType
    BY <1>1, <2>1 DEF FeedTyped, PagesTyped, PageType
  <2>2. PagesTyped'
    BY <1>1, <1>3, <2>1 DEF Bump, PagesTyped
  <2> QED  BY <1>1, <1>3, <2>2 DEF Bump, FeedTyped
<1>4. CASE SamplerSamples
  <2>1. ASSUME NEW p \in Pages PROVE [page[p] EXCEPT !.fresh = TRUE] \in PageType
    BY <1>1, <2>1 DEF PagesTyped, PageType
  <2>2. PagesTyped'
    BY <1>1, <1>4, <2>1 DEF SamplerSamples, PagesTyped
  <2>3. Status \in StatusType
    BY StatusTyped DEF ConsoleInv
  <2> QED  BY <1>1, <1>4, <2>2, <2>3 DEF SamplerSamples, FeedTyped
<1>5. CASE SamplerCounts \/ SamplerParks \/ SamplerUnparks \/ SamplerWakes
  BY <1>1, <1>5
     DEF SamplerCounts, SamplerParks, SamplerUnparks, SamplerWakes, FeedTyped, PagesTyped
<1> QED  BY <1>2, <1>3, <1>4, <1>5

\* A page that is put in the place of a page.
LEMMA OnePage ==
  ASSUME PagesTyped, NEW p \in Pages, NEW now \in PageType, page' = [page EXCEPT ![p] = now]
  PROVE  PagesTyped'
  BY DEF PagesTyped

\* Whatever becomes of a page and its stream, it is a page as before.
LEMMA PageStep ==
  ASSUME ConsoleInv, NEW p \in Pages,
         \/ PageLoads(p) \/ OpenEventStream(p) \/ SubscribeTopics(p) \/ PageOpens(p)
         \/ NextFrame(p) \/ DropStream(p)
  PROVE  FeedTyped' /\ PagesTyped'
<1>1. FeedTyped /\ PagesTyped /\ page[p] \in PageType /\ value \in [Topics -> Int]
      /\ feed \in StatusType /\ NoStatus \in StatusType
  BY NothingTyped DEF ConsoleInv, FeedTyped, PagesTyped
<1>2. PageSteps = {"away", "loaded", "subscribing", "opening", "live", "lost"}
  BY DEF PageSteps
<1>3. CASE PageLoads(p)
  <2>1. page' = [page EXCEPT ![p] = [page[p] EXCEPT !.step = "loaded", !.cards = value]]
    BY <1>3 DEF PageLoads
  <2>2. [page[p] EXCEPT !.step = "loaded", !.cards = value] \in PageType
    BY <1>1, <1>2 DEF PageType
  <2> QED  BY <1>1, <1>3, <2>1, <2>2, OnePage DEF PageLoads, FeedTyped
<1>4. CASE OpenEventStream(p)
  <2> DEFINE subscribed == [page[p] EXCEPT !.step = "subscribing", !.first = TRUE,
                                           !.news = {}, !.fresh = FALSE]
  <2>1. \/ page' = [page EXCEPT ![p] = [page[p] EXCEPT !.step = "lost"]]
        \/ page' = [page EXCEPT ![p] = subscribed]
    BY <1>4 DEF OpenEventStream
  <2>2. [page[p] EXCEPT !.step = "lost"] \in PageType /\ subscribed \in PageType
    BY <1>1, <1>2 DEF PageType
  <2> HIDE DEF subscribed
  <2> QED  BY <1>1, <1>4, <2>1, <2>2, OnePage DEF OpenEventStream, FeedTyped
<1>5. CASE SubscribeTopics(p)
  <2>1. page' = [page EXCEPT ![p] = [page[p] EXCEPT !.step = "opening"]]
    BY <1>5 DEF SubscribeTopics
  <2>2. [page[p] EXCEPT !.step = "opening"] \in PageType
    BY <1>1, <1>2 DEF PageType
  <2> QED  BY <1>1, <1>5, <2>1, <2>2, OnePage DEF SubscribeTopics, FeedTyped
<1>6. CASE PageOpens(p)
  <2> DEFINE cards == IF page[p].ever THEN value ELSE page[p].cards
             opened == [page[p] EXCEPT !.step = "live", !.ever = TRUE, !.cards = cards]
  <2>1. page' = [page EXCEPT ![p] = opened]
    BY <1>6 DEF PageOpens
  <2>2. cards \in [Topics -> Int]
    BY <1>1 DEF PageType
  <2> HIDE DEF cards
  <2>3. opened \in PageType
    BY <1>1, <1>2, <2>2 DEF PageType
  <2> HIDE DEF opened
  <2> QED  BY <1>1, <1>6, <2>1, <2>3, OnePage DEF PageOpens, FeedTyped
<1>7. CASE DropStream(p)
  <2> DEFINE step == IF Receives(p) THEN "lost" ELSE page[p].step
             status == IF Receives(p) THEN NoStatus ELSE page[p].status
             dropped == [page[p] EXCEPT !.step = step, !.status = status, !.news = {},
                                        !.fresh = FALSE, !.first = FALSE]
  <2>1. page' = [page EXCEPT ![p] = dropped]
    BY <1>7 DEF DropStream
  <2>2. step \in PageSteps /\ status \in StatusType
    BY <1>1, <1>2 DEF PageType
  <2> HIDE DEF step, status
  <2>3. dropped \in PageType
    BY <1>1, <2>2 DEF PageType
  <2> HIDE DEF dropped
  <2> QED  BY <1>1, <1>7, <2>1, <2>3, OnePage DEF DropStream, FeedTyped
<1>8. ASSUME SendStatus(p) PROVE FeedTyped' /\ PagesTyped'
  <2> DEFINE status == IF feed = NoStatus THEN page[p].status ELSE feed
             sent == [page[p] EXCEPT !.first = FALSE, !.fresh = FALSE, !.status = status]
  <2>1. page' = [page EXCEPT ![p] = sent]
    BY <1>8 DEF SendStatus
  <2>2. status \in StatusType
    BY <1>1 DEF PageType
  <2> HIDE DEF status
  <2>3. sent \in PageType
    BY <1>1, <2>2 DEF PageType
  <2> HIDE DEF sent
  <2> QED  BY <1>1, <1>8, <2>1, <2>3, OnePage DEF SendStatus, FeedTyped
<1>9. ASSUME NEW t \in Topics, SendTopic(p, t) PROVE FeedTyped' /\ PagesTyped'
  <2> DEFINE cards == [page[p].cards EXCEPT ![t] = value[t]]
             sent == [page[p] EXCEPT !.news = @ \ {t}, !.cards = cards]
  <2>1. page' = [page EXCEPT ![p] = sent]
    BY <1>9 DEF SendTopic
  <2>2. cards \in [Topics -> Int]
    BY <1>1 DEF PageType
  <2> HIDE DEF cards
  <2>3. sent \in PageType
    BY <1>1, <2>2 DEF PageType
  <2> HIDE DEF sent
  <2> QED  BY <1>1, <1>9, <2>1, <2>3, OnePage DEF SendTopic, FeedTyped
<1> QED  BY <1>3, <1>4, <1>5, <1>6, <1>7, <1>8, <1>9 DEF NextFrame, EndFrames

\* Events of the connections alone, of the prober alone, or of nobody.
LEMMA SameEvents == ASSUME ConsoleInv, UNCHANGED eventVars PROVE FeedTyped' /\ PagesTyped'
  BY DEF ConsoleInv, FeedTyped, PagesTyped, eventVars

\* Steps that leave the prober's state alone keep what is known of it.
LEMMA SameReach == ASSUME ConsoleInv, UNCHANGED reachVars PROVE ReachInv'
  BY ReachStep DEF ConsoleInv

\* Nor is anything lost of the listener's while nobody touches it.
LEMMA SameListener == ASSUME ConsoleInv, UNCHANGED admissionVars PROVE ListenerTyped'
  BY DEF ConsoleInv, ListenerTyped, admissionVars

\* It all holds at the start.
LEMMA InitConsoleInv == Init => ConsoleInv
<1> SUFFICES ASSUME Init PROVE ConsoleInv
  OBVIOUS
<1>1. ReachInv
  BY ReachInitInv DEF Init
<1>2. ListenerTyped
  BY DEF Init, AdmissionInit, ListenerTyped
<1>3. FeedTyped
  <2>1. /\ value = [t \in Topics |-> 0] /\ bumps = {}
        /\ arrived = FALSE /\ feed = NoStatus /\ sampler = "count"
    BY DEF Init, EventInit
  <2>2. value \in [Topics -> Int]
    BY <2>1
  <2> QED  BY <2>1, <2>2, NothingTyped DEF FeedTyped
<1>4. PagesTyped
  <2> DEFINE new == [step |-> "away", ever |-> FALSE, first |-> FALSE, news |-> {},
                     fresh |-> FALSE, cards |-> Unset, status |-> NoStatus]
  <2>1. new \in PageType
    BY NothingTyped DEF PageType, PageSteps
  <2>2. page = [p \in Pages |-> new]
    BY DEF Init, EventInit
  <2> HIDE DEF new
  <2> QED  BY <2>1, <2>2 DEF PagesTyped
<1> QED  BY <1>1, <1>2, <1>3, <1>4 DEF ConsoleInv

\* Every step concerns one of the parts, or two at the end of a connection.
LEMMA NextConsoleInv == ConsoleInv /\ [Next]_vars => ConsoleInv'
<1> SUFFICES ASSUME ConsoleInv, [Next]_vars PROVE ConsoleInv'
  OBVIOUS
<1> USE DEF ConsoleInv
<1>1. CASE UNCHANGED vars
  BY <1>1, SameEvents, SameReach, SameListener DEF vars
<1>2. CASE Probes \/ Deadline \/ Network
  <2>1. ReachInv' /\ UNCHANGED <<admissionVars, eventVars>>
    BY <1>2, ReachStep DEF Probes, Deadline, Network
  <2> QED  BY <2>1, SameEvents, SameListener
<1>3. CASE Changes \/ Bumps \/ Sampler
  <2>1. UNCHANGED <<reachVars, admissionVars>>
    BY <1>3 DEF Changes, Bumps, Sampler
  <2>2. FeedTyped' /\ PagesTyped'
    BY <1>3, FeedStep DEF Changes, Bumps, Sampler
  <2> QED  BY <2>1, <2>2, SameReach, SameListener
<1>4. ASSUME NEW p \in Peers, Connects(p) \/ Handshake(p) PROVE ConsoleInv'
  <2>1. UNCHANGED <<reachVars, eventVars>> /\ ListenerTyped'
    BY <1>4, ListenerStep DEF Connects, Handshake
  <2> QED  BY <2>1, SameReach, SameEvents
<1>5. ASSUME NEW p \in Peers, Disconnects(p) \/ Drains(p) PROVE ConsoleInv'
  <2>1. Ends(p)
    BY <1>5 DEF Disconnects, Drains
  <2>2. FeedTyped' /\ PagesTyped'
    BY <2>1, SameEvents, PageStep DEF Ends
  <2>3. ListenerTyped' /\ UNCHANGED reachVars
    BY <2>1, ListenerStep DEF Ends
  <2> QED  BY <2>2, <2>3, SameReach
<1>6. ASSUME NEW p \in Pages, Browses(p) \/ Streams(p) PROVE ConsoleInv'
  <2>1. UNCHANGED <<reachVars, admissionVars>>
    BY <1>6 DEF Browses, Streams
  <2>2. FeedTyped' /\ PagesTyped'
    BY <1>6, PageStep DEF Browses, Streams
  <2> QED  BY <2>1, <2>2, SameReach, SameListener
<1>7. CASE StopsServing \/ Shutdown
  <2>1. UNCHANGED <<reachVars, eventVars>>
    BY <1>7 DEF StopsServing, Shutdown
  <2>2. ListenerTyped'
    BY <1>7 DEF StopsServing, Shutdown, StopAccepting, Drained, DrainTimeout, Gone,
                ServeAdminShutdown, ListenerTyped
  <2> QED  BY <2>1, <2>2, SameReach, SameEvents
<1> QED  BY <1>1, <1>2, <1>3, <1>4, <1>5, <1>6, <1>7 DEF Next

(* The prober, the listener, the sampler and the pages keep to their kinds *)
(* and places; no deadline runs while the primary serves, and a listener   *)
(* that has stopped has been told to. *)
THEOREM ConsoleTypeCorrect == Spec => []TypeOK
<1>1. ASSUME ConsoleInv PROVE TypeOK
  <2>1. \A p \in Pages : page[p].step \in PageSteps /\ page[p].news \subseteq Topics
    BY <1>1 DEF ConsoleInv, PagesTyped, PageType
  <2>2. ReachTyped /\ ListenerTyped /\ FeedTyped
    BY <1>1 DEF ConsoleInv, ReachInv
  <2> QED
    BY <2>1, <2>2 DEF ReachTyped, ProberType, BaselineType, ListenerTyped, FeedTyped, TypeOK
<1> QED  BY <1>1, InitConsoleInv, NextConsoleInv, PTL DEF Spec

(* Beside connections and pages, and however the markers answer and fall   *)
(* silent, also within a cycle: queries are failed as offline only after   *)
(* ConfirmCycles cycles in which every marker has failed, for any number of*)
(* markers and of cycles. *)
THEOREM OfflineIsConfirmedCorrect == Spec => []OfflineIsConfirmed
<1>1. ConsoleInv => OfflineIsConfirmed
  BY ReachInvConfirms DEF ConsoleInv
<1> QED  BY <1>1, InitConsoleInv, NextConsoleInv, PTL DEF Spec
=============================================================================
