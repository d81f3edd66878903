------------------------------ MODULE Console ------------------------------
(***************************************************************************)
(* What an open admin page is told: the /admin/events streams over the     *)
(* connections of module Admission, the sampler that feeds them the status *)
(* (in it the verdict and the baseline of module Reachability), and the    *)
(* page that loads its cards, follows the stream, and comes back after it  *)
(* has lost it.                                                            *)
(*                                                                         *)
(* A settings change is its effect on the topics it belongs to; a watch    *)
(* channel is, to a receiver, that something has changed since it looked.  *)
(* Pings and the fallback poll are left out, and the reply to a GET is     *)
(* painted with it.  `since` is history.                                   *)
(***************************************************************************)
EXTENDS Reachability, Admission, Integers

CONSTANTS
    Pages,            \* the peers that are a browser tab
    Topics,           \* Topic::ALL without Status
    MaxStreams,       \* MAX_EVENT_SUBSCRIBERS
    Scenarios         \* what the environment does in a behaviour: [does, peers, most]

ASSUME PagesAssumption == Pages \subseteq Peers
ASSUME StreamsAssumption == MaxStreams \in Nat \ {0}

VARIABLES
    value,      \* topic -> how often what its card shows has changed
    bumps,      \* the topics changed and not yet bumped
    feed,       \* the status feed: the last status sampled, or NoStatus
    sampler,    \* run_status_sampler: "count", "sample", "wait", "parking", "park"
    arrived,    \* status_subscriber_arrived holds a permit
    slots,      \* event_slots left
    page,       \* page -> [step, ever, first, news, fresh, cards, status]
    since,      \* page -> the values when its first stream was subscribed
    scenario, disturbances

eventVars == <<value, bumps, feed, sampler, arrived, slots, page, since>>
vars == <<reachVars, admissionVars, eventVars, scenario, disturbances>>

\* What admin_status shows of the state modelled here.
Status == [reach |-> reachability, baseline |-> baseline.active, value |-> value]
Unset == [t \in Topics |-> -1]
NoStatus == [reach |-> "None", baseline |-> 0, value |-> Unset]

\* The steps of a tab: its cards are loaded, the stream's slot and status are
\* taken, the topics subscribed, and the page has seen it open.
PageSteps == {"away", "loaded", "subscribing", "opening", "live", "lost"}
Receives(p) == page[p].step \in {"subscribing", "opening", "live"}
Receivers == {p \in Pages : Receives(p)}
Listening == {p \in Pages : page[p].step \in {"opening", "live"}}

-----------------------------------------------------------------------------
(* Changes. *)

\* A route or a task changes what some cards show ...
Change_Bug(topics) ==
    /\ value' = [t \in Topics |-> IF t \in topics THEN value[t] + 1 ELSE value[t]]
    /\ bumps' = {}
    /\ page' = [p \in Pages |-> IF p \in Listening
                                THEN [page[p] EXCEPT !.news = @ \cup bumps] ELSE page[p]]
    /\ UNCHANGED <<feed, sampler, arrived, slots, since>>
Change(topics) ==
    /\ value' = [t \in Topics |-> IF t \in topics THEN value[t] + 1 ELSE value[t]]
    /\ bumps' = bumps \cup topics
    /\ UNCHANGED <<feed, sampler, arrived, slots, page, since>>

\* ... and the bus is bumped when the change is in force.
Bump ==
    /\ bumps # {}
    /\ bumps' = {}
    /\ page' = [p \in Pages |-> IF p \in Listening
                                THEN [page[p] EXCEPT !.news = @ \cup bumps] ELSE page[p]]
    /\ UNCHANGED <<value, feed, sampler, arrived, slots, since>>

-----------------------------------------------------------------------------
(* The sampler. *)

SamplerCounts ==
    /\ sampler = "count"
    /\ sampler' = IF Receivers = {} THEN "parking" ELSE "sample"
    /\ UNCHANGED <<value, bumps, feed, arrived, slots, page, since>>

\* notified() takes a permit left before it was called as well as one to come.
SamplerParks ==
    /\ sampler = "parking"
    /\ sampler' = "park"
    /\ UNCHANGED <<value, bumps, feed, arrived, slots, page, since>>
SamplerUnparks ==
    /\ sampler = "park" /\ arrived
    /\ sampler' = "count" /\ arrived' = FALSE
    /\ UNCHANGED <<value, bumps, feed, slots, page, since>>

SamplerSamples ==
    /\ sampler = "sample"
    /\ sampler' = "wait"
    /\ feed' = Status
    /\ page' = [p \in Pages |-> IF Receives(p) /\ feed # Status
                                THEN [page[p] EXCEPT !.fresh = TRUE] ELSE page[p]]
    /\ UNCHANGED <<value, bumps, arrived, slots, since>>

\* A second has passed, or Status was bumped.
SamplerWakes ==
    /\ sampler = "wait"
    /\ sampler' = "count"
    /\ UNCHANGED <<value, bumps, feed, arrived, slots, page, since>>

-----------------------------------------------------------------------------
(* The streams and their pages. *)

\* Every card is fetched once.
PageLoads(p) ==
    /\ page[p].step = "away" /\ conn[p] = "open"
    /\ page' = [page EXCEPT ![p].step = "loaded", ![p].cards = value]
    /\ UNCHANGED <<value, bumps, feed, sampler, arrived, slots, since>>

\* open_event_stream, up to status_feed.subscribe(): refused without a slot
\* or once the service is shutting down; the page then tries again later.
OpenEventStream(p) ==
    /\ page[p].step \in {"loaded", "lost"}
    /\ conn[p] = "open" /\ listener = "accepting"
    /\ \/ /\ slots = 0 \/ shutdown
          /\ page' = [page EXCEPT ![p].step = "lost"]
          /\ UNCHANGED <<slots, since>>
       \/ /\ slots > 0 /\ ~shutdown
          /\ slots' = slots - 1
          /\ page' = [page EXCEPT ![p].step = "subscribing", ![p].first = TRUE,
                                  ![p].news = {}, ![p].fresh = FALSE]
          /\ UNCHANGED since
    /\ UNCHANGED <<value, bumps, feed, sampler, arrived>>

\* notify_one, and the topics are subscribed.
SubscribeTopics_Bug(p) ==
    /\ page[p].step = "subscribing"
    /\ arrived' = (arrived \/ sampler = "park")
    /\ page' = [page EXCEPT ![p].step = "opening"]
    /\ since' = [since EXCEPT ![p] = IF page[p].ever THEN Unset ELSE value]
    /\ UNCHANGED <<value, bumps, feed, sampler, slots>>
SubscribeTopics(p) ==
    /\ page[p].step = "subscribing"
    /\ arrived' = TRUE
    /\ page' = [page EXCEPT ![p].step = "opening"]
    /\ since' = [since EXCEPT ![p] = IF page[p].ever THEN Unset ELSE value]
    /\ UNCHANGED <<value, bumps, feed, sampler, slots>>

\* The "open" event: a page that was connected before catches every card up.
PageOpens(p) ==
    /\ page[p].step = "opening"
    /\ page' = [page EXCEPT ![p].step = "live", ![p].ever = TRUE,
                            ![p].cards = IF page[p].ever THEN value ELSE @]
    /\ UNCHANGED <<value, bumps, feed, sampler, arrived, slots, since>>

\* The stream is dropped: its slot and its receivers are free; the page says
\* the service is unreachable and will try again.
DropStream(p) ==
    /\ slots' = IF Receives(p) THEN slots + 1 ELSE slots
    /\ page' = [page EXCEPT ![p].step = IF Receives(p) THEN "lost" ELSE @,
                            ![p].status = IF Receives(p) THEN NoStatus ELSE @,
                            ![p].news = {}, ![p].fresh = FALSE, ![p].first = FALSE]
    /\ UNCHANGED <<value, bumps, feed, sampler, arrived, since>>

\* next_frame: the status of the feed first, if it has ever been sampled; then
\* the end, a status, or a topic, whichever select! picks of those ready.
SendStatus(p) ==
    /\ page' = [page EXCEPT ![p].first = FALSE, ![p].fresh = FALSE,
                            ![p].status = IF feed = NoStatus THEN @ ELSE feed]
    /\ UNCHANGED <<value, bumps, feed, sampler, arrived, slots, since>>
SendTopic(p, t) ==
    /\ t \in page[p].news
    /\ page' = [page EXCEPT ![p].news = @ \ {t}, ![p].cards[t] = value[t]]
    /\ UNCHANGED <<value, bumps, feed, sampler, arrived, slots, since>>
EndFrames(p) == shutdown /\ DropStream(p)

NextFrame_Bug(p) ==
    /\ page[p].step = "live"
    /\ \/ (page[p].first \/ page[p].fresh) /\ SendStatus(p)
       \/ \E t \in Topics : ~page[p].first /\ SendTopic(p, t)
NextFrame(p) ==
    /\ page[p].step = "live"
    /\ \/ page[p].first /\ SendStatus(p)
       \/ ~page[p].first /\ EndFrames(p)
       \/ ~page[p].first /\ page[p].fresh /\ SendStatus(p)
       \/ \E t \in Topics : ~page[p].first /\ SendTopic(p, t)

-----------------------------------------------------------------------------
EventInit ==
    /\ value = [t \in Topics |-> 0] /\ bumps = {}
    /\ feed = NoStatus /\ sampler = "count" /\ arrived = FALSE
    /\ slots = MaxStreams
    /\ page = [p \in Pages |-> [step |-> "away", ever |-> FALSE, first |-> FALSE, news |-> {},
                                fresh |-> FALSE, cards |-> Unset, status |-> NoStatus]]
    /\ since = [p \in Pages |-> Unset]

Init ==
    /\ ReachInit /\ AdmissionInit /\ EventInit
    /\ scenario \in Scenarios /\ disturbances = 0

Does(what) == what \in scenario.does
Up == listener # "gone"   \* the listener gone, the process goes
Calm == Up /\ UNCHANGED <<scenario, disturbances>>
Disturb == disturbances < scenario.most /\ disturbances' = disturbances + 1
Probes == (Does("network") \/ Does("outage")) /\ ProberStep
          /\ UNCHANGED <<admissionVars, eventVars>> /\ Calm
Deadline == RetryPrimaryAfter /\ UNCHANGED <<admissionVars, eventVars>> /\ Calm
Network ==
    /\ Up /\ NetworkChanges
    /\ \/ Does("network") /\ UNCHANGED disturbances
       \/ Does("outage") /\ Disturb
    /\ UNCHANGED <<admissionVars, eventVars, scenario>>

Changes ==
    /\ Up /\ Does("changes") /\ Disturb
    /\ \E topics \in SUBSET Topics \ {{}} : Change(topics)
    /\ UNCHANGED <<reachVars, admissionVars, scenario>>
Bumps == Bump /\ UNCHANGED <<reachVars, admissionVars>> /\ Calm
Sampler == /\ SamplerCounts \/ SamplerParks \/ SamplerUnparks \/ SamplerSamples \/ SamplerWakes
           /\ UNCHANGED <<reachVars, admissionVars>> /\ Calm

Connects(p) ==
    /\ p \in scenario.peers /\ Accept(p)
    /\ UNCHANGED <<reachVars, eventVars>> /\ Calm
Handshake(p) ==
    /\ \/ HandshakeDone(p)
       \/ HandshakeFails(p)
    /\ UNCHANGED <<reachVars, eventVars>> /\ Calm
Browses(p) == (PageLoads(p) \/ OpenEventStream(p))
              /\ UNCHANGED <<reachVars, admissionVars>> /\ Calm
Streams(p) == (SubscribeTopics(p) \/ PageOpens(p) \/ NextFrame(p))
              /\ UNCHANGED <<reachVars, admissionVars>> /\ Calm

\* An open connection ends: its peer is gone or idle for too long, and with it
\* the stream on it ends; or it has none and the service is draining.
Ends(p) == /\ conn[p] = "open" /\ Close(p)
           /\ IF p \in Pages THEN DropStream(p) ELSE UNCHANGED eventVars
           /\ UNCHANGED reachVars /\ Calm
Disconnects(p) == Does("drops") /\ Ends(p)
Drains(p) == listener = "draining" /\ (p \in Pages => ~Receives(p)) /\ Ends(p)
StopsServing ==
    /\ StopAccepting \/ Drained
    /\ UNCHANGED <<reachVars, eventVars>> /\ Calm
Shutdown ==
    /\ Does("shutdown")
    /\ \/ DrainTimeout
       \/ \E p \in Peers : ServeAdminShutdown(p)
    /\ UNCHANGED <<reachVars, eventVars>> /\ Calm

Next ==
    \/ Probes \/ Deadline \/ Network \/ Changes \/ Bumps \/ Sampler
    \/ \E p \in Peers : Connects(p) \/ Handshake(p) \/ Disconnects(p) \/ Drains(p)
    \/ \E p \in Pages : Browses(p) \/ Streams(p)
    \/ StopsServing \/ Shutdown

\* Tasks are scheduled, timers run out, and a handshake ends within its time;
\* nothing obliges peers, users, the network or the five seconds' grace.
Fairness ==
    /\ WF_vars(Probes) /\ WF_vars(Deadline) /\ WF_vars(Bumps) /\ WF_vars(Sampler)
    /\ \A p \in Pages : WF_vars(Streams(p))
    /\ WF_vars(\E p \in Peers : Handshake(p))
    /\ WF_vars(\E p \in Peers : Drains(p))
    /\ WF_vars(StopsServing)

Spec == Init /\ [][Next]_vars /\ Fairness

-----------------------------------------------------------------------------
TypeOK ==
    /\ prober \in [step : ProberSteps, raw : {"None", "Online", "Offline"},
                   fails : 0 .. ConfirmCycles, rotation : AllMarkers, asked : 0 .. Chain - 1]
    /\ baseline \in [active : 0 .. Chain - 1, failures : 0 .. SwitchThreshold]
    /\ baseline.active = 0 => ~retryDue
    /\ conn \in [Peers -> {"none", "handshake", "open"}]
    /\ listener \in {"accepting", "draining", "gone"} /\ shutdown \in BOOLEAN
    /\ listener # "accepting" => shutdown
    /\ sampler \in {"count", "sample", "wait", "parking", "park"} /\ arrived \in BOOLEAN
    /\ bumps \subseteq Topics
    /\ \A p \in Pages : page[p].step \in PageSteps /\ page[p].news \subseteq Topics

(* Both ceilings hold and leak nothing, however connections and streams    *)
(* end: what is not in use is there to be taken, and no stream outlives its*)
(* connection. *)
CeilingsHold ==
    /\ permits + Cardinality(Admitted) = MaxConnections /\ permits >= 0
    /\ slots + Cardinality(Receivers) = MaxStreams /\ slots >= 0
    /\ \A p \in Receivers : conn[p] = "open"

(* A page with an open stream asks again for every card that has changed   *)
(* since it last did; one that has reconnected also for what changed       *)
(* while it was away. *)
CardsCatchUp ==
    \A p \in Pages : \A t \in Topics :
        []<>(page[p].step = "live" /\ Up =>
                page[p].cards[t] = value[t] \/ value[t] = since[p][t])

(* An open page comes to show the service's status as it is: the sampler   *)
(* does not stay parked beside an open stream, nor a stream miss a sample. *)
StatusCatchesUp ==
    \A p \in Pages :
        []<>(page[p].step = "live" /\ Up => page[p].status = Status)

(* A shutdown is over without the five seconds' grace, with pages open and *)
(* streams and handshakes under way. *)
ShutdownDrains == shutdown ~> listener = "gone"
=============================================================================
