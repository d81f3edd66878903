----------------------------- MODULE Admission -----------------------------
(***************************************************************************)
(* The accept loop: the gate that admits connections, their TLS handshake, *)
(* their end, and the shutdown that stops accepting and drains them.  A    *)
(* peer holds at most one connection.  /health, DNS and settings requests  *)
(* leave nothing behind on a connection and are not told apart.            *)
(***************************************************************************)
EXTENDS Naturals, FiniteSets

CONSTANTS
    Peers,
    MaxConnections   \* limits.max_connections

ASSUME PeersAssumption == IsFiniteSet(Peers)
ASSUME ConnectionsAssumption == MaxConnections \in Nat \ {0}

VARIABLES
    conn,       \* peer -> "none", "handshake" or "open"
    permits,    \* permits left in the ConnectionGate
    shutdown,   \* the shutdown watch channel holds `true`
    listener    \* "accepting", "draining", or "gone": serve_until_shutdown is over

admissionVars == <<conn, permits, shutdown, listener>>

Admitted == {p \in Peers : conn[p] # "none"}

AdmissionInit ==
    /\ conn = [p \in Peers |-> "none"] /\ permits = MaxConnections
    /\ shutdown = FALSE /\ listener = "accepting"

\* try_admit before the task is spawned; at the ceiling the stream is dropped
\* and nothing changes.
Accept(p) ==
    /\ listener = "accepting" /\ conn[p] = "none"
    /\ permits > 0
    /\ permits' = permits - 1
    /\ conn' = [conn EXCEPT ![p] = "handshake"]
    /\ UNCHANGED <<shutdown, listener>>

HandshakeDone(p) ==
    /\ conn[p] = "handshake" /\ listener # "gone"
    /\ conn' = [conn EXCEPT ![p] = "open"]
    /\ UNCHANGED <<permits, shutdown, listener>>

\* The task of the connection ends, and its permit is dropped with it.
Close(p) ==
    /\ conn' = [conn EXCEPT ![p] = "none"]
    /\ permits' = permits + 1
    /\ UNCHANGED <<shutdown, listener>>

\* The handshake fails, or takes longer than handshake_timeout.
HandshakeFails_Bug(p) ==
    /\ conn[p] = "handshake" /\ listener # "gone"
    /\ conn' = [conn EXCEPT ![p] = "none"]
    /\ UNCHANGED <<permits, shutdown, listener>>
HandshakeFails(p) == conn[p] = "handshake" /\ listener # "gone" /\ Close(p)

\* POST /admin/shutdown.
ServeAdminShutdown(p) ==
    /\ conn[p] = "open" /\ listener = "accepting"
    /\ shutdown' = TRUE
    /\ UNCHANGED <<conn, permits, listener>>

\* shutdown_rx.changed(): the loop ends and the listener is dropped.
StopAccepting ==
    /\ shutdown /\ listener = "accepting"
    /\ listener' = "draining"
    /\ UNCHANGED <<conn, permits, shutdown>>

Gone == listener' = "gone" /\ UNCHANGED <<conn, permits, shutdown>>
\* graceful.shutdown() has nothing left to wait for.
Drained == listener = "draining" /\ Admitted = {} /\ Gone
\* It had, and five seconds are over.
DrainTimeout == listener = "draining" /\ Admitted # {} /\ Gone
=============================================================================
