----------------------------- MODULE AcceptLoop -----------------------------
(***************************************************************************)
(* The serving adapters' accept loop and the life of its connections:      *)
(* accept_loop and ConnectionLimits (listener.rs), serve_tls_connection    *)
(* (tls.rs) and serve_http1 (adapter.rs) of servant-server.                *)
(*                                                                         *)
(* The loop and each spawned connection are tasks of their own.  They meet *)
(* in the semaphore: the loop takes a permit or closes the connection, the *)
(* connection's task gives the permit back when its future has ended.      *)
(***************************************************************************)
EXTENDS Naturals, Sequences, FiniteSets

CONSTANTS
  Conns,            \* the clients, each with one connection at a time
  MaxConnections,   \* ConnectionLimits::max_connections
  Tls               \* serve_rustls_listener rather than serve_listener

ASSUME ConnsFinite == IsFiniteSet(Conns)

\* with_max_connections clamps to at least one.
ASSUME AtLeastOne == MaxConnections \in Nat \ {0}

ASSUME TlsBoolean == Tls \in BOOLEAN

VARIABLES
  loop,      \* what the loop does: "accepting", "backoff", or "dropped"
  backlog,   \* connections the listener has for accept, first come first
  permits,   \* the semaphore's free permits
  conn       \* conn[c]: where client c's connection is

vars == <<loop, backlog, permits, conn>>

(***************************************************************************)
(* "away"       no connection                                              *)
(* "queued"     in the backlog                                             *)
(* "handshake"  its task runs the TLS handshake                            *)
(* "head"       hyper waits for the head of a request                      *)
(* "busy"       a request is being read, handled and answered              *)
(* "closed"     the connection's future has ended and dropped the io; the  *)
(*              permit is not given back yet                               *)
(***************************************************************************)
Stages == {"away", "queued", "handshake", "head", "busy", "closed"}
Holding == {c \in Conns : conn[c] \in {"handshake", "head", "busy", "closed"}}

Init ==
  /\ loop = "accepting"
  /\ backlog = <<>>
  /\ permits = MaxConnections
  /\ conn = [c \in Conns |-> "away"]

Move(c, from, to) == conn[c] = from /\ conn' = [conn EXCEPT ![c] = to]

\* A client connects; the operating system queues it for the listener.
Connect(c) ==
  /\ loop # "dropped"
  /\ Move(c, "away", "queued")
  /\ backlog' = Append(backlog, c)
  /\ UNCHANGED <<loop, permits>>

\* Mutant: the last permit is never handed out.
AcceptKeepsOne ==
  /\ loop = "accepting" /\ backlog # <<>>
  /\ backlog' = Tail(backlog)
  /\ \/ /\ permits > 1
        /\ permits' = permits - 1
        /\ Move(Head(backlog), "queued", IF Tls THEN "handshake" ELSE "head")
     \/ /\ permits <= 1
        /\ Move(Head(backlog), "queued", "away")
        /\ UNCHANGED permits
  /\ UNCHANGED loop

(***************************************************************************)
(* accept succeeds: a permit and a task for the connection, or, past the   *)
(* cap, its end.  Neither arm awaits, so the loop is accepting again.      *)
(***************************************************************************)
Accept ==
  /\ loop = "accepting" /\ backlog # <<>>
  /\ backlog' = Tail(backlog)
  /\ \/ /\ permits > 0
        /\ permits' = permits - 1
        /\ Move(Head(backlog), "queued", IF Tls THEN "handshake" ELSE "head")
     \/ /\ permits = 0
        /\ Move(Head(backlog), "queued", "away")
        /\ UNCHANGED permits
  /\ UNCHANGED loop

\* Mutant: the error is propagated with `?` and ends the loop.
AcceptFailsForGood ==
  /\ loop = "accepting"
  /\ loop' = "dropped"
  /\ UNCHANGED <<backlog, permits, conn>>

\* accept fails, for want of file descriptors or because the peer has gone.
AcceptFails ==
  /\ loop = "accepting"
  /\ loop' = "backoff"
  /\ \/ UNCHANGED <<backlog, conn>>
     \/ /\ backlog # <<>>
        /\ backlog' = Tail(backlog)
        /\ Move(Head(backlog), "queued", "away")
  /\ UNCHANGED permits

\* The sleep of accept_error_backoff is over.
BackoffEnds ==
  /\ loop = "backoff"
  /\ loop' = "accepting"
  /\ UNCHANGED <<backlog, permits, conn>>

\* Mutant: the connections in the backlog are not closed with the listener.
DropLoopForgetsBacklog ==
  /\ loop # "dropped"
  /\ loop' = "dropped"
  /\ backlog' = <<>>
  /\ UNCHANGED <<permits, conn>>

\* The task that runs the loop is dropped; the connections' tasks live on.
DropLoop ==
  /\ loop # "dropped"
  /\ loop' = "dropped"
  /\ backlog' = <<>>
  /\ conn' = [c \in Conns |-> IF conn[c] = "queued" THEN "away" ELSE conn[c]]
  /\ UNCHANGED permits

ConnOnly == UNCHANGED <<loop, backlog, permits>>

\* The handshake completes, or it fails.
HandshakeEnds(c) ==
  /\ \/ Move(c, "handshake", "head")
     \/ Move(c, "handshake", "closed")
  /\ ConnOnly

\* Mutant: the task is aborted with its permit forgotten (mem::forget).
HandshakeTimesOutLeaks(c) == Move(c, "handshake", "away") /\ ConnOnly

\* tokio::time::timeout(handshake_timeout, ...)
HandshakeTimesOut(c) == Move(c, "handshake", "closed") /\ ConnOnly

\* A request's head is read, and the service called.
ReadHead(c) == Move(c, "head", "busy") /\ ConnOnly

\* Mutant: no timer is set, and hyper ignores header_read_timeout.
HeadNeverTimesOut(c) == FALSE /\ Move(c, "head", "closed") /\ ConnOnly

\* header_read_timeout, or the client closes between two requests.
HeadTimesOut(c) == Move(c, "head", "closed") /\ ConnOnly

\* The response is written: keep alive, or the end (a panic unwinds to it).
Respond(c) ==
  /\ \/ Move(c, "busy", "head")
     \/ Move(c, "busy", "closed")
  /\ ConnOnly

\* connection.await has returned: drop(permit), the end of the task.
ReleasePermit(c) ==
  /\ Move(c, "closed", "away")
  /\ permits' = permits + 1
  /\ UNCHANGED <<loop, backlog>>

ConnStep(c) ==
  \/ HandshakeEnds(c) \/ HandshakeTimesOut(c)
  \/ ReadHead(c) \/ HeadTimesOut(c)
  \/ Respond(c) \/ ReleasePermit(c)

Next ==
  \/ Accept \/ AcceptFails \/ BackoffEnds \/ DropLoop
  \/ \E c \in Conns : Connect(c) \/ ConnStep(c)

Spec == Init /\ [][Next]_vars

(***************************************************************************)
(* Tokio polls what is ready and fires its timers.  A failing accept is    *)
(* passing (listener.rs:5-8), hence the strong fairness of Accept; nothing *)
(* makes a client send or a handler answer, so ReadHead and Respond have   *)
(* none.                                                                   *)
(***************************************************************************)
Fairness ==
  /\ SF_vars(Accept) /\ WF_vars(BackoffEnds)
  /\ \A c \in Conns : /\ WF_vars(HandshakeTimesOut(c))
                      /\ WF_vars(HeadTimesOut(c))
                      /\ WF_vars(ReleasePermit(c))

FairSpec == Spec /\ Fairness

-----------------------------------------------------------------------------
\* The shape of the loop's state; the backlog lists the queued, each once.
TypeOK ==
  /\ loop \in {"accepting", "backoff", "dropped"}
  /\ backlog \in Seq(Conns)
  /\ permits \in 0..MaxConnections
  /\ conn \in [Conns -> Stages]
  /\ \A i, j \in DOMAIN backlog : backlog[i] = backlog[j] => i = j
  /\ \A c \in Conns :
       conn[c] = "queued" <=> \E i \in DOMAIN backlog : backlog[i] = c

(***************************************************************************)
(* Permits are neither lost nor made up, however a connection ends: the    *)
(* free ones and the connections' make up the cap.                         *)
(***************************************************************************)
PermitsConserved == permits + Cardinality(Holding) = MaxConnections

(***************************************************************************)
(* A connection is closed unserved only at the cap, with every place held, *)
(* or by a failing accept, or with the listener itself.                    *)
(***************************************************************************)
RefusedOnlyAtCap ==
  [][\A c \in Conns :
       conn[c] = "queued" /\ conn'[c] = "away" /\ loop' = "accepting"
         => Cardinality(Holding) = MaxConnections]_vars

\* Every queued connection is taken up, or closed, while the loop runs.
QueuedIsSettled ==
  \A c \in Conns : conn[c] = "queued" ~> conn[c] # "queued"

(***************************************************************************)
(* A client that connects and stalls, in the handshake or before its       *)
(* request's head, cannot keep its place: it sends a request or the place  *)
(* is free again (tls.rs:80-82, adapter.rs:161-163).                       *)
(***************************************************************************)
StallsEnd ==
  \A c \in Conns :
    conn[c] \in {"handshake", "head"} ~> conn[c] \in {"busy", "away"}
=============================================================================
