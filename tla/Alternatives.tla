---------------------------- MODULE Alternatives ----------------------------
(***************************************************************************)
(* What routing promises, without routers: alternatives are tried one      *)
(* after the other while the request's body is untouched; each may decline *)
(* with an error, and the best error so far is kept (first among equals).  *)
(* The request is settled either by one alternative, which alone may read  *)
(* the body, or, when all have declined, by that best error.               *)
(***************************************************************************)
EXTENDS RouteResult

CONSTANTS Errors, Responses

VARIABLES
  best,       \* the best error so far, None before the first
  consumed,   \* has the body been read
  verdict     \* the RouteResult that settles the request, None before

altVars == <<best, consumed, verdict>>

AltInit == best = None /\ consumed = FALSE /\ verdict = None

\* An alternative declines, leaving the body to the next one.
Decline ==
  /\ verdict = None /\ ~consumed
  /\ \E err \in Errors : best' = CombineFail(best, err)
  /\ UNCHANGED <<consumed, verdict>>

\* The alternative that the request is committed to reads the body.
Consume ==
  /\ verdict = None /\ ~consumed
  /\ consumed' = TRUE
  /\ UNCHANGED <<best, verdict>>

\* It settles the request, with a response or a fatal error.
Commit ==
  /\ verdict = None
  /\ \/ \E resp \in Responses : verdict' = Route(resp)
     \/ \E err \in Errors : verdict' = FailFatal(err)
  /\ UNCHANGED <<best, consumed>>

\* All have declined.
GiveUp ==
  /\ verdict = None /\ ~consumed /\ best # None
  /\ verdict' = Fail(best)
  /\ UNCHANGED <<best, consumed>>

AltNext == Decline \/ Consume \/ Commit \/ GiveUp

AltSpec == AltInit /\ [][AltNext]_altVars
=============================================================================
