----------------------------- MODULE HttpFetch -----------------------------
(***************************************************************************)
(* The static fetch (src/crates/amber-core/src/http.rs): one GET at a      *)
(* time, repeated when its failure may pass.  Servers are external: an     *)
(* attempt meets any of Replies.                                           *)
(*                                                                         *)
(* A definition whose name starts with Bug is a seeded defect the model    *)
(* checker must detect; no specification uses it.                          *)
(***************************************************************************)
EXTENDS Naturals, Sequences

CONSTANTS
  Replies,        \* what a server may do: [kind, code, hops, size, type, tag]
  MaxAttempts,    \* MAX_ATTEMPTS
  MaxRedirects,   \* MAX_REDIRECTS
  ByteCeiling     \* DEFAULT_BYTE_CEILING

ASSUME HttpAssumption ==
  /\ MaxAttempts \in Nat \ {0}
  /\ MaxRedirects \in Nat /\ ByteCeiling \in Nat
  /\ \A r \in Replies : /\ r.kind \in {"answer", "transport", "timeout"}
                        /\ r.hops \in Nat /\ r.code \in Nat /\ r.size \in Nat

VARIABLES
  attempt,   \* number of the attempt under way, 0 outside fetch_with_retry
  fetched,   \* what the last attempt came to
  backoff    \* slept since the fetch began, in units of BACKOFF_BASE

httpVars == <<attempt, fetched, backoff>>

Failed(e) == [ok |-> FALSE, err |-> e, code |-> 0]
FailedStatus(n) == [ok |-> FALSE, err |-> "Status", code |-> n]
Page(r) == [ok |-> TRUE, type |-> r.type, tag |-> r.tag]
Unfetched == Failed("none")

HttpInit == attempt = 0 /\ fetched = Unfetched /\ backoff = 0

-----------------------------------------------------------------------------

\* The caller's byte budget, if it has one, lowers the ceiling.
ReadLimit(budget) == IF budget < ByteCeiling THEN budget ELSE ByteCeiling

\* fetch_once and map_ureq_error: too many redirects count as a failed request.
FetchOnce(r, budget) ==
  CASE r.kind = "timeout" -> Failed("Timeout")
    [] r.kind = "transport" \/ r.hops > MaxRedirects -> Failed("Request")
    [] r.kind = "answer" /\ r.hops <= MaxRedirects /\ r.code >= 400 -> FailedStatus(r.code)
    [] r.kind = "answer" /\ r.hops <= MaxRedirects /\ r.code < 400 ->
         IF r.size > ReadLimit(budget) THEN Failed("TooLarge") ELSE Page(r)

BugIsTransient(f) ==   \* a page over the byte budget is fetched again
  \/ f.err \in {"Timeout", "Request", "TooLarge"}
  \/ f.err = "Status" /\ (f.code = 429 \/ f.code \in 500..599)

IsTransient(f) ==
  \/ f.err \in {"Timeout", "Request"}
  \/ f.err = "Status" /\ (f.code = 429 \/ f.code \in 500..599)

PowerOf2[n \in Nat] == IF n = 0 THEN 1 ELSE 2 * PowerOf2[n - 1]

\* BACKOFF_BASE * 2^(n-1).
BackoffDelay(n) == PowerOf2[n - 1]

\* A proxy that does not parse fails the fetch before its first attempt.
InvalidProxy ==
  /\ attempt = 0
  /\ fetched' = Failed("Request")
  /\ UNCHANGED <<attempt, backoff>>

BeginFetch ==
  /\ attempt = 0
  /\ attempt' = 1
  /\ fetched' = Unfetched
  /\ backoff' = 0

\* The test fetch_with_retry makes after a failure.
LastTry(n, f) == n >= MaxAttempts \/ ~IsTransient(f)

Attempt(r, budget) ==
  /\ attempt > 0
  /\ fetched' = FetchOnce(r, budget)
  /\ IF fetched'.ok \/ LastTry(attempt, fetched')
     THEN attempt' = 0 /\ UNCHANGED backoff
     ELSE attempt' = attempt + 1 /\ backoff' = backoff + BackoffDelay(attempt)

HttpTypeOK ==
  /\ attempt \in 0..MaxAttempts
  /\ fetched.ok \in BOOLEAN
  /\ backoff \in Nat

\* A page that is too large, and what the client did wrong, stay so; a server
\* that is overloaded or down may recover.
MayPass(f) == f.err # "TooLarge" /\ (f.err = "Status" => f.code = 429 \/ f.code \in 500..599)

\* A fetch that ends on a failure that may pass has made all its attempts, one
\* that goes on has met only such failures, and its sleeps double.
RetriesExact ==
  [][attempt > 0 =>
       IF attempt' > 0
       THEN /\ ~fetched'.ok /\ MayPass(fetched')
            /\ backoff' = PowerOf2[attempt] - 1
       ELSE fetched'.ok \/ (MayPass(fetched') => attempt = MaxAttempts)]_httpVars

=============================================================================
