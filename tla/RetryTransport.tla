--------------------------- MODULE RetryTransport --------------------------
(***************************************************************************)
(* One call of retryRoundTripper.RoundTrip (retry.go), over a transport    *)
(* and a context that are external: the transport sends the request, or    *)
(* fails at once when the context is done, and the context may be done at  *)
(* any moment.                                                             *)
(*                                                                         *)
(* A response is its class and its Retry-After header.  A time.Duration is *)
(* an integer that wraps around at Half (2^63), Second (10^9) of its units *)
(* to the second.                                                          *)
(***************************************************************************)
EXTENDS Integers, FiniteSets

CONSTANTS
  Requests,     \* the requests sent, a subset of AllRequests
  Policies,     \* the policies WithRetry builds, a subset of AllPolicies
  RetryAfters,  \* the Retry-After headers a server sends, a subset of Headers
  Half, Second  \* the range of time.Duration, -Half to Half - 1, and its second

Statuses == {"final", "gateway", "unavailable", "throttled"}  \* any other, 502/504, 503, 429
Kinds    == Statuses \cup {"neterr"}

(* Which outcomes policy.condition retries; WithRetryCondition may set any. *)
DefaultRetryCondition == {"neterr", "gateway", "unavailable", "throttled"}

Bodies      == {"none", "replayable", "stream"}   \* no Body; with GetBody; without
AllRequests == [idempotent : BOOLEAN, body : Bodies]
AllPolicies == [max : Nat \ {0}, initial : Nat \ {0}, cap : Nat \ {0}, retries : SUBSET Kinds]
Headers     == [form : {"none", "seconds", "date", "junk"}, value : Int]

ASSUME RequestsAssumption    == Requests \subseteq AllRequests
ASSUME PoliciesAssumption    == Policies \subseteq AllPolicies
ASSUME RetryAftersAssumption == RetryAfters \subseteq Headers
ASSUME DurationAssumption    == Half \in Nat \ {0} /\ Second \in Nat \ {0}

(* isIdempotent over the methods, and the options that build a policy:     *)
(* defaultRetryPolicy, then WithRetryMax and WithRetryBackoff.             *)
IsIdempotent(method) == method \in {"GET", "HEAD", "PUT", "DELETE", "OPTIONS", "TRACE"}

RetryMax(policy, n) == [policy EXCEPT !.max = IF n < 1 THEN 1 ELSE n]

RetryBackoff(policy, initial, max) ==
  [policy EXCEPT !.initial = IF initial > 0 THEN initial ELSE @,
                 !.cap     = IF max > 0 THEN max ELSE @]

VARIABLES
  req, policy,   \* the request, and the policy of the client
  cancelled,     \* the context is done
  pc, attempt,
  body,          \* req.Body: "full", or "spent" once a transport has read it
  out,           \* the outcome of the last attempt
  delay,         \* the backoff being slept
  open,          \* responses whose body is not closed, by the send they answer
  sent,          \* times on the wire
  answer,        \* what RoundTrip returned
  intact,        \* history: every send carried the whole body
  late           \* history: attempts begun with the context done

vars == <<req, policy, cancelled, pc, attempt, body, out, delay, open, sent, answer, intact, late>>

NoOutcome == [kind |-> "none", after |-> [form |-> "none", value |-> 0]]
Results   == [kind : Statuses, after : RetryAfters] \cup [kind : {"neterr"}, after : {NoOutcome.after}]

Init ==
  /\ req \in Requests
  /\ policy \in Policies
  /\ cancelled = FALSE
  /\ pc = "start"
  /\ attempt = 0
  /\ body = "full"
  /\ out = NoOutcome
  /\ delay = 0
  /\ open = {}
  /\ sent = 0
  /\ answer = "none"
  /\ intact = TRUE
  /\ late = 0

-----------------------------------------------------------------------------
(* computeBackoff and parseRetryAfter.                                     *)

Wrap(n) == ((n + Half) % (2 * Half)) - Half

(* A header is used that is a number of seconds, not negative, or a date.  *)
Parses(h) == h.form = "date" \/ (h.form = "seconds" /\ h.value >= 0)

Parsed(h) == IF h.form = "seconds" THEN Wrap(h.value * Second)
             ELSE IF h.value < 0 THEN 0 ELSE h.value

(* Mutants: Retry-After with no floor, and with no cap.                    *)
ClampNoFloor(d) == IF d > policy.cap THEN policy.cap ELSE d

ClampNoCap(d) == IF d < 0 THEN 0 ELSE d

Clamp(d) == IF d > policy.cap THEN policy.cap ELSE IF d < 0 THEN 0 ELSE d

(* The backoff window doubles per attempt until it reaches the cap.        *)
Window[n \in Nat] ==
  IF n = 0 THEN policy.initial
  ELSE IF Window[n - 1] < policy.cap THEN Wrap(2 * Window[n - 1]) ELSE Window[n - 1]

(* A full-jitter sample below the window and the cap, or 0.                *)
Jitter(n) == {0} \cup {d \in 0..(policy.cap - 1) : d < Window[n]}

Backoff(n, o) ==
  IF Parses(o.after) THEN {Clamp(Parsed(o.after))} ELSE Jitter(n)

-----------------------------------------------------------------------------
(* The loop of RoundTrip.                                                  *)

(* snapshotBody gives a rewind for every body.                             *)
Rewinds == req.body # "none"

Repeatable == req.idempotent \/ Rewinds

Return(a) == pc' = "done" /\ answer' = a

(* Before the loop: the context, then the snapshot, which reads a stream   *)
(* to its end.                                                             *)
StartCancelled ==
  /\ pc = "start" /\ cancelled
  /\ Return("cancelled")
  /\ UNCHANGED <<req, policy, cancelled, attempt, body, out, delay, open, sent, intact, late>>

SnapshotFails ==
  /\ pc = "start" /\ ~cancelled /\ req.body = "stream"
  /\ Return("unreadable")
  /\ UNCHANGED <<req, policy, cancelled, attempt, body, out, delay, open, sent, intact, late>>

Snapshot ==
  /\ pc = "start" /\ ~cancelled
  /\ pc' = "attempt"
  /\ UNCHANGED <<req, policy, cancelled, attempt, body, out, delay, open, sent, answer,
                 intact, late>>

(* Mutant: the body is not reset before a replay.                          *)
BodyAtNoRewind(n) == body

BodyAt(n) == IF n > 0 /\ Rewinds THEN "full" ELSE body

Send ==
  /\ pc = "attempt"
  /\ pc' = "inflight"
  /\ body' = "spent"
  /\ IF cancelled
       THEN late' = late + 1 /\ UNCHANGED <<sent, intact>>
       ELSE /\ sent' = sent + 1
            /\ intact' = (intact /\ (req.body = "none" \/ BodyAt(attempt) = "full"))
            /\ UNCHANGED late
  /\ UNCHANGED <<req, policy, cancelled, attempt, out, delay, open, answer>>

(* base.RoundTrip returns.  Begun with the context done, it only fails.    *)
Transport(o) ==
  /\ pc = "inflight"
  /\ late > 0 => o.kind = "neterr"
  /\ pc' = "judge"
  /\ out' = o
  /\ open' = IF o.kind = "neterr" THEN open ELSE open \cup {sent}
  /\ UNCHANGED <<req, policy, cancelled, attempt, body, delay, sent, answer, intact, late>>

(* Mutant: an error under a done context is judged like any other.         *)
CancelUnseen == FALSE

CancelSeen == out.kind = "neterr" /\ cancelled

JudgeCancelled ==
  /\ pc = "judge" /\ CancelSeen
  /\ Return("cancelled")
  /\ UNCHANGED <<req, policy, cancelled, attempt, body, out, delay, open, sent, intact, late>>

(* Mutant: a POST with no body is repeated too.                            *)
RetriesAll == out.kind \in policy.retries /\ attempt # policy.max - 1

Retries == out.kind \in policy.retries /\ Repeatable /\ attempt # policy.max - 1

GiveUp ==
  /\ pc = "judge" /\ ~CancelSeen
  /\ ~Retries
  /\ Return(out.kind)
  /\ UNCHANGED <<req, policy, cancelled, attempt, body, out, delay, open, sent, intact, late>>

(* computeBackoff, then drainResponse.                                     *)
(* Mutant: the response is dropped and not closed.                         *)
DrainNothing == UNCHANGED open

Drain == open' = open \ {sent}

Backs ==
  /\ pc = "judge" /\ ~CancelSeen
  /\ Retries
  /\ delay' \in Backoff(attempt, out)
  /\ Drain
  /\ pc' = "sleep"
  /\ UNCHANGED <<req, policy, cancelled, attempt, body, out, sent, answer, intact, late>>

(* contextSleep: of a timer and a context that are both ready, select      *)
(* takes either; with no delay only the context is asked.                  *)
SleepCancelled ==
  /\ pc = "sleep" /\ cancelled
  /\ Return("cancelled")
  /\ UNCHANGED <<req, policy, cancelled, attempt, body, out, delay, open, sent, intact, late>>

Wake ==
  /\ pc = "sleep"
  /\ ~cancelled \/ delay > 0
  /\ pc' = "attempt"
  /\ attempt' = attempt + 1
  /\ UNCHANGED <<req, policy, cancelled, body, out, delay, open, sent, answer, intact, late>>

Cancel ==
  /\ ~cancelled /\ pc # "done"
  /\ cancelled' = TRUE
  /\ UNCHANGED <<req, policy, pc, attempt, body, out, delay, open, sent, answer, intact, late>>

(* RoundTrip's own steps, apart from those of the transport and context.   *)
Loop ==
  \/ StartCancelled \/ SnapshotFails \/ Snapshot \/ Send
  \/ JudgeCancelled \/ GiveUp \/ Backs \/ SleepCancelled \/ Wake

Next == Loop \/ (\E o \in Results : Transport(o)) \/ Cancel

Spec == Init /\ [][Next]_vars

-----------------------------------------------------------------------------
(* Properties.                                                             *)

Answers == {"none", "cancelled", "unreadable"} \cup Kinds

TypeOK ==
  /\ req \in Requests /\ policy \in Policies /\ cancelled \in BOOLEAN
  /\ pc \in {"start", "attempt", "inflight", "judge", "sleep", "done"}
  /\ attempt \in Nat /\ body \in {"full", "spent"}
  /\ out \in Results \cup {NoOutcome}
  /\ delay \in Nat /\ open \subseteq Nat /\ sent \in Nat
  /\ answer \in Answers /\ intact \in BOOLEAN /\ late \in Nat

(* The policy bounds the sends: WithRetryMax counts the first one, and a   *)
(* POST without a body is sent once (retry.go:76, 119-121).                *)
Promise == INSTANCE RoundTrip WITH
  Outcomes <- Kinds,
  limit <- IF Repeatable THEN policy.max ELSE 1,
  last  <- out.kind

ImplementsRoundTrip == Promise!Spec

(* Every send carries the whole body, the replays included.                *)
BodyIntact == intact

(* Each response is either drained or returned: at most the last one is    *)
(* open, and when RoundTrip returns it is open only if it is the answer.   *)
NoLeak ==
  /\ open \subseteq {sent}
  /\ pc = "done" /\ answer \notin Statuses => open = {}

(* A backoff is never negative and never longer than the configured cap,   *)
(* whatever the server's Retry-After says (retry.go:245).                  *)
DelayWithinCap == delay \in 0..policy.cap

(* Once the context is done at most one more attempt begins (the timer may *)
(* win the select), and it is not retried.                                 *)
CancelObserved == late <= 1 /\ (late = 1 => pc # "sleep")

-----------------------------------------------------------------------------
(* The inductive invariant of RetryProofs.  The loop goes on only below    *)
(* the maximum, with the last response drained and, on its first turn, the *)
(* body unread; an attempt begun with the context done ends it.            *)
LoopInv ==
  /\ attempt < policy.max /\ (~Repeatable => attempt = 0)
  /\ pc \in {"start", "attempt"} => sent <= attempt
  /\ pc = "start" => attempt = 0 /\ sent = 0
  /\ sent <= attempt + 1
  /\ pc \in {"start", "attempt"} /\ attempt = 0 => body = "full"
  /\ pc = "sleep" => Repeatable /\ attempt + 1 < policy.max
  /\ pc \in {"start", "attempt", "inflight", "sleep"} => open = {}
  /\ pc = "judge" /\ out.kind = "neterr" => open = {}
  /\ pc = "judge" => out.kind \in Kinds
  /\ pc # "done" => answer = "none"

ContextInv ==
  /\ late = 0 \/ (late = 1 /\ cancelled /\ pc \in {"inflight", "judge", "done"})
  /\ late = 1 /\ pc = "judge" => out.kind = "neterr"
  /\ pc \in {"inflight", "judge"} => sent > 0 \/ late = 1

IndInv == TypeOK /\ LoopInv /\ ContextInv /\ BodyIntact /\ NoLeak /\ DelayWithinCap
=============================================================================
