----------------------------- MODULE RoundTrip -----------------------------
(***************************************************************************)
(* What WithRetry promises of one HTTP request (retry.go:113-125): it is   *)
(* put on the wire at most Limit times, or once if it may not be repeated, *)
(* and what the caller gets is the outcome of the last time, or the error  *)
(* of its context, or the error of a body that could not be read.          *)
(***************************************************************************)
EXTENDS Naturals

CONSTANTS Outcomes   \* what one time on the wire can give

VARIABLES
  limit,    \* the policy's maximum, or 1
  sent,     \* times the request was put on the wire
  last,     \* the outcome of the last one, "none" before
  answer    \* what the caller got: "none" yet, "cancelled", "unreadable" or an outcome

Init == limit \in Nat \ {0} /\ sent = 0 /\ last = "none" /\ answer = "none"

Send == answer = "none" /\ sent < limit /\ sent' = sent + 1 /\ UNCHANGED <<limit, last, answer>>

Outcome == answer = "none" /\ last' \in Outcomes /\ UNCHANGED <<limit, sent, answer>>

Answer ==
  /\ answer = "none"
  /\ \/ answer' = last /\ last # "none" /\ sent > 0
     \/ answer' = "cancelled"
     \/ answer' = "unreadable" /\ sent = 0
  /\ UNCHANGED <<limit, sent, last>>

Next == Send \/ Outcome \/ Answer

Spec == Init /\ [][Next]_<<limit, sent, last, answer>>
=============================================================================
