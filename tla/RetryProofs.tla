---------------------------- MODULE RetryProofs ----------------------------
(***************************************************************************)
(* Theorems about RetryTransport, for any requests, policies and headers.  *)
(***************************************************************************)
EXTENDS RetryTransport, TLAPS

LEMMA PolicyFields ==
  ASSUME TypeOK
  PROVE  /\ policy.max \in Nat \ {0} /\ policy.initial \in Nat \ {0}
         /\ policy.cap \in Nat \ {0} /\ policy.retries \subseteq Kinds
         /\ req.idempotent \in BOOLEAN /\ req.body \in Bodies
  BY PoliciesAssumption, RequestsAssumption DEF TypeOK, AllPolicies, AllRequests

(* Whatever the header and the window, a backoff lies between 0 and the    *)
(* cap: an overflow of the seconds is cut off too.                         *)
LEMMA BackoffWithinCap ==
  ASSUME TypeOK, NEW n \in Nat, NEW o \in Results, NEW d \in Backoff(n, o)
  PROVE  d \in 0..policy.cap
  <1>1. policy.cap \in Nat
    BY PolicyFields
  <1>2. o.after \in Headers
    BY RetryAftersAssumption DEF Results, NoOutcome, Headers
  <1>3. o.after.value \in Int
    BY <1>2 DEF Headers
  <1>4. CASE Parses(o.after)
    <2>1. \A i \in Int : Wrap(i) \in Int
      BY DurationAssumption DEF Wrap
    <2>2. o.after.value * Second \in Int
      BY <1>3, DurationAssumption
    <2>3. Parsed(o.after) \in Int
      BY <1>3, <2>1, <2>2 DEF Parsed
    <2>4. d = Clamp(Parsed(o.after))
      BY <1>4 DEF Backoff
    <2>5. QED
      BY <1>1, <2>3, <2>4 DEF Clamp
  <1>5. CASE ~Parses(o.after)
    BY <1>1, <1>5 DEF Backoff, Jitter
  <1>6. QED
    BY <1>4, <1>5

LEMMA InitInd == Init => IndInv
  <1> SUFFICES ASSUME Init PROVE IndInv
    OBVIOUS
  <1>1. policy \in AllPolicies /\ policy \in Policies
    BY PoliciesAssumption DEF Init
  <1>2. TypeOK
    BY <1>1 DEF Init, TypeOK, Answers
  <1>3. LoopInv
    BY <1>1 DEF Init, LoopInv, AllPolicies
  <1>4. ContextInv /\ NoLeak /\ BodyIntact
    BY DEF Init, ContextInv, NoLeak, BodyIntact
  <1>5. DelayWithinCap
    BY <1>1 DEF Init, DelayWithinCap, AllPolicies
  <1>6. QED
    BY <1>2, <1>3, <1>4, <1>5 DEF IndInv

LEMMA LoopStep ==
  ASSUME IndInv, Loop
  PROVE  IndInv'
  <1> USE DEF IndInv, TypeOK, LoopInv, ContextInv, NoLeak, DelayWithinCap, BodyIntact, Return
  <1>0. policy.max \in Nat \ {0} /\ policy.cap \in Nat \ {0} /\ req.body \in Bodies
    BY PolicyFields
  <1>1. CASE StartCancelled
    BY <1>0, <1>1 DEF StartCancelled, Answers, Statuses, Repeatable, Rewinds
  <1>2. CASE SnapshotFails
    BY <1>0, <1>2 DEF SnapshotFails, Answers, Statuses, Repeatable, Rewinds
  <1>3. CASE Snapshot
    BY <1>0, <1>3 DEF Snapshot, Repeatable, Rewinds
  <1>4. CASE Send
    <2>1. /\ pc = "attempt" /\ pc' = "inflight" /\ body' = "spent"
          /\ UNCHANGED <<req, policy, cancelled, attempt, out, delay, open, answer>>
      BY <1>4 DEF Send
    <2>2. CASE cancelled
      <3>1. late' = late + 1 /\ sent' = sent /\ intact' = intact /\ late = 0
        BY <1>4, <2>2 DEF Send
      <3>2. QED
        BY <1>0, <2>1, <2>2, <3>1 DEF Repeatable, Rewinds
    <2>3. CASE ~cancelled
      <3>1. sent' = sent + 1 /\ late' = late /\ late = 0
        BY <1>4, <2>3 DEF Send
      <3>2. req.body = "none" \/ BodyAt(attempt) = "full"
        BY <2>1 DEF BodyAt, Rewinds
      <3>3. intact'
        BY <1>4, <2>3, <3>2 DEF Send
      <3>4. QED
        BY <1>0, <2>1, <2>3, <3>1, <3>3 DEF Repeatable, Rewinds
    <2>4. QED
      BY <2>2, <2>3
  <1>5. CASE JudgeCancelled
    BY <1>0, <1>5 DEF JudgeCancelled, CancelSeen, Answers, Statuses, Repeatable, Rewinds
  <1>6. CASE GiveUp
    BY <1>0, <1>6 DEF GiveUp, CancelSeen, Answers, Kinds, Statuses, Repeatable, Rewinds
  <1>7. CASE Backs
    <2>1. out \in Results
      BY <1>7 DEF Backs, NoOutcome, Kinds, Statuses
    <2>2. delay' \in 0..policy.cap
      BY <1>7, <2>1, BackoffWithinCap DEF Backs
    <2>3. /\ Retries
          /\ pc = "judge" /\ pc' = "sleep" /\ open' = {} /\ late = 0
          /\ UNCHANGED <<req, policy, cancelled, attempt, body, out, sent, answer, intact, late>>
      BY <1>7 DEF Backs, Drain, CancelSeen
    <2>4. QED
      BY <1>0, <2>2, <2>3 DEF Repeatable, Rewinds, Retries
  <1>8. CASE SleepCancelled
    BY <1>0, <1>8 DEF SleepCancelled, Answers, Statuses, Repeatable, Rewinds
  <1>9. CASE Wake
    BY <1>0, <1>9 DEF Wake, Repeatable, Rewinds
  <1>10. QED
    BY <1>1, <1>2, <1>3, <1>4, <1>5, <1>6, <1>7, <1>8, <1>9 DEF Loop

LEMMA NextInd == IndInv /\ [Next]_vars => IndInv'
  <1> SUFFICES ASSUME IndInv, [Next]_vars PROVE IndInv'
    OBVIOUS
  <1> USE DEF IndInv, TypeOK, LoopInv, ContextInv, NoLeak, DelayWithinCap, BodyIntact,
              Repeatable, Rewinds
  <1>1. CASE Loop
    BY <1>1, LoopStep
  <1>2. ASSUME NEW o \in Results, Transport(o) PROVE IndInv'
    <2>1. o.kind \in Kinds
      BY DEF Results, Kinds
    <2>2. QED
      BY <1>2, <2>1 DEF Transport
  <1>3. CASE Cancel
    BY <1>3 DEF Cancel
  <1>4. CASE UNCHANGED vars
    BY <1>4 DEF vars
  <1>5. QED
    BY <1>1, <1>2, <1>3, <1>4 DEF Next

LEMMA Inductive == Spec => []IndInv
  <1>1. QED
    BY InitInd, NextInd, PTL DEF Spec

(* Every variable keeps its type.                                          *)
THEOREM TypeCorrect == Spec => []TypeOK
  <1>1. IndInv => TypeOK
    BY DEF IndInv
  <1>2. QED
    BY Inductive, <1>1, PTL

(* Every send carries the whole body.                                      *)
THEOREM BodiesIntact == Spec => []BodyIntact
  <1>1. IndInv => BodyIntact
    BY DEF IndInv
  <1>2. QED
    BY Inductive, <1>1, PTL

(* No response body is left open but that of the answer.                   *)
THEOREM NothingLeaks == Spec => []NoLeak
  <1>1. IndInv => NoLeak
    BY DEF IndInv
  <1>2. QED
    BY Inductive, <1>1, PTL

(* No backoff is negative or longer than the cap.                          *)
THEOREM DelaysCapped == Spec => []DelayWithinCap
  <1>1. IndInv => DelayWithinCap
    BY DEF IndInv
  <1>2. QED
    BY Inductive, <1>1, PTL

(* After the context is done one attempt may begin, and is the last.       *)
THEOREM CancelEnds == Spec => []CancelObserved
  <1>1. IndInv => CancelObserved
    BY DEF IndInv, ContextInv, CancelObserved
  <1>2. QED
    BY Inductive, <1>1, PTL

(* The request is sent at most as often as the policy says, and the answer *)
(* is the outcome of the last send.                                        *)
THEOREM Refinement == Spec => ImplementsRoundTrip
  <1> DEFINE limit == IF Repeatable THEN policy.max ELSE 1
             promised == <<limit, sent, out.kind, answer>>
  <1>1. Init => Promise!Init
    <2> SUFFICES ASSUME Init PROVE Promise!Init
      OBVIOUS
    <2>1. policy.max \in Nat \ {0}
      BY PoliciesAssumption DEF Init, AllPolicies
    <2>2. QED
      BY <2>1 DEF Init, Promise!Init, NoOutcome
  <1>2. IndInv /\ [Next]_vars => [Promise!Next]_promised
    <2> SUFFICES ASSUME IndInv, [Next]_vars, UNCHANGED promised => FALSE
                 PROVE  Promise!Next
      OBVIOUS
    <2> USE DEF IndInv, TypeOK, LoopInv, ContextInv, Repeatable, Rewinds, Return
    <2>0. policy.max \in Nat \ {0}
      BY PolicyFields
    <2>1. CASE StartCancelled \/ JudgeCancelled \/ SleepCancelled
      BY <2>1 DEF StartCancelled, JudgeCancelled, SleepCancelled, Promise!Next, Promise!Answer
    <2>2. CASE SnapshotFails
      BY <2>2 DEF SnapshotFails, Promise!Next, Promise!Answer
    <2>3. CASE Snapshot \/ Backs \/ Wake \/ Cancel
      BY <2>3 DEF Snapshot, Backs, Wake, Cancel
    <2>4. CASE Send
      <3>1. sent' = sent + 1
        BY <2>4 DEF Send
      <3>2. QED
        BY <2>0, <2>4, <3>1 DEF Send, Promise!Next, Promise!Send
    <2>5. CASE GiveUp
      BY <2>5 DEF GiveUp, CancelSeen, Kinds, Statuses, Promise!Next, Promise!Answer
    <2>6. ASSUME NEW o \in Results, Transport(o) PROVE Promise!Next
      <3>1. o.kind \in Kinds
        BY DEF Results, Kinds
      <3>2. QED
        BY <2>6, <3>1 DEF Transport, Promise!Next, Promise!Outcome
    <2>7. CASE UNCHANGED vars
      BY <2>7 DEF vars
    <2>8. QED
      BY <2>1, <2>2, <2>3, <2>4, <2>5, <2>6, <2>7 DEF Next, Loop
  <1>3. QED
    BY <1>1, <1>2, Inductive, PTL DEF Spec, ImplementsRoundTrip, Promise!Spec
=============================================================================
