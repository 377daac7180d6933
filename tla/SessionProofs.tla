--------------------------- MODULE SessionProofs ---------------------------
(***************************************************************************)
(* Theorems about Session, for any callers, calls, options and bounds.     *)
(* Those that rest on the mutex assume that the unlocked Ticket is not     *)
(* among the calls.                                                        *)
(***************************************************************************)
EXTENDS SessionInvariant, TLAPS

(* The options stay the legal ones.                                        *)
LEMMA ConfigFields ==
  ASSUME TypeOK
  PROVE  /\ config.creds \in {"none", "good", "bad"}
         /\ config.token \in {"none", "good", "bad"}
         /\ config.otp \in BOOLEAN /\ config.given \in BOOLEAN
  BY ConfigsAssumption DEF TypeOK, AllConfigs

(* The initial states have the types.                                      *)
LEMMA InitType == Init => TypeOK
  <1> SUFFICES ASSUME Init PROVE TypeOK
    OBVIOUS
  <1>1. config \in AllConfigs
    BY ConfigsAssumption DEF Init
  <1>2. session \in Sessions
    BY <1>1 DEF Init, Sessions, NoSession, AllConfigs
  <1>3. QED
    BY <1>1, <1>2 DEF Init, TypeOK, AllConfigs, Places, Headers, Posts, Results, Fields

(* A step of a caller keeps the types.                                     *)
LEMMA StepType ==
  ASSUME TypeOK, NEW c \in Callers, Step(c)
  PROVE  TypeOK'
  <1> USE DEF TypeOK, Places, Goto, Return, client, local, server, ghost
  <1>1. CASE TokenHeader(c) \/ NoHeader(c)
    <2>1. \E h \in Headers : hdr' = [hdr EXCEPT ![c] = h]
      BY <1>1 DEF TokenHeader, NoHeader, Headers
    <2>2. hdr' \in [Callers -> Headers]
      BY <2>1
    <2>3. QED
      BY <1>1, <2>2 DEF TokenHeader, NoHeader
  <1>2. CASE TicketHeader(c)
    BY <1>2 DEF TicketHeader, Headers, Sessions, Seen
  <1>3. CASE CSRFHeader(c)
    BY <1>3 DEF CSRFHeader, Headers, Sessions, Seen
  <1>4. CASE Answered(c) \/ RequestFails(c) \/ Refused(c)
    BY <1>4 DEF Answered, RequestFails, Refused, Results
  <1>5. CASE Lock(c)
    BY <1>5 DEF Lock, AfterLock
  <1>6. CASE ReadSession(c) \/ SessionExists(c)
    BY <1>6 DEF ReadSession, SessionExists, Results, Unlock
  <1>7. CASE NeedsTicket(c)
    BY <1>7 DEF NeedsTicket
  <1>8. CASE Renew(c)
    BY <1>8 DEF Renew, Posts, Sessions
  <1>9. CASE NothingToRenew(c)
    BY <1>9 DEF NothingToRenew, Results, Unlock
  <1>10. CASE TakeCredentials(c)
    BY <1>10 DEF TakeCredentials, PasswordPost, Posts
  <1>11. CASE ClearOtp(c)
    <2>1. otpPosts' \in Nat
      BY <1>11 DEF ClearOtp
    <2>2. otp' \in BOOLEAN
      BY <1>11, Zenon DEF ClearOtp
    <2>3. QED
      BY <1>11, <2>1, <2>2 DEF ClearOtp
  <1>12. CASE Issue(c)
    BY <1>12 DEF Issue, Posts
  <1>13. CASE PostRefused(c) \/ PostFails(c)
    BY <1>13 DEF PostRefused, PostFails, PostError, Unlock, Results
  <1>14. CASE Allocate(c)
    BY <1>14 DEF Allocate, Sessions, Allocated, NoSession, Fields
  <1>15. CASE DecodeTicket(c) \/ DecodeCSRF(c)
    <2>1. pc' \in [Callers -> Places] /\ todo' \in [Callers -> SUBSET Fields]
      BY <1>15 DEF DecodeTicket, DecodeCSRF, Written
    <2>2. session' \in Sessions
      BY <1>15 DEF DecodeTicket, DecodeCSRF, Sessions
    <2>3. QED
      BY <1>15, <2>1, <2>2 DEF DecodeTicket, DecodeCSRF, Written
  <1>16. CASE Posted(c)
    <2>1. sends' \in [Callers -> Nat]
      BY <1>16 DEF Posted
    <2>2. fresh' \in BOOLEAN
      BY <1>16, Zenon DEF Posted
    <2>3. pc' \in [Callers -> Places] /\ result' \in [Callers -> Results]
      BY <1>16 DEF Posted, Results
    <2>4. mutex' \in Callers \cup {Free}
      BY <1>16 DEF Posted, Unlock
    <2>5. QED
      BY <1>16, <2>1, <2>2, <2>3, <2>4 DEF Posted
  <1>17. QED
    BY <1>1, <1>2, <1>3, <1>4, <1>5, <1>6, <1>7, <1>8, <1>9, <1>10, <1>11, <1>12, <1>13,
       <1>14, <1>15, <1>16 DEF Step

(* So does every step.                                                     *)
LEMMA NextType == TypeOK /\ [Next]_vars => TypeOK'
  <1> SUFFICES ASSUME TypeOK, [Next]_vars PROVE TypeOK'
    OBVIOUS
  <1> USE DEF TypeOK, client, local, server, ghost
  <1>1. ASSUME NEW c \in Callers, NEW o \in Ops, Call(c, o) PROVE TypeOK'
    <2>1. pc' \in [Callers -> Places]
      BY <1>1 DEF Call, Goto, Entry, Places
    <2>2. post' \in [Callers -> Posts]
      BY <1>1 DEF Call, PasswordPost, Posts
    <2>3. /\ op' \in [Callers -> Ops \cup {"none"}]
          /\ sends' \in [Callers -> Nat]
          /\ result' \in [Callers -> Results]
      BY <1>1 DEF Call, Results
    <2>4. calls' \in [Callers -> Nat] /\ began' \in [Callers -> Nat]
      BY <1>1 DEF Call
    <2>5. QED
      BY <1>1, <2>1, <2>2, <2>3, <2>4 DEF Call
  <1>2. ASSUME NEW c \in Callers, APIToken(c) PROVE TypeOK'
    BY <1>2 DEF APIToken
  <1>3. ASSUME NEW c \in Callers, Step(c) PROVE TypeOK'
    BY <1>3, StepType
  <1>4. CASE HourPasses
    <2>1. hours' \in Nat
      BY <1>4 DEF HourPasses
    <2>2. fresh' \in BOOLEAN
      BY <1>4, Zenon DEF HourPasses
    <2>3. QED
      BY <1>4, <2>1, <2>2 DEF HourPasses
  <1>5. CASE Revoke
    BY <1>5 DEF Revoke
  <1>6. CASE UNCHANGED vars
    BY <1>6 DEF vars
  <1>7. QED
    BY <1>1, <1>2, <1>3, <1>4, <1>5, <1>6 DEF Next

(* Every variable keeps its type, whatever the callers do.                 *)
THEOREM TypeCorrect == Spec => []TypeOK
  <1>1. QED
    BY InitType, NextType, PTL DEF Spec

-----------------------------------------------------------------------------
(* The mutex.  An op other than Ticket unlocks what it locked.             *)

(* Initially nobody is in a call and nothing is spent.                     *)
LEMMA InitInd == Init => IndInv
  <1> SUFFICES ASSUME Init PROVE IndInv
    OBVIOUS
  <1>1. TypeOK
    BY InitType
  <1>2. Mutual
    BY CallersAssumption DEF Init, Mutual, Critical
  <1>3. SessionInv
    BY DEF Init, SessionInv, Whole, Critical, NoSession
  <1>4. OtpInv /\ FreshInv
    BY DEF Init, OtpInv, FreshInv, NoSession
  <1>5. ResendInv
    <2>0. /\ hours = 0
          /\ \A d \in Callers : pc[d] = "idle" /\ sends[d] = 0 /\ began[d] = hours
      BY Zenon DEF Init
    <2>1. hours <= hours
      BY <1>1 DEF TypeOK
    <2>2. ~fresh
      BY DEF Init
    <2>3. "idle" \notin Critical
      BY DEF Critical
    <2>4. QED
      BY <2>0, <2>1, <2>2, <2>3, Zenon DEF ResendInv
  <1>6. RenewInv
    <2>1. /\ otp = config.otp /\ otpUsed = FALSE
          /\ \A d \in Callers : pc[d] = "idle" /\ result[d] = "none"
      BY Zenon DEF Init
    <2>2. config.otp => otp
      BY <2>1
    <2>3. CodeInv /\ NamedInv
      BY <2>1 DEF CodeInv, NamedInv
    <2>4. OtpSessionRenewed
      BY <2>1 DEF OtpSessionRenewed
    <2>5. QED
      BY <2>1, <2>2, <2>3, <2>4 DEF RenewInv, Renewable, Prepared
  <1>7. QED
    BY <1>1, <1>2, <1>3, <1>4, <1>5, <1>6 DEF IndInv

(* Who is in a critical section holds the mutex, whatever c does.          *)
LEMMA StepMutual ==
  ASSUME "ticket" \notin Ops, TypeOK, Mutual, NEW c \in Callers, Step(c)
  PROVE  Mutual'
  <1> SUFFICES ASSUME NEW d \in Callers
               PROVE  (/\ pc[d] \in Critical <=> mutex = d
                       /\ pc[d] # "idle" => op[d] # "none"
                       /\ pc[d] \in {"headers", "csrf", "sent"} => op[d] \in Requests)'
    BY DEF Mutual
  <1> USE CallersAssumption
      DEF TypeOK, Mutual, Critical, Goto, Return, Unlock, client, local
  <1>0. op[c] # "ticket"
    BY OpsAssumption
  <1>1. CASE TokenHeader(c) \/ NoHeader(c) \/ TicketHeader(c) \/ CSRFHeader(c)
    BY <1>1 DEF TokenHeader, NoHeader, TicketHeader, CSRFHeader
  <1>2. CASE Answered(c) \/ RequestFails(c) \/ Refused(c)
    BY <1>2 DEF Answered, RequestFails, Refused
  <1>3. CASE Lock(c)
    BY <1>3 DEF Lock, CanLock, AfterLock
  <1>4. CASE ReadSession(c)
    BY <1>4 DEF ReadSession
  <1>5. CASE SessionExists(c)
    BY <1>0, <1>5 DEF SessionExists
  <1>6. CASE NeedsTicket(c) \/ Renew(c)
    BY <1>6 DEF NeedsTicket, Renew
  <1>7. CASE NothingToRenew(c)
    BY <1>0, <1>7 DEF NothingToRenew
  <1>8. CASE TakeCredentials(c) \/ ClearOtp(c) \/ Issue(c)
    BY <1>8 DEF TakeCredentials, ClearOtp, Issue
  <1>9. CASE PostRefused(c) \/ PostFails(c)
    BY <1>0, <1>9 DEF PostRefused, PostFails, PostError
  <1>10. CASE Allocate(c) \/ DecodeTicket(c) \/ DecodeCSRF(c)
    BY <1>10 DEF Allocate, DecodeTicket, DecodeCSRF, Written
  <1>11. CASE Posted(c)
    <2>1. mutex' = Free /\ op' = op /\ pc[c] = "posted"
      BY <1>0, <1>11 DEF Posted
    <2>2. /\ op[c] \in Requests => pc' = [pc EXCEPT ![c] = "headers"]
          /\ op[c] \notin Requests => pc' = [pc EXCEPT ![c] = "idle"]
      BY <1>11 DEF Posted
    <2>3. QED
      BY <2>1, <2>2
  <1>12. QED
    BY <1>1, <1>2, <1>3, <1>4, <1>5, <1>6, <1>7, <1>8, <1>9, <1>10, <1>11 DEF Step

(* The session is whole but where its holder is writing it.                *)
LEMMA StepSession ==
  ASSUME "ticket" \notin Ops, TypeOK, Mutual, SessionInv, NEW c \in Callers, Step(c)
  PROVE  SessionInv'
  <1> USE CallersAssumption
      DEF TypeOK, Mutual, Critical, Goto, Return, Unlock, client, local, server
  <1>0. op[c] # "ticket"
    BY OpsAssumption
  <1>1. CASE TokenHeader(c) \/ NoHeader(c) \/ TicketHeader(c) \/ CSRFHeader(c)
    BY <1>1 DEF TokenHeader, NoHeader, TicketHeader, CSRFHeader, SessionInv, Whole, Decoding
  <1>2. CASE Answered(c) \/ RequestFails(c) \/ Refused(c)
    BY <1>2 DEF Answered, RequestFails, Refused, SessionInv, Whole, Decoding
  <1>3. CASE Lock(c)
    BY <1>3 DEF Lock, CanLock, AfterLock, SessionInv, Whole, Decoding
  <1>4. CASE ReadSession(c)
    BY <1>4 DEF ReadSession, SessionInv, Whole, Decoding
  <1>5. CASE SessionExists(c)
    BY <1>0, <1>5 DEF SessionExists, SessionInv, Whole, Decoding
  <1>6. CASE NeedsTicket(c) \/ Renew(c)
    BY <1>6 DEF NeedsTicket, Renew, SessionInv, Whole, Decoding
  <1>7. CASE NothingToRenew(c)
    BY <1>0, <1>7 DEF NothingToRenew, SessionInv, Whole, Decoding
  <1>8. CASE TakeCredentials(c) \/ ClearOtp(c)
    <2>1. /\ mutex = c /\ UNCHANGED <<mutex, session, issued, got, todo>>
          /\ pc[c] \in {"creds", "clear"} /\ pc'[c] \in {"clear", "post"}
      BY <1>8 DEF TakeCredentials, ClearOtp
    <2>2. \A d \in Callers : d # c => pc'[d] = pc[d]
      BY <1>8 DEF TakeCredentials, ClearOtp
    <2>3. Whole' /\ Whole /\ \A d \in Callers : Decoding(d)' <=> Decoding(d)
      BY <2>1 DEF SessionInv, Whole, Decoding
    <2>4. QED
      BY <2>1, <2>2, <2>3 DEF SessionInv
  <1>9. CASE PostRefused(c) \/ PostFails(c)
    BY <1>0, <1>9 DEF PostRefused, PostFails, PostError, SessionInv, Whole, Decoding
  <1>10. CASE Issue(c)
    <2>1. /\ mutex = c /\ mutex' = mutex /\ session' = session /\ issued' = issued + 1
          /\ pc[c] = "post" /\ got'[c] = issued' /\ todo' = todo
          /\ pc' = [pc EXCEPT ![c] = "reply"]
      BY <1>10 DEF Issue
    <2>2. \A d \in Callers : d # c => pc'[d] = pc[d] /\ pc[d] \notin Critical
      BY <2>1
    <2>3. Whole /\ (session.set => session.ticket > 0 /\ issued > 0)
      BY <2>1 DEF SessionInv
    <2>4. session.ticket \in Nat /\ Whole'
      BY <2>1, <2>3 DEF Whole, Sessions
    <2>5. QED
      BY <2>1, <2>2, <2>3, <2>4 DEF SessionInv, Whole
  <1>11. CASE Allocate(c)
    BY <1>11 DEF Allocate, Allocated, NoSession, SessionInv, Whole, Decoding, Fields, Sessions
  <1>12. CASE DecodeTicket(c)
    <2>1. /\ mutex = c /\ mutex' = mutex /\ issued' = issued /\ got' = got
          /\ pc[c] = "decode" /\ "ticket" \in todo[c] /\ todo'[c] = todo[c] \ {"ticket"}
      BY <1>12 DEF DecodeTicket, Written
    <2>2. pc'[c] = IF todo[c] = {"ticket"} THEN "posted" ELSE "decode"
      BY <1>12 DEF DecodeTicket, Written
    <2>3. \A d \in Callers : d # c => pc'[d] = pc[d] /\ pc[d] \notin Critical
      BY <1>12, <2>1 DEF DecodeTicket, Written
    <2>4. /\ session'.set = session.set /\ session'.ticket = got[c]
          /\ session'.csrf = session.csrf
      BY <1>12 DEF DecodeTicket, Sessions
    <2>5. Decoding(c) /\ (session.set => issued > 0)
      BY <2>1 DEF SessionInv
    <2>6. CASE todo[c] = Fields
      <3>1. todo'[c] = {"csrf"} /\ pc'[c] = "decode"
        BY <2>1, <2>2, <2>6 DEF Fields
      <3>2. Decoding(c)'
        BY <2>1, <2>4, <2>5, <2>6, <3>1 DEF Decoding, Whole, Fields
      <3>3. QED
        BY <2>1, <2>3, <2>4, <2>5, <3>1, <3>2 DEF SessionInv
    <2>7. CASE todo[c] = {"ticket"}
      <3>1. pc'[c] = "posted"
        BY <2>2, <2>7
      <3>2. Whole' /\ session'.set /\ session'.ticket = issued'
        BY <2>1, <2>4, <2>5, <2>7 DEF Decoding, Whole, Fields, Sessions
      <3>3. QED
        BY <2>1, <2>3, <2>4, <2>5, <3>1, <3>2 DEF SessionInv
    <2>8. QED
      BY <2>1, <2>5, <2>6, <2>7 DEF Decoding
  <1>13. CASE DecodeCSRF(c)
    <2>1. /\ mutex = c /\ mutex' = mutex /\ issued' = issued /\ got' = got
          /\ pc[c] = "decode" /\ "csrf" \in todo[c] /\ todo'[c] = todo[c] \ {"csrf"}
      BY <1>13 DEF DecodeCSRF, Written
    <2>2. pc'[c] = IF todo[c] = {"csrf"} THEN "posted" ELSE "decode"
      BY <1>13 DEF DecodeCSRF, Written
    <2>3. \A d \in Callers : d # c => pc'[d] = pc[d] /\ pc[d] \notin Critical
      BY <1>13, <2>1 DEF DecodeCSRF, Written
    <2>4. /\ session'.set = session.set /\ session'.csrf = got[c]
          /\ session'.ticket = session.ticket
      BY <1>13 DEF DecodeCSRF, Sessions
    <2>5. Decoding(c) /\ (session.set => issued > 0)
      BY <2>1 DEF SessionInv
    <2>6. CASE todo[c] = Fields
      <3>1. todo'[c] = {"ticket"} /\ pc'[c] = "decode"
        BY <2>1, <2>2, <2>6 DEF Fields
      <3>2. Decoding(c)'
        BY <2>1, <2>4, <2>5, <2>6, <3>1 DEF Decoding, Whole, Fields
      <3>3. QED
        BY <2>1, <2>3, <2>4, <2>5, <3>1, <3>2 DEF SessionInv
    <2>7. CASE todo[c] = {"csrf"}
      <3>1. pc'[c] = "posted"
        BY <2>2, <2>7
      <3>2. Whole' /\ session'.set /\ session'.ticket = issued'
        BY <2>1, <2>4, <2>5, <2>7 DEF Decoding, Whole, Fields, Sessions
      <3>3. QED
        BY <2>1, <2>3, <2>4, <2>5, <3>1, <3>2 DEF SessionInv
    <2>8. QED
      BY <2>1, <2>5, <2>6, <2>7 DEF Decoding
  <1>14. CASE Posted(c)
    BY <1>0, <1>14 DEF Posted, SessionInv, Whole, Decoding
  <1>15. QED
    BY <1>1, <1>2, <1>3, <1>4, <1>5, <1>6, <1>7, <1>8, <1>9, <1>10, <1>11, <1>12, <1>13,
       <1>14 DEF Step

(* Only a session that is there becomes fresh.                             *)
LEMMA StepFresh ==
  ASSUME TypeOK, Mutual, SessionInv, FreshInv, NEW c \in Callers, Step(c)
  PROVE  FreshInv'
  <1>1. (session.set => session'.set) /\ (~session'.set => session' = session)
    BY DEF TypeOK, Sessions, client, Allocated, NoSession, SessionInv, Decoding, Step,
       TokenHeader, NoHeader, TicketHeader, CSRFHeader, Answered, RequestFails, Refused, Lock,
       ReadSession, SessionExists, NeedsTicket, Renew, NothingToRenew, TakeCredentials,
       ClearOtp, Issue, PostRefused, PostFails, Allocate, DecodeTicket, DecodeCSRF, Written,
       Posted
  <1>2. CASE Posted(c)
    <2>1. session.set
      BY <1>2 DEF Posted, SessionInv
    <2>2. QED
      BY <1>1, <2>1 DEF FreshInv
  <1>3. CASE ~Posted(c)
    <2>1. fresh' = fresh
      BY <1>3 DEF client, Step, TokenHeader, NoHeader, TicketHeader, CSRFHeader, Answered,
         RequestFails, Refused, Lock, ReadSession, SessionExists, NeedsTicket, Renew,
         NothingToRenew, TakeCredentials, ClearOtp, Issue, PostRefused, PostFails, Allocate,
         DecodeTicket, DecodeCSRF, Written
    <2>2. QED
      BY <1>1, <2>1 DEF FreshInv
  <1>4. QED
    BY <1>2, <1>3

(* The code is counted once, as it is cleared.                             *)
LEMMA StepOtp ==
  ASSUME TypeOK, Mutual, OtpInv, NEW c \in Callers, Step(c)
  PROVE  OtpInv'
  <1> USE DEF TypeOK, Mutual, OtpInv, Critical, Goto, Return, client, local, server, ghost
  <1>1. CASE TakeCredentials(c)
    BY <1>1 DEF TakeCredentials, PasswordPost
  <1>2. CASE ClearOtp(c)
    BY <1>2 DEF ClearOtp
  <1>3. CASE \/ TokenHeader(c) \/ NoHeader(c) \/ TicketHeader(c) \/ CSRFHeader(c)
            \/ Answered(c) \/ RequestFails(c) \/ Refused(c)
    BY <1>3 DEF TokenHeader, NoHeader, TicketHeader, CSRFHeader, Answered, RequestFails, Refused
  <1>4. CASE \/ Lock(c) \/ ReadSession(c) \/ SessionExists(c) \/ NeedsTicket(c)
            \/ Renew(c) \/ NothingToRenew(c)
    BY <1>4 DEF Lock, AfterLock, ReadSession, SessionExists, NeedsTicket, Renew, NothingToRenew
  <1>5. CASE \/ Issue(c) \/ PostRefused(c) \/ PostFails(c) \/ Allocate(c)
            \/ DecodeTicket(c) \/ DecodeCSRF(c) \/ Posted(c)
    <2>1. UNCHANGED <<otp, otpPosts, post>>
      BY <1>5 DEF Issue, PostRefused, PostFails, Allocate, DecodeTicket, DecodeCSRF, Written, Posted
    <2>2. \A d \in Callers : pc'[d] = "clear" => pc[d] = "clear"
      <3>1. CASE Issue(c) \/ PostRefused(c) \/ PostFails(c)
        BY <3>1 DEF Issue, PostRefused, PostFails, PostError
      <3>2. CASE Allocate(c) \/ Posted(c)
        BY <3>2 DEF Allocate, Posted
      <3>3. CASE DecodeTicket(c) \/ DecodeCSRF(c)
        <4>1. \E p \in {"decode", "posted"} : pc' = [pc EXCEPT ![c] = p]
          BY <3>3 DEF DecodeTicket, DecodeCSRF, Written
        <4>2. QED
          BY <4>1
      <3>4. QED
        BY <1>5, <3>1, <3>2, <3>3
    <2>3. QED
      BY <2>1, <2>2
  <1>6. QED
    BY <1>1, <1>2, <1>3, <1>4, <1>5 DEF Step

(* A resend is paid for by a stale session, which it makes fresh.          *)
LEMMA StepResend ==
  ASSUME "ticket" \notin Ops, TypeOK, Mutual, FreshInv, ResendInv, NEW c \in Callers, Step(c)
  PROVE  ResendInv'
  <1> USE DEF TypeOK, Mutual, ResendInv, Critical, Goto, Return, client, local, server, ghost
  <1>1. CASE Posted(c)
    <2>1. /\ hours' = hours /\ began' = began /\ op' = op /\ pc[c] = "posted" /\ mutex = c
      BY <1>1 DEF Posted
    <2>2. \A d \in Callers \ {c} :
            pc'[d] = pc[d] /\ pc[d] \notin Critical /\ sends'[d] = sends[d]
      BY <1>1, <2>1 DEF Posted
    <2>3. CASE op[c] \in Requests
      <3>1. pc'[c] = "headers" /\ sends'[c] = sends[c] + 1
        BY <1>1, <2>3 DEF Posted
      <3>2. fresh'
        BY <1>1, <2>3 DEF Posted, Requests
      <3>3. ~fresh /\ sends[c] <= 1 + (hours - began[c])
        BY <2>1, <2>3
      <3>4. QED
        BY <2>1, <2>2, <2>3, <3>1, <3>2, <3>3
    <2>4. CASE op[c] \notin Requests
      <3>1. pc'[c] = "idle" /\ sends' = sends
        BY <1>1, <2>4 DEF Posted
      <3>2. fresh => fresh'
        BY <1>1 DEF Posted
      <3>3. QED
        BY <2>1, <2>2, <2>4, <3>1, <3>2
    <2>5. QED
      BY <2>3, <2>4
  <1>2. CASE NeedsTicket(c)
    <2>1. ~fresh
      BY <1>2 DEF NeedsTicket, FreshInv
    <2>2. QED
      BY <1>2, <2>1 DEF NeedsTicket
  <1>3. CASE Lock(c)
    BY <1>3 DEF Lock, AfterLock, Requests
  <1>4. CASE ~Posted(c) /\ ~NeedsTicket(c) /\ ~Lock(c)
    <2>1. UNCHANGED <<fresh, hours, began, op, sends>>
      BY <1>4 DEF Step, TokenHeader, NoHeader, TicketHeader, CSRFHeader, Answered, RequestFails,
         Refused, ReadSession, SessionExists, Renew, NothingToRenew, TakeCredentials, ClearOtp,
         Issue, PostRefused, PostFails, PostError, Allocate, DecodeTicket, DecodeCSRF, Written
    <2>2. \A d \in Callers :
            /\ pc'[d] # "idle" => pc[d] # "idle"
            /\ pc'[d] \in Critical \ {"check"} => pc[d] \in Critical \ {"check"}
      <3>1. CASE \/ TokenHeader(c) \/ NoHeader(c) \/ TicketHeader(c) \/ CSRFHeader(c)
                \/ Answered(c) \/ RequestFails(c) \/ Refused(c)
        BY <3>1 DEF TokenHeader, NoHeader, TicketHeader, CSRFHeader, Answered, RequestFails, Refused
      <3>2. CASE \/ ReadSession(c) \/ SessionExists(c) \/ Renew(c) \/ NothingToRenew(c)
                \/ TakeCredentials(c) \/ ClearOtp(c)
        BY <3>2 DEF ReadSession, SessionExists, Renew, NothingToRenew, TakeCredentials, ClearOtp
      <3>3. CASE \/ Issue(c) \/ PostRefused(c) \/ PostFails(c) \/ Allocate(c)
                \/ DecodeTicket(c) \/ DecodeCSRF(c)
        BY <3>3 DEF Issue, PostRefused, PostFails, PostError, Allocate, DecodeTicket, DecodeCSRF,
                    Written
      <3>4. QED
        BY <1>4, <3>1, <3>2, <3>3 DEF Step
    <2>3. QED
      BY <2>1, <2>2
  <1>5. QED
    BY <1>1, <1>2, <1>3, <1>4

(* A step that leaves the session, the code, what is posted and the server *)
(* alone, and brings no caller to a place that RenewInv speaks of, keeps   *)
(* RenewInv; once an error has happened only part of it is left to keep.   *)
LEMMA RenewKept ==
  ASSUME RenewInv,
         UNCHANGED <<config, session, otp, op, post, todo, issued, dead, otpUsed>>,
         faulty => faulty',
         \A d \in Callers : pc'[d] \in {"clear", "post", "decode"} => pc'[d] = pc[d],
         Honoured' =>
           \A d \in Callers :
             /\ pc'[d] = "creds" => pc[d] = "creds" \/ op[d] = "login"
             /\ Spent(d) => pc'[d] = pc[d]
             /\ op[d] = "create" /\ result'[d] = "unauthorized" => result[d] = "unauthorized"
  PROVE  RenewInv'
  <1>1. CodeInv' /\ NamedInv'
    BY DEF RenewInv, CodeInv, NamedInv
  <1>2. CASE Honoured'
    <2>1. Honoured
      BY <1>2 DEF Honoured
    <2>2. OtpSessionRenewed'
      BY <2>1, <1>2 DEF RenewInv, OtpSessionRenewed, Honoured
    <2>3. (config.otp => Renewable)'
      BY <2>1, <1>2 DEF RenewInv, Renewable, Spent
    <2>4. \A d \in Callers : op'[d] # "login" => Prepared(d)'
      <3> SUFFICES ASSUME NEW d \in Callers, op[d] # "login" PROVE Prepared(d)'
        OBVIOUS
      <3>1. Prepared(d)
        BY <2>1 DEF RenewInv
      <3>2. Accepts(post[d])' <=> Accepts(post[d])
        BY DEF Accepts, Live
      <3>3. QED
        BY <1>2, <3>1, <3>2 DEF Prepared
    <2>5. QED
      BY <1>1, <2>2, <2>3, <2>4 DEF RenewInv
  <1>3. CASE ~Honoured'
    BY <1>1, <1>3 DEF RenewInv
  <1>4. QED
    BY <1>2, <1>3

(* A request, the lock, and the ways back: none of them says unauthorized  *)
(* to CreateSession.                                                       *)
LEMMA StepRenewKept ==
  ASSUME "ticket" \notin Ops, TypeOK, Mutual, RenewInv, NEW c \in Callers,
         \/ TokenHeader(c) \/ NoHeader(c) \/ TicketHeader(c) \/ CSRFHeader(c)
         \/ Answered(c) \/ RequestFails(c) \/ Refused(c)
         \/ Lock(c) \/ ReadSession(c) \/ SessionExists(c) \/ PostFails(c) \/ Posted(c)
  PROVE  RenewInv'
  <1>1. /\ UNCHANGED <<config, session, otp, op, post, todo, issued, dead, otpUsed>>
        /\ \A d \in Callers \ {c} : pc'[d] = pc[d] /\ result'[d] = result[d]
    BY DEF TokenHeader, NoHeader, TicketHeader, CSRFHeader, Answered, RequestFails, Refused, Lock,
           ReadSession, SessionExists, PostFails, PostError, Posted, Goto, Return, TypeOK,
           client, local, server, ghost
  <1>2. faulty => faulty'
    BY DEF TokenHeader, NoHeader, TicketHeader, CSRFHeader, Answered, RequestFails, Refused, Lock,
           ReadSession, SessionExists, PostFails, Posted, ghost
  <1>3. CASE PostFails(c)
    <2>1. ~Honoured' /\ pc'[c] \in {"creds", "idle"}
      BY <1>3 DEF PostFails, PostError, Return, Honoured, TypeOK
    <2>2. QED
      BY <1>1, <1>2, <2>1, RenewKept
  <1>4. CASE TokenHeader(c) \/ NoHeader(c) \/ TicketHeader(c) \/ CSRFHeader(c)
    <2>1. pc[c] \in {"headers", "csrf"} /\ pc'[c] \in {"csrf", "sent"} /\ result' = result
      BY <1>4 DEF TokenHeader, NoHeader, TicketHeader, CSRFHeader, Goto, TypeOK
    <2>2. QED
      BY <1>1, <1>2, <2>1, RenewKept DEF Spent
  <1>5. CASE Answered(c) \/ RequestFails(c) \/ Refused(c)
    <2>1. pc[c] = "sent" /\ pc'[c] \in {"lock", "idle"} /\ op[c] \in Requests
      BY <1>5 DEF Answered, RequestFails, Refused, Return, TypeOK, Mutual
    <2>2. QED
      BY <1>1, <1>2, <2>1, RenewKept DEF Spent, Requests
  <1>6. CASE Lock(c)
    <2>1. pc[c] = "lock" /\ pc'[c] \in {"renew", "creds", "check"} /\ result' = result
          /\ (pc'[c] = "creds" => op[c] = "login")
      BY <1>6 DEF Lock, AfterLock, Goto, TypeOK
    <2>2. QED
      BY <1>1, <1>2, <2>1, RenewKept DEF Spent
  <1>7. CASE ReadSession(c) \/ SessionExists(c) \/ Posted(c)
    <2>1. pc[c] \in {"lock", "check", "posted"} /\ pc'[c] \in {"idle", "headers"}
          /\ (op[c] = "create" => result'[c] \in {"ok", "exists"})
      BY <1>7 DEF ReadSession, SessionExists, Posted, Return, TypeOK, Requests
    <2>2. QED
      BY <1>1, <1>2, <2>1, RenewKept DEF Spent
  <1>8. QED
    BY <1>3, <1>4, <1>5, <1>6, <1>7

(* Where a renewal begins nobody else is at the POST: with the code spent  *)
(* the session knows its user.                                             *)
LEMMA HolderRenewable ==
  ASSUME Mutual, RenewInv, Honoured, config.otp, NEW c \in Callers,
         pc[c] \in {"check", "renew", "creds", "clear"}
  PROVE  otp \/ (session.set /\ session.named)
  <1>1. \A d \in Callers : ~Spent(d)
    BY DEF Spent, Mutual, Critical
  <1>2. QED
    BY <1>1 DEF RenewInv, Renewable

(* The check, the renewal and the way from it to the credentials.          *)
LEMMA StepRenewChecked ==
  ASSUME "ticket" \notin Ops, TypeOK, Mutual, SessionInv, RenewInv, NEW c \in Callers,
         NeedsTicket(c) \/ NothingToRenew(c) \/ Renew(c)
  PROVE  RenewInv'
  <1>1. /\ UNCHANGED <<config, session, otp, op, todo, issued, dead, otpUsed, faulty>>
        /\ pc[c] \in {"check", "renew"} /\ pc'[c] \in {"renew", "creds", "idle", "post"}
        /\ \A d \in Callers \ {c} :
              pc'[d] = pc[d] /\ result'[d] = result[d] /\ post'[d] = post[d]
    BY DEF NeedsTicket, NothingToRenew, Renew, Goto, Return, TypeOK, client, local, server, ghost
  <1>2. session.set => session.ticket > 0 /\ session.ticket <= issued
    BY <1>1 DEF SessionInv, Critical, Whole
  <1>3. pc'[c] = "post" =>
          post'[c] = [kind |-> "ticket", valid |-> session.named, otp |-> FALSE, serial |-> session.ticket]
          /\ session.set
    BY DEF NeedsTicket, NothingToRenew, Renew, Goto, Return, TypeOK
  <1>4. /\ pc'[c] = "creds" => ~session.set
        /\ op[c] = "create" /\ result'[c] = "unauthorized" => result[c] = "unauthorized"
    BY <1>2 DEF NeedsTicket, NothingToRenew, Renew, Goto, Return, TypeOK, Sessions
  <1>5. CodeInv'
    BY <1>1, <1>3 DEF RenewInv, CodeInv
  <1>6. NamedInv'
    BY <1>1 DEF RenewInv, NamedInv
  <1>7. CASE Honoured'
    <2>1. Honoured
      BY <1>1, <1>7 DEF Honoured
    <2>2. OtpSessionRenewed'
      BY <2>1, <1>1, <1>4 DEF RenewInv, OtpSessionRenewed, Honoured
    <2>3. config.otp => otp \/ (session.set /\ session.named)
      BY <1>1, <2>1, HolderRenewable
    <2>4. (config.otp => Renewable)'
      BY <1>1, <2>3 DEF Renewable
    <2>5. \A d \in Callers \ {c} : op[d] # "login" => Prepared(d)'
      <3> SUFFICES ASSUME NEW d \in Callers \ {c}, op[d] # "login" PROVE Prepared(d)'
        OBVIOUS
      <3>1. Prepared(d)
        BY <2>1 DEF RenewInv
      <3>2. Accepts(post[d])' <=> Accepts(post[d])
        BY <1>1 DEF Accepts, Live
      <3>3. QED
        BY <1>1, <3>1, <3>2 DEF Prepared
    <2>6. Prepared(c)'
      <3>1. pc'[c] = "creds" /\ config.otp => otp
        BY <1>4, <2>3
      <3>2. CASE pc'[c] = "post" /\ session.named
        <4>1. Accepts(post[c])'
          BY <1>1, <1>2, <1>3, <2>1, <3>2 DEF Accepts, Live, Honoured, TypeOK, Sessions
        <4>2. QED
          BY <3>2, <4>1 DEF Prepared
      <3>3. CASE pc'[c] = "post" /\ ~session.named
        BY <1>1, <1>3, <2>3, <3>3 DEF Prepared
      <3>4. CASE pc'[c] # "post"
        BY <1>1, <3>1, <3>4 DEF Prepared
      <3>5. QED
        BY <3>2, <3>3, <3>4
    <2>7. \A d \in Callers : op'[d] # "login" => Prepared(d)'
      BY <1>1, <2>5, <2>6
    <2>8. QED
      BY <1>5, <1>6, <2>2, <2>4, <2>7 DEF RenewInv
  <1>8. CASE ~Honoured'
    BY <1>5, <1>6, <1>8 DEF RenewInv
  <1>9. QED
    BY <1>7, <1>8

(* The credentials: the code is taken, then cleared, and then accepted.    *)
LEMMA StepRenewCredentials ==
  ASSUME "ticket" \notin Ops, TypeOK, Mutual, OtpInv, RenewInv, NEW c \in Callers,
         TakeCredentials(c) \/ ClearOtp(c)
  PROVE  RenewInv'
  <1>1. /\ UNCHANGED <<config, session, op, todo, result, issued, dead, otpUsed, faulty>>
        /\ pc[c] \in {"creds", "clear"} /\ pc'[c] \in {"clear", "post"}
        /\ \A d \in Callers \ {c} : pc'[d] = pc[d] /\ post'[d] = post[d]
        /\ \A d \in Callers \ {c} : pc[d] \notin Critical
    BY DEF TakeCredentials, ClearOtp, Goto, TypeOK, Mutual, Critical, client, local, server, ghost
  <1>2. \A d \in Callers \ {c} : ~Spent(d) /\ Prepared(d)'
    BY <1>1 DEF Spent, Prepared, Critical
  <1>3. NamedInv'
    BY <1>1 DEF RenewInv, NamedInv
  <1>4. (OtpSessionRenewed' /\ Honoured) \/ ~Honoured'
    BY <1>1 DEF RenewInv, OtpSessionRenewed, Honoured
  <1>5. CASE TakeCredentials(c)
    <2>1. /\ otp' = otp /\ pc[c] = "creds"
          /\ pc'[c] = IF op[c] = "login" THEN "post" ELSE "clear"
          /\ post'[c] = PasswordPost(otp /\ op[c] # "login" /\ config.creds # "none")
      BY <1>5 DEF TakeCredentials, Goto, TypeOK, client
    <2>2. /\ post'[c].kind = "password" /\ post'[c].valid = (config.creds = "good")
          /\ post'[c].otp = (otp /\ op[c] # "login" /\ config.creds # "none")
      BY <2>1 DEF PasswordPost
    <2>3. CodeInv'
      BY <1>1, <2>1, <2>2 DEF RenewInv, CodeInv, Critical
    <2>4. CASE Honoured'
      <3>1. Honoured
        BY <1>1, <2>4 DEF Honoured
      <3>2. (config.otp => Renewable)'
        BY <1>1, <2>1, <3>1, HolderRenewable DEF Renewable
      <3>3. op'[c] # "login" => Prepared(c)'
        BY <1>1, <2>1, <2>2, <3>1, Zenon DEF RenewInv, Prepared, Honoured
      <3>4. QED
        BY <1>2, <1>3, <1>4, <2>3, <2>4, <3>2, <3>3 DEF RenewInv
    <2>5. CASE ~Honoured'
      BY <1>3, <2>3, <2>5 DEF RenewInv
    <2>6. QED
      BY <2>4, <2>5
  <1>6. CASE ClearOtp(c)
    <2>1. /\ post' = post /\ pc[c] = "clear" /\ pc'[c] = "post"
          /\ otp' = IF post[c].otp THEN FALSE ELSE otp
      BY <1>6 DEF ClearOtp, Goto, TypeOK, local
    <2>2. /\ post[c].otp => ~otp' /\ otp
          /\ otp' => otp
          /\ ~post[c].otp => otp' = otp
      BY <2>1 DEF OtpInv
    <2>3. CodeInv'
      BY <1>1, <2>1, <2>2 DEF RenewInv, CodeInv, Critical
    <2>4. CASE Honoured'
      <3>1. Honoured
        BY <1>1, <2>4 DEF Honoured
      <3>2. (config.otp => Renewable)'
        <4>1. CASE post[c].otp
          <5>1. Spent(c)'
            BY <2>1, <4>1 DEF Spent
          <5>2. QED
            BY <5>1 DEF Renewable
        <4>2. CASE ~post[c].otp
          BY <1>1, <2>2, <3>1, <4>2, HolderRenewable DEF Renewable
        <4>3. QED
          BY <4>1, <4>2
      <3>3. op'[c] # "login" => Prepared(c)'
        <4> SUFFICES ASSUME op[c] # "login" PROVE Accepts(post[c])'
          BY <1>1, <2>1 DEF Prepared
        <4>1. post[c].kind = "password" /\ post[c].valid /\ (config.otp => post[c].otp)
          BY <1>1, <2>1, <3>1 DEF RenewInv, Prepared
        <4>2. config.otp => ~otpUsed
          BY <2>2, <4>1 DEF RenewInv, CodeInv
        <4>3. QED
          BY <1>1, <2>1, <4>1, <4>2 DEF Accepts
      <3>4. QED
        BY <1>2, <1>3, <1>4, <2>3, <2>4, <3>2, <3>3 DEF RenewInv
    <2>5. CASE ~Honoured'
      BY <1>3, <2>3, <2>5 DEF RenewInv
    <2>6. QED
      BY <2>4, <2>5
  <1>7. QED
    BY <1>5, <1>6

(* The POST: it is refused only when the code is still there.              *)
LEMMA StepRenewPosted ==
  ASSUME "ticket" \notin Ops, TypeOK, Mutual, OtpInv, RenewInv, NEW c \in Callers,
         Issue(c) \/ PostRefused(c)
  PROVE  RenewInv'
  <1>1. /\ UNCHANGED <<config, session, otp, op, post, todo, dead, faulty>>
        /\ pc[c] = "post"
        /\ \A d \in Callers \ {c} : pc'[d] = pc[d] /\ result'[d] = result[d]
        /\ \A d \in Callers \ {c} : pc[d] \notin Critical
    BY DEF Issue, PostRefused, PostError, Goto, Return, TypeOK, Mutual, Critical,
           client, local, server, ghost
  <1>2. \A d \in Callers \ {c} : ~Spent(d) /\ Prepared(d)'
    BY <1>1 DEF Spent, Prepared, Critical
  <1>3. CASE Issue(c)
    <2>1. /\ pc'[c] = "reply" /\ result' = result
          /\ otpUsed' => otpUsed \/ post[c].otp
      BY <1>3 DEF Issue, Goto, TypeOK
    <2>2. CodeInv'
      BY <1>1, <2>1 DEF RenewInv, CodeInv
    <2>3. NamedInv'
      BY <1>1, <2>1 DEF RenewInv, NamedInv
    <2>4. CASE Honoured'
      <3>1. Honoured
        BY <1>1, <2>4 DEF Honoured
      <3>2. OtpSessionRenewed'
        BY <1>1, <2>1, <3>1 DEF RenewInv, OtpSessionRenewed, Honoured
      <3>3. (config.otp => Renewable)'
        BY <1>1, <1>2, <2>1, <3>1 DEF RenewInv, Renewable, Spent
      <3>4. Prepared(c)'
        BY <2>1 DEF Prepared
      <3>5. QED
        BY <1>2, <2>2, <2>3, <3>2, <3>3, <3>4 DEF RenewInv
    <2>5. CASE ~Honoured'
      BY <2>2, <2>3, <2>5 DEF RenewInv
    <2>6. QED
      BY <2>4, <2>5
  <1>4. CASE PostRefused(c)
    <2>1. /\ otpUsed' = otpUsed /\ ~Accepts(post[c])
          /\ \/ /\ post[c].kind = "ticket" /\ op[c] # "refresh"
                /\ pc'[c] = "creds" /\ result' = result
             \/ /\ post[c].kind # "ticket" \/ op[c] = "refresh"
                /\ pc'[c] = "idle"
      BY <1>4 DEF PostRefused, PostError, Return, TypeOK, server
    <2>2. CodeInv' /\ NamedInv'
      BY <1>1, <2>1 DEF RenewInv, CodeInv, NamedInv
    <2>3. CASE Honoured'
      <3>1. Honoured
        BY <1>1, <2>3 DEF Honoured
      <3>2. op[c] # "login" => post[c].kind = "ticket" /\ (config.otp => otp)
        BY <1>1, <2>1, <3>1 DEF RenewInv, Prepared
      <3>3. OtpSessionRenewed'
        BY <1>1, <2>1, <3>1, <3>2 DEF RenewInv, OtpSessionRenewed, Honoured
      <3>4. op'[c] # "login" => Prepared(c)'
        BY <1>1, <2>1, <3>2 DEF Prepared
      <3>5. (config.otp => Renewable)'
        <4>1. config.otp => ~Spent(c)
          BY <1>1, <3>2 DEF Spent, RenewInv, CodeInv
        <4>2. QED
          BY <1>1, <1>2, <3>1, <4>1 DEF RenewInv, Renewable
      <3>6. QED
        BY <1>2, <2>2, <3>3, <3>4, <3>5 DEF RenewInv
    <2>4. CASE ~Honoured'
      BY <2>2, <2>4 DEF RenewInv
    <2>5. QED
      BY <2>3, <2>4
  <1>5. QED
    BY <1>3, <1>4

(* The decoding: the session that the code has paid for knows its user     *)
(* once its ticket is written.                                             *)
LEMMA StepRenewDecoded ==
  ASSUME "ticket" \notin Ops, TypeOK, Mutual, SessionInv, RenewInv, NEW c \in Callers,
         Allocate(c) \/ DecodeTicket(c) \/ DecodeCSRF(c)
  PROVE  RenewInv'
  <1>1. /\ UNCHANGED <<config, otp, op, post, result, issued, dead, otpUsed, faulty>>
        /\ pc[c] \in {"reply", "decode"} /\ pc'[c] \in {"decode", "posted"}
        /\ \A d \in Callers \ {c} : pc'[d] = pc[d]
        /\ \A d \in Callers \ {c} : pc[d] \notin Critical
    BY DEF Allocate, DecodeTicket, DecodeCSRF, Written, Goto, TypeOK, Mutual, Critical,
           client, local, server, ghost
  <1>2. \A d \in Callers \ {c} : ~Spent(d) /\ Prepared(d)'
    BY <1>1 DEF Spent, Prepared, Critical
  <1>3. CodeInv'
    BY <1>1 DEF RenewInv, CodeInv
  <1>4. /\ pc'[c] = "decode" /\ "ticket" \notin todo'[c] => session'.named
        /\ pc'[c] = "posted" => session'.set /\ session'.named
        /\ session.set /\ session.named => session'.set /\ session'.named
    <2>1. CASE Allocate(c)
      <3>1. /\ pc'[c] = "decode" /\ "ticket" \in todo'[c]
            /\ session.set => session' = session
        BY <2>1 DEF Allocate, Goto, Fields, TypeOK
      <3>2. QED
        BY <3>1
    <2>2. CASE DecodeTicket(c)
      <3>1. /\ session' = [session EXCEPT !.ticket = got[c], !.named = TRUE]
            /\ pc[c] = "decode"
        BY <2>2 DEF DecodeTicket, Written
      <3>2. session'.named /\ session'.set = session.set
        BY <3>1 DEF TypeOK, Sessions
      <3>3. session.set
        BY <3>1 DEF SessionInv, Decoding
      <3>4. QED
        BY <3>2, <3>3
    <2>3. CASE DecodeCSRF(c)
      <3>1. /\ session' = [session EXCEPT !.csrf = got[c]] /\ pc[c] = "decode" /\ "csrf" \in todo[c]
            /\ todo'[c] = todo[c] \ {"csrf"}
            /\ pc'[c] = "posted" => todo[c] = {"csrf"}
        BY <2>3 DEF DecodeCSRF, Written, TypeOK
      <3>2. session'.named = session.named /\ session'.set = session.set
        BY <3>1 DEF TypeOK, Sessions
      <3>3. session.set
        BY <3>1 DEF SessionInv, Decoding
      <3>4. "ticket" \notin todo[c] => session.named
        BY <3>1 DEF RenewInv, NamedInv
      <3>5. QED
        BY <3>1, <3>2, <3>3, <3>4
    <2>4. QED
      BY <2>1, <2>2, <2>3
  <1>5. NamedInv'
    BY <1>1, <1>4 DEF NamedInv, Critical
  <1>6. CASE Honoured'
    <2>1. Honoured
      BY <1>1, <1>6 DEF Honoured
    <2>2. OtpSessionRenewed'
      BY <1>1, <2>1 DEF RenewInv, OtpSessionRenewed, Honoured
    <2>3. (config.otp => Renewable)'
      <3>1. CASE pc'[c] = "posted"
        BY <1>4, <3>1 DEF Renewable
      <3>2. CASE pc'[c] = "decode"
        <4>1. Spent(c) => Spent(c)'
          BY <1>1, <3>2 DEF Spent
        <4>2. QED
          BY <1>1, <1>2, <1>4, <2>1, <4>1 DEF RenewInv, Renewable
      <3>3. QED
        BY <1>1, <3>1, <3>2
    <2>4. Prepared(c)'
      BY <1>1 DEF Prepared
    <2>5. QED
      BY <1>2, <1>3, <1>5, <2>2, <2>3, <2>4 DEF RenewInv
  <1>7. CASE ~Honoured'
    BY <1>3, <1>5, <1>7 DEF RenewInv
  <1>8. QED
    BY <1>6, <1>7

(* All the steps of a caller.                                              *)
LEMMA StepRenew ==
  ASSUME "ticket" \notin Ops, TypeOK, Mutual, SessionInv, OtpInv, RenewInv, NEW c \in Callers, Step(c)
  PROVE  RenewInv'
  BY StepRenewKept, StepRenewChecked, StepRenewCredentials, StepRenewPosted, StepRenewDecoded DEF Step

(* A call that begins has not been refused.                                *)
LEMMA CallRenew ==
  ASSUME "ticket" \notin Ops, IndInv, NEW c \in Callers, NEW o \in Ops, Call(c, o)
  PROVE  RenewInv'
  <1>1. /\ UNCHANGED <<config, session, otp, post, todo, issued, dead, otpUsed, faulty>>
        /\ pc[c] = "idle" /\ pc'[c] \in {"headers", "lock"} /\ result'[c] = "none"
        /\ \A d \in Callers \ {c} : pc'[d] = pc[d] /\ op'[d] = op[d] /\ result'[d] = result[d]
    BY DEF IndInv, TypeOK, Call, Goto, Entry, client, server, Requests
  <1>2. CodeInv' /\ NamedInv'
    BY <1>1 DEF IndInv, RenewInv, CodeInv, NamedInv
  <1>3. CASE Honoured'
    <2>1. Honoured /\ RenewInv
      BY <1>1, <1>3 DEF Honoured, IndInv
    <2>2. OtpSessionRenewed'
      BY <1>1, <2>1 DEF RenewInv, OtpSessionRenewed, Honoured
    <2>3. (config.otp => Renewable)'
      BY <1>1, <2>1 DEF RenewInv, Renewable, Spent
    <2>4. \A d \in Callers : op'[d] # "login" => Prepared(d)'
      <3> SUFFICES ASSUME NEW d \in Callers \ {c}, op[d] # "login" PROVE Prepared(d)'
        BY <1>1 DEF Prepared
      <3>1. Prepared(d)
        BY <2>1 DEF RenewInv
      <3>2. Accepts(post[d])' <=> Accepts(post[d])
        BY <1>1 DEF Accepts, Live
      <3>3. QED
        BY <1>1, <3>1, <3>2 DEF Prepared
    <2>5. QED
      BY <1>2, <2>2, <2>3, <2>4 DEF RenewInv
  <1>4. CASE ~Honoured'
    BY <1>2, <1>4 DEF RenewInv
  <1>5. QED
    BY <1>3, <1>4

(* Time, the token and a stutter do not touch it; a revocation ends its    *)
(* premise.                                                                *)
LEMMA EnvironmentRenew ==
  ASSUME IndInv, HourPasses \/ Revoke \/ (\E c \in Callers : APIToken(c)) \/ UNCHANGED vars
  PROVE  RenewInv'
  <1>1. CASE Revoke
    <2>1. /\ UNCHANGED <<session, otp, op, post, todo, pc, otpUsed>>
          /\ dead' # 0
      BY <1>1 DEF Revoke, client, local, IndInv, TypeOK
    <2>2. QED
      BY <2>1 DEF IndInv, RenewInv, CodeInv, NamedInv, Honoured
  <1>2. CASE HourPasses \/ (\E c \in Callers : APIToken(c)) \/ UNCHANGED vars
    <2>1. UNCHANGED <<config, session, otp, op, post, todo, issued, dead, otpUsed, faulty, pc, result>>
      BY <1>2 DEF HourPasses, APIToken, vars, client, local, server, ghost
    <2>2. RenewInv
      BY DEF IndInv
    <2>3. QED
      BY <2>1, <2>2, RenewKept DEF Spent
  <1>3. QED
    BY <1>1, <1>2

(* A call begins with nothing sent too often and nothing held.             *)
LEMMA CallInd ==
  ASSUME "ticket" \notin Ops, IndInv, NEW c \in Callers, NEW o \in Ops, Call(c, o)
  PROVE  Mutual' /\ SessionInv' /\ FreshInv' /\ OtpInv' /\ ResendInv'
  <1> USE DEF IndInv, TypeOK, Call, Goto, Entry, client, local, server, ghost
  <1>1. /\ UNCHANGED <<client, got, todo, server, hours, otpPosts>>
        /\ pc[c] = "idle" /\ pc' = [pc EXCEPT ![c] = Entry(o)]
        /\ op' = [op EXCEPT ![c] = o] /\ o # "ticket" /\ o # "none"
        /\ Entry(o) \in {"headers", "lock"} /\ (Entry(o) = "headers" => o \in Requests)
    BY OpsAssumption DEF AllOps, Requests
  <1>2. post' = post
    BY <1>1
  <1>3. Mutual'
    BY <1>1 DEF Mutual, Critical
  <1>4. SessionInv'
    BY <1>1 DEF SessionInv, Critical, Whole, Decoding
  <1>5. OtpInv' /\ FreshInv'
    BY <1>1, <1>2 DEF OtpInv, FreshInv
  <1>6. sends' = [sends EXCEPT ![c] = IF o \in Requests THEN 1 ELSE 0]
        /\ began' = [began EXCEPT ![c] = hours]
    OBVIOUS
  <1>7. ResendInv'
    BY <1>1, <1>6 DEF ResendInv, Critical
  <1>8. QED
    BY <1>3, <1>4, <1>5, <1>7

(* An hour, a revocation or a token takes nothing from the invariant.      *)
LEMMA EnvironmentInd ==
  ASSUME IndInv, HourPasses \/ Revoke \/ (\E c \in Callers : APIToken(c)) \/ UNCHANGED vars
  PROVE  Mutual' /\ SessionInv' /\ FreshInv' /\ OtpInv' /\ ResendInv'
  <1> USE DEF IndInv, TypeOK, HourPasses, Revoke, APIToken, vars, client, local, server, ghost
  <1>1. UNCHANGED <<session, mutex, otp, local, issued, otpPosts, began>>
    OBVIOUS
  <1>2. Mutual' /\ SessionInv' /\ OtpInv'
    BY <1>1 DEF Mutual, SessionInv, Whole, Decoding, OtpInv
  <1>3. \/ hours' = hours /\ fresh' = fresh
        \/ hours' = hours + 1 /\ ~fresh'
    OBVIOUS
  <1>4. ResendInv'
    BY <1>1, <1>3 DEF ResendInv
  <1>5. fresh' => fresh
    BY Zenon
  <1>6. FreshInv'
    BY <1>1, <1>5 DEF FreshInv
  <1>7. QED
    BY <1>2, <1>4, <1>6

(* The whole invariant is inductive.                                       *)
LEMMA NextInd ==
  ASSUME "ticket" \notin Ops
  PROVE  IndInv /\ [Next]_vars => IndInv'
  <1> SUFFICES ASSUME IndInv, [Next]_vars PROVE IndInv'
    OBVIOUS
  <1>1. TypeOK'
    BY NextType DEF IndInv
  <1>2. ASSUME NEW c \in Callers, NEW o \in Ops, Call(c, o) PROVE IndInv'
    BY <1>1, <1>2, CallInd, CallRenew DEF IndInv
  <1>3. ASSUME NEW c \in Callers, Step(c) PROVE IndInv'
    BY <1>1, <1>3, StepMutual, StepSession, StepFresh, StepOtp, StepResend,
       StepRenew DEF IndInv
  <1>4. CASE HourPasses \/ Revoke \/ (\E c \in Callers : APIToken(c)) \/ UNCHANGED vars
    BY <1>1, <1>4, EnvironmentInd, EnvironmentRenew DEF IndInv
  <1>5. QED
    BY <1>2, <1>3, <1>4 DEF Next

(* It holds throughout.                                                    *)
LEMMA Inductive ==
  ASSUME "ticket" \notin Ops
  PROVE  Spec => []IndInv
  <1>1. IndInv /\ [Next]_vars => IndInv'
    BY NextInd
  <1>2. QED
    BY InitInd, <1>1, PTL DEF Spec

-----------------------------------------------------------------------------
(* What follows.                                                           *)

(* The one-time code is posted at most once.                               *)
THEOREM OtpOnce ==
  ASSUME "ticket" \notin Ops
  PROVE  Spec => []OtpPostedOnce
  <1>1. IndInv => OtpPostedOnce
    BY DEF IndInv, OtpInv, OtpPostedOnce
  <1>2. QED
    BY Inductive, <1>1, PTL

(* A client of a one-time code is never refused by CreateSession while the *)
(* server honours its tickets and the network answers.                     *)
THEOREM OtpSessionKept ==
  ASSUME "ticket" \notin Ops
  PROVE  Spec => []OtpSessionRenewed
  <1>1. IndInv => OtpSessionRenewed
    BY DEF IndInv, RenewInv, Honoured, OtpSessionRenewed
  <1>2. QED
    BY Inductive, <1>1, PTL

(* With the mutex free the session is one whole reply of the server.       *)
THEOREM WholeWhenFree ==
  ASSUME "ticket" \notin Ops
  PROVE  Spec => []SessionWhole
  <1>1. IndInv => SessionWhole
    BY DEF IndInv, TypeOK, SessionInv, SessionWhole, Whole, Sessions
  <1>2. QED
    BY Inductive, <1>1, PTL

(* The recursion of Req is bounded by the hours that pass.                 *)
THEOREM ResendsBounded ==
  ASSUME "ticket" \notin Ops
  PROVE  Spec => []ResendBound
  <1>1. IndInv => ResendBound
    <2> SUFFICES ASSUME IndInv, NEW c \in Callers, pc[c] # "idle"
                 PROVE  sends[c] <= 2 + (hours - began[c])
      BY DEF ResendBound
    <2>1. CASE op[c] \in Requests
      BY <2>1 DEF IndInv, ResendInv
    <2>2. CASE op[c] \notin Requests
      BY <2>2 DEF IndInv, ResendInv, TypeOK
    <2>3. QED
      BY <2>1, <2>2
  <1>2. QED
    BY Inductive, <1>1, PTL

-----------------------------------------------------------------------------
(* Refinement of TicketCell.                                               *)

(* Only the holder of the mutex decodes, so the cell is what it has not    *)
(* yet overwritten.                                                        *)
LEMMA CellOf ==
  ASSUME Mutual, NEW c \in Callers, mutex = c
  PROVE  SessionCell = IF pc[c] = "decode" /\ todo[c] = {"csrf"}
                         THEN session.csrf ELSE session.ticket
  <1>1. \A d \in Callers : pc[d] = "decode" => d = c
    BY DEF Mutual, Critical
  <1>2. QED
    BY <1>1 DEF SessionCell

(* Writing the first field leaves the cell alone, the second installs it.  *)
LEMMA DecodeCell ==
  ASSUME "ticket" \notin Ops, IndInv, Mutual', NEW c \in Callers,
         DecodeTicket(c) \/ DecodeCSRF(c)
  PROVE  Cell!Install \/ UNCHANGED <<SessionCell, issued>>
  <1> USE DEF IndInv, TypeOK
  <1>1. /\ mutex = c /\ mutex' = c /\ issued' = issued
        /\ pc[c] = "decode" /\ Decoding(c)
    <2>1. pc[c] = "decode" /\ mutex' = mutex /\ issued' = issued
      BY DEF DecodeTicket, DecodeCSRF, Written, server
    <2>2. mutex = c
      BY <2>1 DEF Mutual, Critical
    <2>3. Decoding(c)
      BY <2>1 DEF SessionInv
    <2>4. QED
      BY <2>1, <2>2, <2>3
  <1>2. SessionCell = (IF todo[c] = {"csrf"} THEN session.csrf ELSE session.ticket)
    BY <1>1, CellOf
  <1>3. SessionCell' = (IF pc'[c] = "decode" /\ todo'[c] = {"csrf"}
                          THEN session'.csrf ELSE session'.ticket)
    BY <1>1, CellOf DEF SessionCell, Mutual, Critical
  <1>4. CASE DecodeTicket(c)
    <2>1. /\ session'.ticket = got[c] /\ session'.csrf = session.csrf
          /\ "ticket" \in todo[c] /\ todo'[c] = todo[c] \ {"ticket"}
          /\ todo[c] # {"ticket"} => pc' = pc
          /\ todo[c] = {"ticket"} => pc'[c] = "posted"
      BY <1>4 DEF DecodeTicket, Written, Sessions
    <2>2. CASE todo[c] = Fields
      <3>1. todo'[c] = {"csrf"} /\ todo[c] # {"csrf"} /\ todo[c] # {"ticket"}
        BY <2>1, <2>2 DEF Fields
      <3>2. session.csrf = session.ticket
        BY <1>1, <2>2 DEF Decoding, Whole, Fields
      <3>3. QED
        BY <1>1, <1>2, <1>3, <2>1, <3>1, <3>2
    <2>3. CASE todo[c] = {"ticket"}
      <3>1. SessionCell = session.ticket /\ SessionCell' = issued /\ session.ticket < issued
        BY <1>1, <1>2, <1>3, <2>1, <2>3 DEF Decoding, Fields
      <3>2. QED
        BY <1>1, <3>1 DEF Cell!Install
    <2>4. QED
      BY <1>1, <2>1, <2>2, <2>3 DEF Decoding
  <1>5. CASE DecodeCSRF(c)
    <2>1. /\ session'.csrf = got[c] /\ session'.ticket = session.ticket
          /\ "csrf" \in todo[c] /\ todo'[c] = todo[c] \ {"csrf"}
          /\ todo[c] = {"csrf"} => pc'[c] = "posted"
      BY <1>5 DEF DecodeCSRF, Written, Sessions
    <2>2. CASE todo[c] = Fields
      <3>1. todo'[c] # {"csrf"} /\ todo[c] # {"csrf"}
        BY <2>1, <2>2 DEF Fields
      <3>2. QED
        BY <1>1, <1>2, <1>3, <2>1, <3>1
    <2>3. CASE todo[c] = {"csrf"}
      <3>1. SessionCell = session.csrf /\ SessionCell' = issued /\ session.csrf < issued
        BY <1>1, <1>2, <1>3, <2>1, <2>3 DEF Decoding, Fields
      <3>2. QED
        BY <1>1, <3>1 DEF Cell!Install
    <2>4. QED
      BY <1>1, <2>1, <2>2, <2>3 DEF Decoding
  <1>6. QED
    BY <1>4, <1>5

(* Allocating the session leaves the cell at no ticket.                    *)
LEMMA AllocateCell ==
  ASSUME IndInv, NEW c \in Callers, Allocate(c)
  PROVE  UNCHANGED <<SessionCell, issued>>
  <1> USE DEF IndInv, TypeOK, Goto
  <1>1. mutex = c /\ pc[c] = "reply"
    BY DEF Allocate, Mutual, Critical
  <1>2. \A d \in Callers : pc[d] # "decode"
    BY <1>1 DEF Mutual, Critical
  <1>3. \A d \in Callers : pc'[d] = "decode" => todo'[d] # {"csrf"}
    BY <1>1, <1>2 DEF Allocate, Fields
  <1>4. session'.ticket = session.ticket
    BY DEF Allocate, Allocated, NoSession, FreshInv, Sessions
  <1>5. QED
    BY <1>2, <1>3, <1>4 DEF SessionCell, Allocate, server

(* Every other step leaves the session, and who decodes it, alone.         *)
LEMMA OtherCell ==
  ASSUME IndInv, NEW c \in Callers, Step(c),
         ~Allocate(c), ~DecodeTicket(c), ~DecodeCSRF(c)
  PROVE  Cell!Issue \/ UNCHANGED <<SessionCell, issued>>
  <1> USE DEF IndInv, TypeOK, Goto, Return, client, local, server
  <1>1. /\ session' = session /\ todo' = todo
        /\ issued' = issued \/ issued' = issued + 1
    BY DEF Step, TokenHeader, NoHeader, TicketHeader, CSRFHeader, Answered, RequestFails,
       Refused, Lock, ReadSession, SessionExists, NeedsTicket, Renew, NothingToRenew,
       TakeCredentials, ClearOtp, Issue, PostRefused, PostFails, Posted
  <1>2. \A d \in Callers : pc'[d] = "decode" <=> pc[d] = "decode"
    BY DEF Step, TokenHeader, NoHeader, TicketHeader, CSRFHeader, Answered, RequestFails,
       Refused, Lock, AfterLock, ReadSession, SessionExists, NeedsTicket, Renew,
       NothingToRenew, TakeCredentials, ClearOtp, Issue, PostRefused, PostFails, PostError,
       Posted
  <1>3. SessionCell' = SessionCell
    BY <1>1, <1>2 DEF SessionCell
  <1>4. QED
    BY <1>1, <1>3 DEF Cell!Issue

(* To those who hold the lock the session is one cell, always replaced by  *)
(* the newest ticket of the server.                                        *)
THEOREM Refinement ==
  ASSUME "ticket" \notin Ops
  PROVE  Spec => ImplementsTicketCell
  <1>1. Init => Cell!Init
    <2> SUFFICES ASSUME Init PROVE Cell!Init
      OBVIOUS
    <2>1. SessionCell = session.ticket
      BY DEF Init, SessionCell
    <2>2. session.ticket = issued /\ issued \in {0, 1}
      BY DEF Init, NoSession
    <2>3. QED
      BY <2>1, <2>2 DEF Cell!Init
  <1>2. IndInv /\ IndInv' /\ [Next]_vars => [Cell!Next]_<<SessionCell, issued>>
    <2> SUFFICES ASSUME IndInv, IndInv', [Next]_vars
                 PROVE  Cell!Next \/ UNCHANGED <<SessionCell, issued>>
      OBVIOUS
    <2>1. ASSUME NEW c \in Callers, Step(c)
          PROVE  Cell!Next \/ UNCHANGED <<SessionCell, issued>>
      BY <2>1, DecodeCell, AllocateCell, OtherCell DEF Cell!Next, IndInv
    <2>2. ASSUME NEW c \in Callers, NEW o \in Ops, Call(c, o)
          PROVE  UNCHANGED <<SessionCell, issued>>
      <3>1. session' = session /\ todo' = todo /\ issued' = issued
        BY <2>2 DEF Call, client, server
      <3>2. \A d \in Callers : pc'[d] = "decode" <=> pc[d] = "decode"
        BY <2>2 DEF Call, Goto, Entry, IndInv, TypeOK
      <3>3. QED
        BY <3>1, <3>2 DEF SessionCell
    <2>3. CASE HourPasses \/ Revoke \/ (\E c \in Callers : APIToken(c)) \/ UNCHANGED vars
      BY <2>3 DEF HourPasses, Revoke, APIToken, vars, client, local, server, SessionCell
    <2>4. QED
      BY <2>1, <2>2, <2>3 DEF Next
  <1>3. QED
    BY <1>1, <1>2, Inductive, PTL DEF Spec, ImplementsTicketCell, Cell!Spec
=============================================================================
