------------------------------ MODULE Session ------------------------------
(***************************************************************************)
(* The session of a go-proxmox Client (access.go, proxmox.go): goroutines  *)
(* that share one *Client call its request methods, CreateSession,         *)
(* RefreshTicket, Login, Ticket, Session and APIToken.                     *)
(*                                                                         *)
(* c.session, c.sessionExpiresAt and c.otp are written under c.sessionMux, *)
(* except by the exported Ticket, which takes no lock; authHeaders reads   *)
(* c.session and c.token with no lock, in two separate reads of the        *)
(* session's fields.  The POST to /access/ticket decodes its reply into    *)
(* &c.session field by field, so an unlocked reader can see it half done.  *)
(*                                                                         *)
(* Tickets are serial numbers in the order the server issued them; 0 is a  *)
(* string that is no ticket (empty, or torn by a racing write).  The       *)
(* server (PVE) is external: it is what the client's code assumes of it.   *)
(***************************************************************************)
EXTENDS Naturals

CONSTANTS
  Callers,   \* the goroutines that share the Client
  Ops,       \* the calls they make, a subset of AllOps
  Configs,   \* the option sets a Client is built with, a subset of AllConfigs
  MaxCalls,  \* bound: calls a caller makes in all
  MaxHours   \* bound: times an hour passes

Requests == {"get", "put", "forbidden"}
AllOps   == Requests \cup {"create", "refresh", "login", "ticket", "session", "apitoken"}

AllConfigs ==
  [ creds : {"none", "good", "bad"},  \* WithCredentials: none, accepted, or refused by PVE
    token : {"none", "good", "bad"},  \* WithAPIToken
    otp   : BOOLEAN,                  \* WithOTP, and the account demands a second factor
    given : BOOLEAN ]                 \* WithSession

Free == "free"

ASSUME CallersAssumption == Free \notin Callers
ASSUME OpsAssumption     == Ops \subseteq AllOps
ASSUME ConfigsAssumption == Configs \subseteq AllConfigs
ASSUME BoundsAssumption  == MaxCalls \in Nat /\ MaxHours \in Nat

VARIABLES
  config,    \* the options of this Client; they never change
  session,   \* c.session: NoSession, or the fields the code reads
  fresh,     \* now is before c.sessionExpiresAt
  mutex,     \* c.sessionMux: the caller that holds it, or Free
  otp,       \* c.otp is not yet consumed
  token,     \* c.token
  pc, op,    \* where each caller is, and in which call
  hdr,       \* the auth headers of its request
  post,      \* the credentials it posts to /access/ticket
  got,       \* the serial of the ticket in the reply it decodes
  todo,      \* the fields of that reply it has still to write
  sends,     \* how often it has sent its request
  result,    \* what its last call returned
  issued,    \* server: serial of the last ticket issued
  dead,      \* server: tickets up to this serial are expired or revoked
  otpUsed,   \* server: the one-time code has been accepted
  calls, hours,            \* spent bounds
  otpPosts, faulty, began  \* history: one-time codes posted, a network error
                           \* has happened, hours when a caller's call began

client == <<session, fresh, mutex, otp, token>>
local  == <<pc, op, hdr, post, got, todo, sends, result>>
server == <<issued, dead, otpUsed>>
ghost  == <<calls, hours, otpPosts, faulty, began>>
vars   == <<config, client, local, server, ghost>>

NoSession == [set |-> FALSE, ticket |-> 0, csrf |-> 0, named |-> FALSE]
Allocated == [NoSession EXCEPT !.set = TRUE]   \* the new(Session) json.Unmarshal allocates
Fields    == {"ticket", "csrf"}

Sessions == [set : BOOLEAN, ticket : Nat, csrf : Nat, named : BOOLEAN]
Headers  == [token : {"none", "good", "bad"}, ticket : Nat, csrf : Nat]
Posts    == [kind : {"password", "ticket"}, valid : BOOLEAN, otp : BOOLEAN, serial : Nat]
Results  == {"none", "ok", "unauthorized", "exists", "nosession", "error"}
Places   == {"idle", "headers", "csrf", "sent", "lock", "check", "renew", "creds",
             "clear", "post", "reply", "decode", "posted"}

Init ==
  /\ config \in Configs
  /\ session = IF config.given THEN [set |-> TRUE, ticket |-> 1, csrf |-> 1, named |-> FALSE]
                               ELSE NoSession
  /\ fresh = FALSE
  /\ mutex = Free
  /\ otp = config.otp
  /\ token = config.token
  /\ pc = [c \in Callers |-> "idle"]
  /\ op = [c \in Callers |-> "none"]
  /\ hdr = [c \in Callers |-> [token |-> "none", ticket |-> 0, csrf |-> 0]]
  /\ post = [c \in Callers |-> [kind |-> "password", valid |-> FALSE, otp |-> FALSE, serial |-> 0]]
  /\ got = [c \in Callers |-> 0]
  /\ todo = [c \in Callers |-> {}]
  /\ sends = [c \in Callers |-> 0]
  /\ result = [c \in Callers |-> "none"]
  /\ issued = (IF config.given THEN 1 ELSE 0)
  /\ dead = 0
  /\ otpUsed = FALSE
  /\ calls = [c \in Callers |-> 0]
  /\ hours = 0
  /\ otpPosts = 0
  /\ faulty = FALSE
  /\ began = [c \in Callers |-> 0]

-----------------------------------------------------------------------------
(* What the server does with headers and with credentials.                 *)

Live(n) == dead < n /\ n <= issued

Authenticated(h, o) ==
  IF h.token # "none" THEN h.token = "good"
                      ELSE Live(h.ticket) /\ (o = "put" => Live(h.csrf))

Accepts(p) ==
  IF p.kind = "ticket" THEN p.valid /\ Live(p.serial)
                       ELSE p.valid /\ (config.otp => p.otp /\ ~otpUsed)

-----------------------------------------------------------------------------
(* Steps of a caller.                                                      *)

Goto(c, from, to) == pc[c] = from /\ pc' = [pc EXCEPT ![c] = to]

(* The call returns r to the application. *)
Return(c, r) ==
  /\ pc' = [pc EXCEPT ![c] = "idle"]
  /\ result' = [result EXCEPT ![c] = r]

(* Where each call begins: Req at its headers, Ticket at its POST, the     *)
(* others at sessionMux.Lock().                                            *)
Entry(o) == IF o \in Requests THEN "headers" ELSE IF o = "ticket" THEN "post" ELSE "lock"

PasswordPost(withOtp) ==
  [kind |-> "password", valid |-> config.creds = "good", otp |-> withOtp, serial |-> 0]

Call(c, o) ==
  /\ calls[c] < MaxCalls
  /\ o # "apitoken"
  /\ Goto(c, "idle", Entry(o))
  /\ calls' = [calls EXCEPT ![c] = @ + 1]
  /\ op' = [op EXCEPT ![c] = o]
  /\ sends' = [sends EXCEPT ![c] = IF o \in Requests THEN 1 ELSE 0]
  /\ result' = [result EXCEPT ![c] = "none"]
  /\ began' = [began EXCEPT ![c] = hours]
  /\ post' = IF o = "ticket" THEN [post EXCEPT ![c] = PasswordPost(FALSE)] ELSE post
  /\ UNCHANGED <<config, client, hdr, got, todo, server, hours, otpPosts, faulty>>

APIToken(c) ==
  /\ pc[c] = "idle" /\ calls[c] < MaxCalls
  /\ token' = "good"
  /\ calls' = [calls EXCEPT ![c] = @ + 1]
  /\ UNCHANGED <<config, session, fresh, mutex, otp, local, server,
                 hours, otpPosts, faulty, began>>

(* authHeaders.  A string that another goroutine is storing may be torn.   *)
Torn(f) == \E d \in Callers : pc[d] = "decode" /\ f \in todo[d]

Seen(f, value) == {value} \cup (IF Torn(f) THEN {0} ELSE {})

TokenHeader(c) ==
  /\ token # "none"
  /\ Goto(c, "headers", "sent")
  /\ hdr' = [hdr EXCEPT ![c] = [token |-> token, ticket |-> 0, csrf |-> 0]]
  /\ UNCHANGED <<config, client, op, post, got, todo, sends, result, server, ghost>>

NoHeader(c) ==
  /\ token = "none" /\ ~session.set
  /\ Goto(c, "headers", "sent")
  /\ hdr' = [hdr EXCEPT ![c] = [token |-> "none", ticket |-> 0, csrf |-> 0]]
  /\ UNCHANGED <<config, client, op, post, got, todo, sends, result, server, ghost>>

TicketHeader(c) ==
  /\ token = "none" /\ session.set
  /\ Goto(c, "headers", "csrf")
  /\ \E t \in Seen("ticket", session.ticket) :
       hdr' = [hdr EXCEPT ![c] = [token |-> "none", ticket |-> t, csrf |-> 0]]
  /\ UNCHANGED <<config, client, op, post, got, todo, sends, result, server, ghost>>

CSRFHeader(c) ==
  /\ Goto(c, "csrf", "sent")
  /\ \E t \in Seen("csrf", session.csrf) : hdr' = [hdr EXCEPT ![c].csrf = t]
  /\ UNCHANGED <<config, client, op, post, got, todo, sends, result, server, ghost>>

(* Req, after httpClient.Do: the answer, or an error of an interceptor, of *)
(* the network or of the server.                                           *)
Answered(c) ==
  /\ pc[c] = "sent"
  /\ Authenticated(hdr[c], op[c]) /\ op[c] # "forbidden"
  /\ Return(c, "ok")
  /\ UNCHANGED <<config, client, op, hdr, post, got, todo, sends, server, ghost>>

RequestFails(c) ==
  /\ pc[c] = "sent"
  /\ Return(c, "error")
  /\ faulty' = TRUE
  /\ UNCHANGED <<config, client, op, hdr, post, got, todo, sends, server,
                 calls, hours, otpPosts, began>>

(* 401 or 403: with credentials, Req goes through CreateSession.           *)
Refused(c) ==
  /\ pc[c] = "sent"
  /\ ~Authenticated(hdr[c], op[c]) \/ op[c] = "forbidden"
  /\ IF config.creds # "none"
       THEN pc' = [pc EXCEPT ![c] = "lock"] /\ UNCHANGED result
       ELSE Return(c, "unauthorized")
  /\ UNCHANGED <<config, client, op, hdr, post, got, todo, sends, server, ghost>>

(* sessionMux.Lock(), and what each call does under it first.              *)
AfterLock(o) == CASE o = "refresh" -> "renew"
                  [] o = "login"   -> "creds"
                  [] OTHER         -> "check"

(* Mutant: the mutex is not taken.                                         *)
CanLockAlways == TRUE

CanLock == mutex = Free

Lock(c) ==
  /\ CanLock
  /\ op[c] # "session"
  /\ Goto(c, "lock", AfterLock(op[c]))
  /\ mutex' = c
  /\ UNCHANGED <<config, session, fresh, otp, token, op, hdr, post, got, todo, sends, result,
                 server, ghost>>

(* Session() does nothing but read the pointer under the lock.             *)
ReadSession(c) ==
  /\ CanLock
  /\ pc[c] = "lock" /\ op[c] = "session"
  /\ Return(c, "ok")
  /\ UNCHANGED <<config, client, op, hdr, post, got, todo, sends, server, ghost>>

(* The deferred sessionMux.Unlock(), which Ticket called alone does not do. *)
Unlock(c) == mutex' = IF op[c] = "ticket" THEN mutex ELSE Free

(* Mutant: ErrSessionExists returned bare from Req, where no caller of Req  *)
(* knows it.                                                               *)
SessionExistsBare(c) ==
  /\ pc[c] = "check"
  /\ session.set /\ fresh
  /\ Return(c, IF op[c] = "create" THEN "exists" ELSE "ErrSessionExists")
  /\ Unlock(c)
  /\ UNCHANGED <<config, session, fresh, otp, token, op, hdr, post, got, todo, sends,
                 server, ghost>>

(* CreateSession finds a session it takes to be alive; Req reports that as *)
(* ErrNotAuthorized.                                                       *)
SessionExists(c) ==
  /\ pc[c] = "check"
  /\ session.set /\ fresh
  /\ Return(c, IF op[c] = "create" THEN "exists" ELSE "unauthorized")
  /\ Unlock(c)
  /\ UNCHANGED <<config, session, fresh, otp, token, op, hdr, post, got, todo, sends,
                 server, ghost>>

(* Mutant: CreateSession goes straight to the credentials.                 *)
NeedsTicketNoRenewal(c) ==
  /\ ~(session.set /\ fresh)
  /\ Goto(c, "check", "creds")
  /\ UNCHANGED <<config, client, op, hdr, post, got, todo, sends, result, server, ghost>>

NeedsTicket(c) ==
  /\ ~(session.set /\ fresh)
  /\ Goto(c, "check", IF session.set THEN "renew" ELSE "creds")
  /\ UNCHANGED <<config, client, op, hdr, post, got, todo, sends, result, server, ghost>>

(* refreshTicketLocked: the current ticket is the password.                *)
Renew(c) ==
  /\ session.set /\ session.ticket # 0
  /\ Goto(c, "renew", "post")
  /\ post' = [post EXCEPT ![c] = [kind |-> "ticket", valid |-> session.named,
                                  otp |-> FALSE, serial |-> session.ticket]]
  /\ UNCHANGED <<config, client, op, hdr, got, todo, sends, result, server, ghost>>

NothingToRenew(c) ==
  /\ pc[c] = "renew"
  /\ ~session.set \/ session.ticket = 0
  /\ IF op[c] = "refresh"
       THEN Return(c, "nosession") /\ Unlock(c)
       ELSE pc' = [pc EXCEPT ![c] = "creds"] /\ UNCHANGED <<result, mutex>>
  /\ UNCHANGED <<config, session, fresh, otp, token, op, hdr, post, got, todo, sends,
                 server, ghost>>

(* sessionCredentials: it reads c.otp, then clears it.  Login passes the   *)
(* caller's own credentials.                                               *)
TakeCredentials(c) ==
  /\ Goto(c, "creds", IF op[c] = "login" THEN "post" ELSE "clear")
  /\ post' = [post EXCEPT ![c] = PasswordPost(otp /\ op[c] # "login" /\ config.creds # "none")]
  /\ UNCHANGED <<config, client, op, hdr, got, todo, sends, result, server, ghost>>

(* Mutant: the code is sent and not cleared.                               *)
KeepOtp(c) ==
  /\ Goto(c, "clear", "post")
  /\ otpPosts' = IF post[c].otp THEN otpPosts + 1 ELSE otpPosts
  /\ UNCHANGED <<config, client, op, hdr, post, got, todo, sends, result,
                 server, calls, hours, faulty, began>>

ClearOtp(c) ==
  /\ Goto(c, "clear", "post")
  /\ otp' = IF post[c].otp THEN FALSE ELSE otp
  /\ otpPosts' = IF post[c].otp THEN otpPosts + 1 ELSE otpPosts
  /\ UNCHANGED <<config, session, fresh, mutex, token, op, hdr, post, got, todo, sends, result,
                 server, calls, hours, faulty, began>>

(* POST /access/ticket: the server issues a ticket, or its 401 is          *)
(* ErrNotAuthorized (Req never calls CreateSession for this path), or the  *)
(* request or its reply is lost.                                           *)
Issue(c) ==
  /\ Accepts(post[c])
  /\ Goto(c, "post", "reply")
  /\ issued' = issued + 1
  /\ got' = [got EXCEPT ![c] = issued + 1]
  /\ otpUsed' = (otpUsed \/ post[c].otp)
  /\ UNCHANGED <<config, client, op, hdr, post, todo, sends, result, dead, ghost>>

(* CreateSession whose renewal fails goes on with the credentials; every   *)
(* other failure r is returned.                                            *)
PostError(c, r) ==
  IF post[c].kind = "ticket" /\ op[c] # "refresh"
    THEN pc' = [pc EXCEPT ![c] = "creds"] /\ UNCHANGED <<result, mutex>>
    ELSE Return(c, r) /\ Unlock(c)

(* Mutant: Req handles a 401 of /access/ticket as that of any other path.  *)
PostRefusedRelocks(c) ==
  /\ pc[c] = "post"
  /\ ~Accepts(post[c])
  /\ pc' = [pc EXCEPT ![c] = "lock"]
  /\ UNCHANGED <<config, client, op, hdr, post, got, todo, sends, result, server, ghost>>

PostRefused(c) ==
  /\ pc[c] = "post"
  /\ ~Accepts(post[c])
  /\ PostError(c, "unauthorized")
  /\ UNCHANGED <<config, session, fresh, otp, token, op, hdr, post, got, todo, sends,
                 server, ghost>>

PostFails(c) ==
  /\ pc[c] \in {"post", "reply"}
  /\ PostError(c, "error")
  /\ faulty' = TRUE
  /\ UNCHANGED <<config, session, fresh, otp, token, op, hdr, post, got, todo, sends,
                 server, calls, hours, otpPosts, began>>

(* handleResponse decodes the reply into &c.session: the pointer first, if *)
(* it was nil, then the fields in the order of the reply.                  *)
Allocate(c) ==
  /\ Goto(c, "reply", "decode")
  /\ session' = IF session.set THEN session ELSE Allocated
  /\ todo' = [todo EXCEPT ![c] = Fields]
  /\ UNCHANGED <<config, fresh, mutex, otp, token, op, hdr, post, got, sends, result,
                 server, ghost>>

Written(c, f) ==
  /\ pc[c] = "decode" /\ f \in todo[c]
  /\ todo' = [todo EXCEPT ![c] = @ \ {f}]
  /\ pc' = IF todo[c] = {f} THEN [pc EXCEPT ![c] = "posted"] ELSE pc
  /\ UNCHANGED <<config, fresh, mutex, otp, token, op, hdr, post, got, sends, result,
                 server, ghost>>

DecodeTicket(c) ==
  /\ Written(c, "ticket")
  /\ session' = [session EXCEPT !.ticket = got[c], !.named = TRUE]

DecodeCSRF(c) ==
  /\ Written(c, "csrf")
  /\ session' = [session EXCEPT !.csrf = got[c]]

(* Mutant: CreateSession does not set sessionExpiresAt.                    *)
PostedNoExpiry(c) ==
  /\ pc[c] = "posted"
  /\ Unlock(c)
  /\ IF op[c] \in Requests
       THEN /\ pc' = [pc EXCEPT ![c] = "headers"]
            /\ sends' = [sends EXCEPT ![c] = @ + 1]
            /\ UNCHANGED result
       ELSE Return(c, "ok") /\ UNCHANGED sends
  /\ UNCHANGED <<config, session, fresh, otp, token, op, hdr, post, got, todo, server, ghost>>

(* Ticket returns nil: CreateSession and RefreshTicket reckon an hour from *)
(* now, and a request is sent again.                                       *)
Posted(c) ==
  /\ pc[c] = "posted"
  /\ fresh' = IF op[c] \in {"login", "ticket"} THEN fresh ELSE TRUE
  /\ Unlock(c)
  /\ IF op[c] \in Requests
       THEN /\ pc' = [pc EXCEPT ![c] = "headers"]
            /\ sends' = [sends EXCEPT ![c] = @ + 1]
            /\ UNCHANGED result
       ELSE Return(c, "ok") /\ UNCHANGED sends
  /\ UNCHANGED <<config, session, otp, token, op, hdr, post, got, todo, server, ghost>>

Step(c) ==
  \/ TokenHeader(c) \/ NoHeader(c) \/ TicketHeader(c) \/ CSRFHeader(c)
  \/ Answered(c) \/ RequestFails(c) \/ Refused(c)
  \/ Lock(c) \/ ReadSession(c) \/ SessionExists(c) \/ NeedsTicket(c)
  \/ Renew(c) \/ NothingToRenew(c) \/ TakeCredentials(c) \/ ClearOtp(c)
  \/ Issue(c) \/ PostRefused(c) \/ PostFails(c)
  \/ Allocate(c) \/ DecodeTicket(c) \/ DecodeCSRF(c) \/ Posted(c)

-----------------------------------------------------------------------------
(* The environment: an hour passes; the server drops tickets, by age or    *)
(* all of them at a restart.                                               *)

HourPasses ==
  /\ hours < MaxHours
  /\ hours' = hours + 1
  /\ fresh' = FALSE
  /\ UNCHANGED <<config, session, mutex, otp, token, local, server,
                 calls, otpPosts, faulty, began>>

Revoke ==
  /\ \E n \in (dead + 1)..issued : dead' = n
  /\ UNCHANGED <<config, client, local, issued, otpUsed, ghost>>

Next ==
  \/ \E c \in Callers : \E o \in Ops : Call(c, o)
  \/ \E c \in Callers : "apitoken" \in Ops /\ APIToken(c)
  \/ \E c \in Callers : Step(c)
  \/ HourPasses
  \/ Revoke

Spec == Init /\ [][Next]_vars

(* Every goroutine is scheduled, and every request is answered or fails    *)
(* (WithTimeout, the context, or the connection gives up).  Calls, time    *)
(* and revocations are the environment's: no fairness.                     *)
FairSpec == Spec /\ \A c \in Callers : WF_vars(Step(c))

-----------------------------------------------------------------------------
(* Properties.                                                             *)

TypeOK ==
  /\ config \in Configs
  /\ session \in Sessions
  /\ fresh \in BOOLEAN
  /\ mutex \in Callers \cup {Free}
  /\ otp \in BOOLEAN
  /\ token \in {"none", "good", "bad"}
  /\ pc \in [Callers -> Places]
  /\ op \in [Callers -> Ops \cup {"none"}]
  /\ hdr \in [Callers -> Headers]
  /\ post \in [Callers -> Posts]
  /\ got \in [Callers -> Nat]
  /\ todo \in [Callers -> SUBSET Fields]
  /\ sends \in [Callers -> Nat]
  /\ result \in [Callers -> Results]
  /\ issued \in Nat /\ dead \in Nat /\ otpUsed \in BOOLEAN
  /\ calls \in [Callers -> Nat] /\ hours \in Nat
  /\ otpPosts \in Nat /\ faulty \in BOOLEAN /\ began \in [Callers -> Nat]

(* The one-time code goes into at most one POST, whatever fails and        *)
(* however many goroutines ask for a session at once (access.go:62).       *)
OtpPostedOnce == otpPosts <= 1

(* With sessionMux free the session is whole: its ticket and its CSRF      *)
(* token come from one reply of the server, and it is a real ticket.       *)
SessionWhole ==
  mutex = Free /\ session.set =>
    session.ticket = session.csrf /\ session.ticket \in 1..issued

(* What the lock protects, as one value: the new ticket counts once both   *)
(* fields are written.                                                     *)
SessionCell ==
  IF \E c \in Callers : pc[c] = "decode" /\ todo[c] = {"csrf"}
    THEN session.csrf ELSE session.ticket

Cell == INSTANCE TicketCell WITH cell <- SessionCell

(* The session is a cell that each renewal replaces at once by the newest  *)
(* ticket of the server, so the client never goes back to an older one:    *)
(* each POST and its decoding are one critical section.                    *)
ImplementsTicketCell == Cell!Spec

(* A request is sent at most twice, plus once for each hour that passes    *)
(* while the call runs: the recursion of Req ends.                         *)
ResendBound == \A c \in Callers :
                 pc[c] # "idle" => sends[c] <= 2 + (hours - began[c])

(* While the server honours its tickets and the network answers, a client  *)
(* authenticated with a one-time code never loses its session for want of  *)
(* a second code: CreateSession renews with the ticket (access.go:38-41).  *)
OtpSessionRenewed ==
  config.creds = "good" /\ dead = 0 /\ ~faulty =>
    \A c \in Callers : op[c] = "create" => result[c] # "unauthorized"

(* Every call returns, provided every request is answered or fails.        *)
EveryCallReturns == \A c \in Callers : pc[c] # "idle" ~> pc[c] = "idle"

(* options.go:216-219 says of the unauthenticated first request that "the  *)
(* library retries with the ticket": with good credentials and a server    *)
(* that answers and revokes nothing, a request does not fail as            *)
(* unauthorized that was only ever sent with no ticket.                    *)
RetriedWithTheTicket ==
  config.creds = "good" /\ dead = 0 /\ ~faulty =>
    \A c \in Callers :
      op[c] \in Requests /\ result[c] = "unauthorized" =>
        hdr[c].token # "none" \/ hdr[c].ticket # 0
=============================================================================
