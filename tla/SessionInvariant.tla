-------------------------- MODULE SessionInvariant -------------------------
(***************************************************************************)
(* The inductive invariant behind the theorems of SessionProofs.  It holds *)
(* of Clients on which the unlocked Ticket is not called.                  *)
(***************************************************************************)
EXTENDS Session

Critical == {"check", "renew", "creds", "clear", "post", "reply", "decode", "posted"}

(* sessionMux excludes: who is between Lock and Unlock holds it, alone.    *)
Mutual ==
  \A c \in Callers :
    /\ pc[c] \in Critical <=> mutex = c
    /\ pc[c] # "idle" => op[c] # "none"
    /\ pc[c] \in {"headers", "csrf", "sent"} => op[c] \in Requests

(* The session between two replies, and as c writes a reply into it.       *)
Whole == session.ticket = session.csrf /\ session.ticket <= issued

Decoding(c) ==
  /\ session.set
  /\ got[c] = issued
  /\ \/ todo[c] = Fields /\ Whole /\ session.ticket < issued
     \/ todo[c] = {"csrf"} /\ session.ticket = issued /\ session.csrf < issued
     \/ todo[c] = {"ticket"} /\ session.csrf = issued /\ session.ticket < issued

SessionInv ==
  /\ session.set => issued > 0
  /\ mutex = Free => Whole /\ (session.set => session.ticket > 0)
  /\ \A c \in Callers :
       /\ pc[c] \in Critical \ {"decode"} => Whole
       /\ pc[c] \in Critical \ {"reply", "decode"} => (session.set => session.ticket > 0)
       /\ pc[c] = "reply" => /\ got[c] = issued /\ session.ticket < issued
                             /\ session.set => session.ticket > 0
       /\ pc[c] = "decode" => Decoding(c)
       /\ pc[c] = "posted" => session.set /\ session.ticket = issued

(* Without a session there is no ticket, and none that has yet to expire.  *)
FreshInv == ~session.set => ~fresh /\ session.ticket = 0

(* A code not yet consumed was never posted; one taken is not yet cleared. *)
OtpInv ==
  /\ otpPosts <= 1
  /\ otp => otpPosts = 0
  /\ \A c \in Callers : pc[c] = "clear" /\ post[c].otp => otp

(* Past its check CreateSession finds the session still stale, and each    *)
(* send of a request is paid for by a stale session or by an hour.         *)
ResendInv ==
  \A c \in Callers :
    /\ began[c] <= hours
    /\ pc[c] \in Critical \ {"check"} /\ op[c] \in Requests => ~fresh
    /\ pc[c] # "idle" /\ op[c] \in Requests => sends[c] <= 2 + (hours - began[c])
    /\ pc[c] # "idle" /\ op[c] \in Requests /\ ~fresh => sends[c] <= 1 + (hours - began[c])
    /\ op[c] \notin Requests => sends[c] = 0

(* The premise of OtpSessionRenewed: good credentials, no ticket dropped,  *)
(* no error of the network.                                                *)
Honoured == config.creds = "good" /\ dead = 0 /\ ~faulty

(* A one-time code that is spent has become, or is becoming, a session     *)
(* that knows its user and so can be renewed.                              *)
Spent(c) == pc[c] \in {"post", "reply", "decode"} /\ post[c].otp

Renewable == otp \/ (session.set /\ session.named) \/ \E c \in Callers : Spent(c)

(* CreateSession gets to the credentials only with the code in hand, and   *)
(* what it posts is accepted, or is a renewal with the code still there.   *)
Prepared(c) ==
  /\ pc[c] = "creds" /\ config.otp => otp
  /\ pc[c] = "clear" => /\ post[c].kind = "password" /\ post[c].valid
                        /\ config.otp => post[c].otp
  /\ pc[c] = "post" => Accepts(post[c]) \/ (post[c].kind = "ticket" /\ (config.otp => otp))

(* A code that is posted or used is not taken again; Login posts none.     *)
CodeInv ==
  /\ otpUsed => ~otp
  /\ \A c \in Callers : /\ pc[c] = "clear" => op[c] # "login"
                        /\ pc[c] = "post" /\ post[c].otp => ~otp /\ op[c] # "login"

NamedInv == \A c \in Callers : pc[c] = "decode" /\ "ticket" \notin todo[c] => session.named

RenewInv ==
  /\ CodeInv /\ NamedInv
  /\ Honoured => /\ OtpSessionRenewed
                 /\ config.otp => Renewable
                 /\ \A c \in Callers : op[c] # "login" => Prepared(c)

IndInv == TypeOK /\ Mutual /\ SessionInv /\ FreshInv /\ OtpInv /\ ResendInv /\ RenewInv
=============================================================================
