----------------------------- MODULE MCSession -----------------------------
(* Instances of Session for TLC: the option sets and the mixes of calls.   *)
EXTENDS SessionInvariant, TLC, FiniteSets

CONSTANTS c1, c2

Symmetric == Permutations(Callers)

Option(c, t, o, g) == [creds |-> c, token |-> t, otp |-> o, given |-> g]

(* Credentials, alone, with a one-time code, wrong, or over a given session. *)
PasswordConfigs ==
  { Option("good", "none", FALSE, FALSE), Option("good", "none", TRUE, FALSE),
    Option("bad", "none", FALSE, FALSE), Option("good", "none", FALSE, TRUE) }

(* The ways to authenticate that change where a call goes.                 *)
LivenessConfigs ==
  { Option("good", "none", FALSE, FALSE), Option("bad", "none", FALSE, TRUE),
    Option("none", "bad", FALSE, FALSE) }

PlainConfigs == { Option("good", "none", FALSE, FALSE) }

(* One call for each place a call can begin and each way it can end.       *)
EveryEntry == {"get", "create", "refresh", "login", "ticket", "session", "apitoken"}

(* Every call but Ticket, which takes no lock.                             *)
LockedCalls == {"get", "put", "forbidden", "create", "refresh", "login", "session"}
=============================================================================
