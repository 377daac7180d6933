------------------------------ MODULE MCRetry ------------------------------
(* Instances of RetryTransport for TLC.  Ten bits for sixty-four, four *)
(* units to the second: 127 seconds are the longest that fit.              *)
EXTENDS RetryTransport, Sequences

DefaultPolicy == [max |-> 3, initial |-> 2, cap |-> 20, retries |-> DefaultRetryCondition]

(* The requests the library sends: a read, an update, a POST without and   *)
(* with parameters, and an upload, whose body is a stream.                 *)
LibraryRequests ==
  { [idempotent |-> IsIdempotent(r[1]), body |-> r[2]] :
      r \in { <<"GET", "none">>, <<"PUT", "replayable">>, <<"POST", "none">>,
              <<"POST", "replayable">>, <<"POST", "stream">> } }

(* The defaults, no retry (WithRetryMax clamps), more attempts, a first    *)
(* window over the cap, and a condition that retries everything.           *)
LibraryPolicies ==
  { DefaultPolicy, RetryMax(DefaultPolicy, 0), RetryMax(DefaultPolicy, 4),
    RetryBackoff(DefaultPolicy, 8, 3), RetryBackoff(DefaultPolicy, 0, -1),
    [DefaultPolicy EXCEPT !.retries = Kinds],
    [DefaultPolicy EXCEPT !.retries = {"neterr"}] }

(* No header, nonsense, negative, nothing, within and over the cap, a date *)
(* in the past and one ahead, the last seconds that fit and the first that *)
(* overflow.                                                               *)
ServerHeaders ==
  { [form |-> "none", value |-> 0], [form |-> "junk", value |-> 0] }
    \cup [form : {"seconds"}, value : {-1, 0, 2, 127, 128, 200}]
    \cup [form : {"date"}, value : {-3, 3, 100}]

PlainHeaders == { [form |-> "none", value |-> 0], [form |-> "seconds", value |-> 200],
                  [form |-> "seconds", value |-> 3] }

OnlyDefault == {DefaultPolicy}

=============================================================================
