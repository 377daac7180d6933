------------------------------- MODULE MCTask -------------------------------
(* Small instances of Task: w1 and w2 over the handles h1 and h2.          *)
EXTENDS Task, TLC

CONSTANTS w1, w2, h1, h2

Job(r, h, fs) == [role |-> r, handle |-> h, start |-> 0, faults |-> fs]

Both(a, b) == w1 :> a @@ w2 :> b

(* One goroutine, with every fault.                                        *)
Alone == {Both(Job(r, h1, {"error", "null"}), Job("none", h2, {})) : r \in Roles \ {"none"}}

(* Two goroutines over one handle, and over two.                           *)
Two(h, fs, gs) == Both(Job("Wait", h1, fs), Job("WaitForCompleteStatus", h, gs))

Instances == Alone \cup {Two(h1, {}, {}), Two(h2, {}, {"null"})}

(* TestTask: Wait and Watch over one handle.                               *)
OneHandle == {Both(Job("Wait", h1, {}), Job("Watch", h1, {}))}
=============================================================================
