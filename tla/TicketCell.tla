---------------------------- MODULE TicketCell -----------------------------
(***************************************************************************)
(* What a Client promises of its session to the code that holds the lock   *)
(* (access.go:97-102): one cell, replaced at once, and always by the       *)
(* newest ticket the server has issued.  A ticket whose reply was lost is  *)
(* never installed.                                                        *)
(***************************************************************************)
EXTENDS Naturals

VARIABLES
  cell,    \* the ticket installed, 0 for none
  issued   \* the newest ticket of the server

Init == cell = issued /\ issued \in {0, 1}

Issue == issued' = issued + 1 /\ UNCHANGED cell

Install == cell < issued /\ cell' = issued /\ UNCHANGED issued

Next == Issue \/ Install

Spec == Init /\ [][Next]_<<cell, issued>>
=============================================================================
