------------------------------- MODULE MCGuest -------------------------------
(* Small instances of Guest: two storages for ISOs, one that takes none.   *)
EXTENDS Guest

CONSTANTS a, b, c

Others == {"Clone", "NewContainer", "WaitForAgent", "WaitForAgentExecExit"}

TwoPrograms == {Ops \ Others, Others}
InitialiseAndDelete == {{"CloudInit", "Delete"}}
=============================================================================
