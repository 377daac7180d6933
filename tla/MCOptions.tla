------------------------------ MODULE MCOptions ------------------------------
(* Two clients built one after the other, over two http.Clients, a         *)
(* transport and a pool of the program's, and two files, one without a     *)
(* certificate.                                                            *)
EXTENDS Options

CONSTANTS c1, c2, h1, h2

MCClients == {c1, c2}
MCHTTPClients == {h1, h2}
Symmetric == Permutations(MCClients) \cup Permutations(MCHTTPClients)
=============================================================================
