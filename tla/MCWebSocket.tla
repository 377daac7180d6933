----------------------------- MODULE MCWebSocket -----------------------------
(* Small instances of WebSocket; the constants are in the cfg files.       *)
EXTENDS WebSocket
=============================================================================
