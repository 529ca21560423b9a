--------------------------- MODULE MCWebSocketHub ---------------------------
(* A small instance of the WebSocket hub for TLC. *)
EXTENDS WebSocketHub, TLC

Symmetry == Permutations(Sockets) \cup Permutations(Tickets) \cup Permutations(Sessions)
=============================================================================
