-------------------------- MODULE MCWebSocketManager --------------------------
(* WebSocketManager with a few tasks. *)
EXTENDS WebSocketManager

CONSTANTS worker, user, poll1, poll2, again1

\* Two requests at a time; one retry or endless retries.
TwoPollers == {poll1, poll2}
OneReconnector == {again1}
===============================================================================
