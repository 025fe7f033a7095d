----------------------------- MODULE MCTorProxy -----------------------------
(* A small instance of TorProxy: Tor's own uid and one application may be   *)
(* put on the bypass list.                                                  *)
EXTENDS TorProxy, TLC

CONSTANTS app, torUid

MCUids == {app, torUid}
=============================================================================
