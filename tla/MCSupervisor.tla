---------------------------- MODULE MCSupervisor ----------------------------
(* An instance of Supervisor for TLC.                                        *)
EXTENDS Supervisor
MCChildren == <<"poller", "ws">>
=============================================================================
