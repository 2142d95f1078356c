-------------------------- MODULE MCClientSession --------------------------
(* TLC instance of ClientSession: every configuration a front end builds.      *)
EXTENDS ClientSession

(* A USB session has no address; a TCP session without a serial connects to a  *)
(* server that already runs, so it does not go through an agent.               *)
MCOptions ==
  { o \in AllOptions :
      /\ o.transport = "USB" => o.addrOk /\ ~o.viaAgent
      /\ o.viaAgent => o.serial }
=============================================================================
