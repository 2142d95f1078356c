----------------------------- MODULE MCDesktop -----------------------------
(* TLC instance of Desktop: a device behind an agent with or without relay.    *)
EXTENDS Desktop

CONSTANTS h1, a

MCHostOf == a :> h1
MCAgentDevs == <<a>>
=============================================================================
