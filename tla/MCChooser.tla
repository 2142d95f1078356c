----------------------------- MODULE MCChooser -----------------------------
(* Device serials for model checking Chooser: two behind the agent on h1, one
   wireless device of its own on h2. *)
EXTENDS Chooser, TLC

CONSTANTS h1, h2, a1, a2, b1

MCHostOf == (a1 :> h1) @@ (a2 :> h1) @@ (b1 :> h2)

============================================================================
