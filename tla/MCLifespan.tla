----------------------------- MODULE MCLifespan -----------------------------
(***************************************************************************)
(* Calls under either host.  Lambda has one event at a time, a server      *)
(* every interleaving of its connections.                                  *)
(***************************************************************************)
EXTENDS Lifespan

AllHosts == {"uvicorn", "mangum"}
Lambda == {"mangum"}
=============================================================================
