-------------------------- MODULE MCServerShutdown --------------------------
(* ServerShutdown with one manager, which shares nothing with the other    *)
(* one but the context, and with both.                                     *)
EXTENDS ServerShutdown

MCLoop == {"inventory"}
MCLoops == {"inventory", "attestation"}
=============================================================================
