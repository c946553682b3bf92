--------------------------- MODULE MCRouterClient ---------------------------
(***************************************************************************)
(* RouterClient on a small instance: one client, two packets, two regions, *)
(* a channel of three messages and a gateway channel of one, so that both  *)
(* fill up.                                                                *)
(***************************************************************************)
EXTENDS RouterClient
=============================================================================
