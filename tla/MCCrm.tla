-------------------------------- MODULE MCCrm --------------------------------
(* A small instance of Crm: three requests, one document, one person with an *)
(* agenda, timelines of one entry.                                           *)
EXTENDS Crm, TLC

Simetria == Permutations(Pedidos)
=============================================================================
