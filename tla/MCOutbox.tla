------------------------------ MODULE MCOutbox ------------------------------
(* Small instances of Outbox: two events of two tenants, or one event.     *)
EXTENDS Outbox
CONSTANTS e1, e2, acme, beta, aviso, indice

MCEmpresa == [e \in Eventos |-> IF e = e1 THEN acme ELSE beta]

\* aviso (a webhook) wants everything; indice only wants e1.
MCAssinantes == [e \in Eventos |-> IF e = e1 THEN {aviso, indice} ELSE {aviso}]
=============================================================================
