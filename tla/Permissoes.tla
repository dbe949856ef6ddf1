------------------------------ MODULE Permissoes ------------------------------
(***************************************************************************)
(* The authorization engine (packages/permissions): pure, and the only     *)
(* place where access is decided.  A key is the sequence of its segments:  *)
(* crm.customer.read is <<"crm", "customer", "read">>.  A pattern is a key *)
(* or a prefix of one that ends in "*".                                    *)
(***************************************************************************)
EXTENDS Naturals, SequencesExt

Tudo == <<"*">>

\* The unit of contracting a key belongs to: its module, or the plugin itself.
UnidadeDe(chave) ==
    IF chave[1] = "plugin" /\ Len(chave) > 1 THEN SubSeq(chave, 1, 2) ELSE SubSeq(chave, 1, 1)

Casa(padrao, chave) ==
    \/ padrao \in {Tudo, chave}
    \/ /\ Last(padrao) = "*"
       /\ IsStrictPrefix(Front(padrao), chave)

Concede(padroes, chave) == \E padrao \in padroes : Casa(padrao, chave)

\* What a decision is taken from: patterns of the roles, scopes of the
\* credential, units contracted.
Contratada(concessao, chave) ==
    UnidadeDe(chave) \in concessao.unidades \union {<<"platform">>}

\* Mutant of Autoriza: the ceiling of the credential is forgotten.
AutorizaSemEscopo(concessao, chave) ==
    /\ Contratada(concessao, chave)
    /\ Concede(concessao.permissoes, chave)

Autoriza(concessao, chave) ==
    /\ Contratada(concessao, chave)
    /\ Concede(concessao.permissoes, chave)
    /\ Concede(concessao.escopos, chave)

AutorizaTodas(concessao, chaves) == \A chave \in chaves : Autoriza(concessao, chave)
=============================================================================
