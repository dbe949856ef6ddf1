------------------------------- MODULE MCAcesso -------------------------------
(* A small instance of Acesso: one role, made of any one key of the surfaces *)
(* or of a pattern, and one personal token.                                  *)
EXTENDS Acesso

TodosOsPadroes == Chaves \union {Tudo, <<"crm", "*">>}

DoisTetos == {{Tudo}, {<<"crm", "*">>}}
=============================================================================
