---------------------------- MODULE AtLeastOnce ----------------------------
(***************************************************************************)
(* What the outbox promises to whoever publishes or consumes an event,     *)
(* with any number of workers: an event that was published is never lost,  *)
(* a handler may receive it any number of times, and the event is closed   *)
(* as delivered only after every subscribed handler has received it.  The  *)
(* promise leaves open what the code leaves open when several workers hold *)
(* the same event: a closed event may still be declared dead and back.     *)
(***************************************************************************)
CONSTANTS Eventos,     \* the events the platform may publish
          Handlers,    \* the registered event handlers
          Assinantes   \* Assinantes[e]: the handlers whose eventTypes match e

VARIABLES situacao,    \* situacao[e]: "ausente" until published
          recebido     \* recebido[e]: the handlers whose effect has happened

avars == <<situacao, recebido>>

Init == /\ situacao = [e \in Eventos |-> "ausente"]
        /\ recebido = [e \in Eventos |-> {}]

\* A use case commits its data together with the event.
Publicar(e) ==
    /\ situacao[e] = "ausente"
    /\ situacao' = [situacao EXCEPT ![e] = "pending"]
    /\ UNCHANGED recebido

\* A subscribed handler receives a published event (again, perhaps).
Receber(e, h) ==
    /\ situacao[e] # "ausente"
    /\ h \in Assinantes[e]
    /\ recebido' = [recebido EXCEPT ![e] = @ \union {h}]
    /\ UNCHANGED situacao

\* The event is closed: everyone who subscribed has received it.
Fechar(e) ==
    /\ situacao[e] # "ausente"
    /\ Assinantes[e] \subseteq recebido[e]
    /\ situacao' = [situacao EXCEPT ![e] = "delivered"]
    /\ UNCHANGED recebido

\* The attempts ran out: the event goes to the dead letter queue.
Desistir(e) ==
    /\ situacao[e] # "ausente"
    /\ situacao' = [situacao EXCEPT ![e] = "dead"]
    /\ UNCHANGED recebido

\* An operator puts a dead event back in the queue.
Reviver(e) ==
    /\ situacao[e] = "dead"
    /\ situacao' = [situacao EXCEPT ![e] = "pending"]
    /\ UNCHANGED recebido

Next == \E e \in Eventos :
            \/ Publicar(e)
            \/ Fechar(e)
            \/ Desistir(e)
            \/ Reviver(e)
            \/ \E h \in Handlers : Receber(e, h)

Spec == Init /\ [][Next]_avars

-----------------------------------------------------------------------------
\* What follows from the promise: whatever is closed as delivered was received by
\* every subscriber, and only published events are received, by subscribers.
EntregueRecebido ==
    \A e \in Eventos :
        /\ situacao[e] = "delivered" => Assinantes[e] \subseteq recebido[e]
        /\ recebido[e] \subseteq Assinantes[e]
        /\ situacao[e] = "ausente" => recebido[e] = {}
=============================================================================
