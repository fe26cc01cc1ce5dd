---------------------------- MODULE MCEstaciones ----------------------------
(* Instances of Mostradores and of Presencia for TLC.  The two share no      *)
(* state: parte says which one a behaviour is about, and the other stays in  *)
(* its first state.  The history variables say whether two requests, or a    *)
(* request and the sweep, have ever overlapped (solapo), and whether the     *)
(* code has gone down a path that a sequential promise has to leave out      *)
(* (desvio): what it is, each property says.  fallos counts the failures of  *)
(* the sweep of the counters, at most MAX_FALLOS_BARRIDO.                    *)
EXTENDS Mostradores, FiniteSets

CONSTANTS Usuarios, MAX_TOKENS, MAX_FALLOS_BARRIDO

ASSUME UsuariosAssumption == NADIE \notin Usuarios
ASSUME TokensAssumption   == MAX_TOKENS \in Nat
ASSUME FallosAssumption   == MAX_FALLOS_BARRIDO \in Nat

VARIABLES parte, solapo, desvio, fallos, rol, tokens, latido, asignado, peticionesB, barridoB

B == INSTANCE Presencia WITH peticiones <- peticionesB, barrido <- barridoB

varsB  == <<rol, tokens, latido, asignado, peticionesB, barridoB>>
varsMC == <<vars, varsB, parte, solapo, desvio, fallos>>

MCInit ==
    /\ Init
    /\ B!Init
    /\ parte \in {"mostradores", "bodega"}
    /\ solapo = FALSE
    /\ desvio = FALSE
    /\ fallos = 0

-----------------------------------------------------------------------------
Coinciden(pets, quedan, libre) ==
    LET ocupados == {r \in Actores : pets[r] # libre}
    IN  \/ \E r1, r2 \in ocupados : r1 # r2
        \/ quedan # {} /\ ocupados \cap Peticiones # {}

\* Somebody moves to another counter with a customer called from the first one.
SeMudaConLlamados ==
    \E r \in Peticiones, m \in Mostradores, p \in Pedidos :
        /\ En(r, "ELEGIR")
        /\ mostradores[m] = peticiones[r].quien
        /\ mostradores'[m] = NADIE
        /\ Anunciado(p, m)

\* r freed the counter m, and p is one of those it has to return.
LoRegresa(r, p, m) ==
    /\ Anunciado(p, m)
    /\ peticiones[r].most = m
    /\ \/ En(r, "LISTAR")
       \/ En(r, "REGRESAR") /\ p \in peticiones[r].regresan

\* It fails, dies or skips p, who stays announced.
SeQuedaAMedias(r) ==
    \E p \in Pedidos, m \in Mostradores :
        LoRegresa(r, p, m) /\ Anunciado(p, m)' /\ ~LoRegresa(r, p, m)'

DejaLlamados == SeMudaConLlamados \/ \E r \in Actores : SeQuedaAMedias(r)

\* The sweep has still to free the counter x[1] of x[2].
LoSoltara(x) ==
    \/ x \in barrido
    \/ /\ En(BARRENDERO, "SOLTAR")
       /\ peticiones[BARRENDERO].most = x[1] /\ peticiones[BARRENDERO].quien = x[2]

\* It ends with a counter to free, or a customer to return.
FallaElBarrido ==
    \/ SeQuedaAMedias(BARRENDERO)
    \/ \E x \in Mostradores \X Personal :
          LoSoltara(x) /\ mostradores'[x[1]] = x[2] /\ ~LoSoltara(x)'

\* Somebody who is not online takes an order.
TomaSinEstar ==
    \E u \in Usuarios, p \in Pedidos :
        asignado[p] # u /\ asignado'[p] = u /\ latido[u] = "NULO"

\* Nothing is promised after an overlap: the behaviour ends there.
DeMostradoresMC ==
    /\ parte = "mostradores"
    /\ ~solapo
    /\ solapo' = (solapo \/ Coinciden(peticiones', barrido', Libre))
    /\ desvio' = (desvio \/ DejaLlamados)
    /\ fallos' = IF FallaElBarrido THEN fallos + 1 ELSE fallos
    /\ fallos' <= MAX_FALLOS_BARRIDO
    /\ UNCHANGED <<parte, varsB>>

\* Overlaps are explored with one token less than sequences.
DeBodegaMC ==
    /\ parte = "bodega"
    /\ solapo' = (solapo \/ Coinciden(peticionesB', barridoB', B!Libre))
    /\ desvio' = (desvio \/ TomaSinEstar)
    /\ solapo' => Cardinality(B!Emitidos)' < MAX_TOKENS
    /\ UNCHANGED <<parte, fallos, vars>>

MCNext == (Next /\ DeMostradoresMC) \/ (B!Next /\ DeBodegaMC)

MCSpec ==
    /\ MCInit /\ [][MCNext]_varsMC
    /\ WF_varsMC(Trabajador /\ DeMostradoresMC)
    /\ \A r \in Peticiones : WF_varsMC(Libera(r) /\ DeMostradoresMC)
    /\ WF_varsMC(B!Trabajador /\ DeBodegaMC)
    /\ \A t \in B!Tokens : WF_varsMC(B!DejaDeEstarFresco(t) /\ DeBodegaMC)
    /\ \A u \in Usuarios : WF_varsMC(B!VenceLatido(u) /\ DeBodegaMC)

-----------------------------------------------------------------------------
\* AnunciadoConOperador: nobody is announced at a counter without operator, but
\* while the return is under way.  Said while nobody has overlapped, moved to
\* another counter with a customer called, or left the return half way.
AnunciadoConOperadorEnOrden == (~solapo /\ ~desvio) => AnunciadoConOperador

\* The same, with the move to another counter and the returns half way: what the
\* comment of regresarLlamados says ("Sin esto, soltar el mostrador dejaba el
\* folio anunciado en la TV frente a un mostrador sin nadie").
AnunciadoConOperadorSiNadieCoincide == ~solapo => AnunciadoConOperador

\* LlamadoPresente, while nobody has overlapped.
LlamadoPresenteSiNadieCoincide == ~solapo => LlamadoPresente

\* A customer called to a counter whose operator gives no sign of life does not
\* wait for ever, although the sweep may fail at any of its steps: it returns
\* them to the line.  Only a counter that was freed and left half way, or for
\* another one, keeps them announced, until somebody sits there again.
ElLlamadoVuelve ==
    \A p \in Pedidos, m \in Mostradores :
        Anunciado(p, m)
          ~> \/ ~Anunciado(p, m)
             \/ mostradores[m] \in Personal /\ activo[mostradores[m]]
             \/ mostradores[m] \notin Personal /\ desvio
             \/ solapo

\* The same, of every counter: no later turn of the sweep makes up for the one
\* that failed between freeing a counter and returning its customers.
ElLlamadoVuelveAunqueFalle ==
    \A p \in Pedidos, m \in Mostradores :
        Anunciado(p, m)
          ~> \/ ~Anunciado(p, m)
             \/ mostradores[m] \in Personal /\ activo[mostradores[m]]
             \/ solapo

\* A session that was closed on purpose is not opened again by a refresh, the
\* grace of a lost race included, while nobody has overlapped ("la familia no
\* se reabre").
SesionCerradaNoRevive ==
    [][~solapo' => \A t \in B!Tokens :
         (t \notin B!Emitidos /\ tokens'[t].familia \in B!Tokens \ {t})
            => \A x \in B!DeFamilia(tokens'[t].familia) : tokens[x].estado # "CERRADO"]_varsMC

\* Closing one session does not take out of the TV somebody who has another,
\* while nobody has overlapped.
NadieSaleConOtraSesion ==
    [][~solapo' => \A u \in Usuarios :
         (latido[u] # "NULO" /\ latido'[u] = "NULO" /\ B!HaySesionViva(u))
            => latido[u] = "VIEJO"]_varsMC

\* Whoever has no live session any more leaves the TV in the end, and their
\* orders with them, while there are tokens left to issue (bound).
QuienSeFueSale ==
    \A u \in Usuarios :
        (latido[u] # "NULO" /\ ~B!HaySesionViva(u))
          ~> \/ B!HaySesionViva(u) \/ B!Entrando(u)
             \/ latido[u] = "NULO" /\ B!EnManos(u) = {}
             \/ Cardinality(B!Emitidos) = MAX_TOKENS

\* QuienSalioNoTraePedidos: whoever is out of the warehouse has no orders in
\* their hands, while nobody has overlapped nor taken an order without being
\* online.
QuienSalioNoTraePedidosEnOrden == (~solapo /\ ~desvio) => B!QuienSalioNoTraePedidos

\* The same for whoever takes an order after the sweep took them out.
QuienSalioNoTraePedidosSiNadieCoincide == ~solapo => B!QuienSalioNoTraePedidos
=============================================================================
