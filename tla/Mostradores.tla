----------------------------- MODULE Mostradores -----------------------------
(***************************************************************************)
(* The counters of a store: the operators who sit at them, the line of     *)
(* customers who are in the store, and the call that sends one of them to  *)
(* a counter.  An operator who leaves a counter, or gives no sign of life, *)
(* returns the customers called from it to the line: first the counter is  *)
(* freed, then the orders called from it are listed, then each is returned *)
(* in a transaction of its own.                                            *)
(*                                                                         *)
(* A request validates what it read (Lee...) and commits later.  The       *)
(* sweeping worker makes its requests under the name BARRENDERO.           *)
(***************************************************************************)
EXTENDS Naturals, Sequences

CONSTANTS
    Pedidos,        \* orders of the store
    Mostradores,    \* the counters that can be created
    Operadores,     \* users with role MOSTRADOR
    Admins,         \* users with role ADMIN: they may call without a counter
    Peticiones,     \* requests that can be in flight at once
    NADIE,
    BARRENDERO

Personal == Operadores \cup Admins
Actores  == Peticiones \cup {BARRENDERO}

ASSUME PersonalAssumption  == {NADIE, "BORRADO"} \cap Personal = {} /\ Operadores \cap Admins = {}
ASSUME ActoresAssumption   == BARRENDERO \notin Peticiones
ASSUME SinNumeroAssumption == NADIE \notin Mostradores

VARIABLES
    pedidos,        \* the columns of each order that the counters read
    cola,           \* the customers in the store, by presenteDesdeAt
    mostradores,    \* Mostrador.operadorId, or that the row was deleted
    activo,         \* who gave a sign of life in the last 15 minutes
    peticiones,     \* what each request in flight read, or Libre
    barrido         \* the counters that the sweep still has to free

vars == <<pedidos, cola, mostradores, activo, peticiones, barrido>>

-----------------------------------------------------------------------------
(* "ANTES" are the areas the order can still come from (warehouse, sales,  *)
(* printing); "FUERA" is what follows the counter: the till or the end.    *)
EstadosPedido == {"ANTES", "REVISADO", "EN_ATENCION", "FUERA"}

Ops == {"NINGUNA", "LLAMAR", "DEVOLVER", "NO_SE_PRESENTO", "DESCARTAR",
        "ELEGIR", "SOLTAR", "LISTAR", "REGRESAR", "BORRAR"}

\* ped, most: the order and the counter of the request.  leido: the state of
\* the order, or the operator of the counter, when it was read.  regresan: the
\* called customers still to be returned.
Lecturas ==
    [op       : Ops,
     quien    : Personal \cup {NADIE},
     ped      : Pedidos \cup {NADIE},
     most     : Mostradores \cup {NADIE},
     leido    : EstadosPedido \cup Personal \cup {NADIE},
     regresan : SUBSET Pedidos]

Libre == [op |-> "NINGUNA", quien |-> NADIE, ped |-> NADIE, most |-> NADIE,
          leido |-> NADIE, regresan |-> {}]

TypeOK ==
    /\ pedidos \in [Pedidos -> [estado : EstadosPedido, llamado : Mostradores \cup {NADIE}]]
    /\ cola \in Seq(Pedidos)
    /\ mostradores \in [Mostradores -> Personal \cup {NADIE, "BORRADO"}]
    /\ activo \in [Personal -> BOOLEAN]
    /\ peticiones \in [Actores -> Lecturas]
    /\ barrido \in SUBSET (Mostradores \X Personal)

Init ==
    /\ pedidos = [p \in Pedidos |-> [estado |-> "ANTES", llamado |-> NADIE]]
    /\ cola = <<>>
    /\ mostradores = [m \in Mostradores |-> NADIE]
    /\ activo = [u \in Personal |-> FALSE]
    /\ peticiones = [r \in Actores |-> Libre]
    /\ barrido = {}

-----------------------------------------------------------------------------
(* The line of the customers in the store.                                 *)

EnTienda(p) == \E i \in DOMAIN cola : cola[i] = p
Lugar(p)    == CHOOSE i \in DOMAIN cola : cola[i] = p
Sin(p)      == IF ~EnTienda(p) THEN cola
               ELSE SubSeq(cola, 1, Lugar(p) - 1) \o SubSeq(cola, Lugar(p) + 1, Len(cola))
AlFinal(p)  == Append(Sin(p), p)

EnEspera(p) == pedidos[p].estado = "REVISADO" /\ EnTienda(p)
Primero(p)  == \E i \in DOMAIN cola : /\ cola[i] = p /\ EnEspera(p)
                                     /\ \A j \in 1..(i - 1) : ~EnEspera(cola[j])

Anunciado(p, m) == pedidos[p].estado = "EN_ATENCION" /\ pedidos[p].llamado = m

DelOperador(u) == {m \in Mostradores : mostradores[m] = u}

\* EstacionGuard: it exempts an ADMIN.
ConEstacion(u) == u \in Admins \/ DelOperador(u) # {}

-----------------------------------------------------------------------------
(* Requests, and cambiarEstado as the counters use it.                     *)

En(r, op)   == peticiones[r].op = op
Sigue(r, l) == peticiones' = [peticiones EXCEPT ![r] = l]
Termina(r)  == Sigue(r, Libre)

Recibe(r, op, l) ==
    /\ En(r, "NINGUNA")
    /\ Sigue(r, [l EXCEPT !.op = op])
    /\ UNCHANGED <<pedidos, cola, mostradores, activo>>

\* A guard that fails, a 409, a rollback or the death of the process.
Abandona(r) ==
    /\ peticiones[r] # Libre
    /\ Termina(r)
    /\ UNCHANGED <<pedidos, cola, mostradores, activo, barrido>>

\* The states with a transition to REVISADO: any order that has not gone on to
\* the till and is not already there.  Who was called is forgotten.
PuedeRegresar(p) == pedidos[p].estado \in {"ANTES", "EN_ATENCION"}
EnRevisado       == [estado |-> "REVISADO", llamado |-> NADIE]

Regresado(p) ==
    /\ PuedeRegresar(p)
    /\ pedidos' = [pedidos EXCEPT ![p] = EnRevisado]

-----------------------------------------------------------------------------
(* A customer is called.                                                   *)

\* llamar looks at the order, at the presence of the customer and for the
\* counter of the operator; an ADMIN calls without a number.
LeeLlamar(r, u, p) ==
    /\ ConEstacion(u)
    /\ EnEspera(p)
    /\ \E m \in IF DelOperador(u) = {} THEN {NADIE} ELSE DelOperador(u) :
          Recibe(r, "LLAMAR", [Libre EXCEPT !.quien = u, !.ped = p, !.most = m])
    /\ UNCHANGED barrido

\* llamarSiguiente: the first of the line.
LeeLlamarSiguiente(r, u, p) == Primero(p) /\ LeeLlamar(r, u, p)

LlamaSinGuarda(r) ==
    LET l == peticiones[r]
    IN  /\ En(r, "LLAMAR")
        /\ pedidos' = [pedidos EXCEPT ![l.ped] = [estado |-> "EN_ATENCION", llamado |-> l.most]]
        /\ Termina(r)
        /\ UNCHANGED <<cola, mostradores, activo, barrido>>

\* The transition is from REVISADO only; a deleted counter breaks the key.
Llama(r) ==
    LET l == peticiones[r]
    IN  /\ En(r, "LLAMAR")
        /\ pedidos[l.ped].estado = "REVISADO"
        /\ l.most # NADIE => mostradores[l.most] # "BORRADO"
        /\ pedidos' = [pedidos EXCEPT ![l.ped] = [estado |-> "EN_ATENCION", llamado |-> l.most]]
        /\ Termina(r)
        /\ UNCHANGED <<cola, mostradores, activo, barrido>>

LeeDeAtencion(r, op, u, p) ==
    /\ ConEstacion(u)
    /\ pedidos[p].estado = "EN_ATENCION"
    /\ Recibe(r, op, [Libre EXCEPT !.quien = u, !.ped = p, !.leido = "EN_ATENCION"])
    /\ UNCHANGED barrido

\* devolverACola: the customer keeps their place.
Devuelve(r) ==
    /\ En(r, "DEVOLVER")
    /\ Regresado(peticiones[r].ped)
    /\ Termina(r)
    /\ UNCHANGED <<cola, mostradores, activo, barrido>>

\* noSePresento: to the end of the line, or out of it after the last call.
NoSePresento(r) ==
    LET p == peticiones[r].ped
    IN  /\ En(r, "NO_SE_PRESENTO")
        /\ Regresado(p)
        /\ cola' \in {AlFinal(p), Sin(p)}
        /\ Termina(r)
        /\ UNCHANGED <<mostradores, activo, barrido>>

\* descartar, of the operator, and retirarPorCliente, of the customer, who
\* cannot once they are called.
LeeDescartar(r, u, p) ==
    /\ u = NADIE \/ ConEstacion(u)
    /\ pedidos[p].estado # "FUERA"
    /\ u = NADIE => pedidos[p].estado # "EN_ATENCION"
    /\ EnTienda(p)
    /\ Recibe(r, "DESCARTAR", [Libre EXCEPT !.quien = u, !.ped = p, !.leido = pedidos[p].estado])
    /\ UNCHANGED barrido

DescartaSinRegresar(r) ==
    LET p == peticiones[r].ped
    IN  /\ En(r, "DESCARTAR")
        /\ UNCHANGED pedidos
        /\ cola' = Sin(p)
        /\ Termina(r)
        /\ UNCHANGED <<mostradores, activo, barrido>>

\* aplicarPresencia: an order that was called when it was read goes back to
\* REVISADO in the same transaction; of any other only the presence is written.
Descarta(r) ==
    LET p == peticiones[r].ped
    IN  /\ En(r, "DESCARTAR")
        /\ IF peticiones[r].leido = "EN_ATENCION" THEN Regresado(p) ELSE UNCHANGED pedidos
        /\ cola' = Sin(p)
        /\ Termina(r)
        /\ UNCHANGED <<mostradores, activo, barrido>>

-----------------------------------------------------------------------------
(* A counter is chosen, given up and deleted.                              *)

\* elegir, with forzar when another operator has it.
LeeElegir(r, u, m) ==
    /\ mostradores[m] # "BORRADO"
    /\ Recibe(r, "ELEGIR", [Libre EXCEPT !.quien = u, !.most = m, !.leido = mostradores[m]])
    /\ UNCHANGED barrido

TomaControl(l) == l.leido \notin {NADIE, l.quien}

\* One transaction frees the counter the operator had and gives them this one,
\* if it is free, theirs or still of the one who was seen.
Elige(r) ==
    LET l == peticiones[r]
    IN  /\ En(r, "ELEGIR")
        /\ l.leido = l.quien \/ mostradores[l.most] \in {NADIE, l.quien, l.leido}
        /\ mostradores' = [m \in Mostradores |->
                              IF m = l.most
                              THEN IF l.leido = l.quien THEN mostradores[m] ELSE l.quien
                              ELSE IF mostradores[m] = l.quien THEN NADIE ELSE mostradores[m]]
        /\ IF TomaControl(l) THEN Sigue(r, [Libre EXCEPT !.op = "LISTAR", !.most = l.most])
           ELSE Termina(r)
        /\ UNCHANGED <<pedidos, cola, activo, barrido>>

\* liberar reads whose counter it is...
LeeSoltar(r, u, m) ==
    /\ mostradores[m] = u
    /\ Recibe(r, "SOLTAR", [Libre EXCEPT !.quien = u, !.most = m])
    /\ UNCHANGED barrido

SueltaYTermina(r) ==
    /\ En(r, "SOLTAR")
    /\ mostradores[peticiones[r].most] # "BORRADO"
    /\ mostradores' = [mostradores EXCEPT ![peticiones[r].most] = NADIE]
    /\ Termina(r)
    /\ UNCHANGED <<pedidos, cola, activo, barrido>>

\* ... frees it by id...
Suelta(r) ==
    /\ En(r, "SOLTAR")
    /\ mostradores[peticiones[r].most] # "BORRADO"
    /\ mostradores' = [mostradores EXCEPT ![peticiones[r].most] = NADIE]
    /\ Sigue(r, [Libre EXCEPT !.op = "LISTAR", !.most = peticiones[r].most])
    /\ UNCHANGED <<pedidos, cola, activo, barrido>>

\* ... lists the customers called from it (regresarLlamados)...
Lista(r) ==
    LET m == peticiones[r].most
        llamados == {p \in Pedidos : Anunciado(p, m)}
    IN  /\ En(r, "LISTAR")
        /\ IF llamados = {} THEN Termina(r)
           ELSE Sigue(r, [Libre EXCEPT !.op = "REGRESAR", !.most = m, !.regresan = llamados])
        /\ UNCHANGED <<pedidos, cola, mostradores, activo, barrido>>

\* ... and returns them one by one; whatever goes wrong with one of them, a
\* transition that is not legal any more or any other failure, is logged and
\* that customer is skipped.
Regresa(r, p) ==
    LET quedan == peticiones[r].regresan \ {p}
    IN  /\ En(r, "REGRESAR")
        /\ p \in peticiones[r].regresan
        /\ Regresado(p) \/ UNCHANGED pedidos
        /\ Sigue(r, IF quedan = {} THEN Libre ELSE [peticiones[r] EXCEPT !.regresan = quedan])
        /\ UNCHANGED <<cola, mostradores, activo, barrido>>

LeeBorrar(r, m) ==
    /\ mostradores[m] = NADIE
    /\ Recibe(r, "BORRAR", [Libre EXCEPT !.most = m])
    /\ UNCHANGED barrido

\* By id; what was called from it keeps no counter (SetNull).
Borra(r) ==
    LET m == peticiones[r].most
    IN  /\ En(r, "BORRAR")
        /\ mostradores[m] # "BORRADO"
        /\ mostradores' = [mostradores EXCEPT ![m] = "BORRADO"]
        /\ pedidos' = [p \in Pedidos |->
              IF pedidos[p].llamado = m THEN [pedidos[p] EXCEPT !.llamado = NADIE] ELSE pedidos[p]]
        /\ Termina(r)
        /\ UNCHANGED <<cola, activo, barrido>>

-----------------------------------------------------------------------------
(* Signs of life, and the worker.                                          *)

DaSenales(u) ==
    /\ activo' = [activo EXCEPT ![u] = TRUE]
    /\ UNCHANGED <<pedidos, cola, mostradores, peticiones, barrido>>

DejaDeDarSenales(u) ==
    /\ activo' = [activo EXCEPT ![u] = FALSE]
    /\ UNCHANGED <<pedidos, cola, mostradores, peticiones, barrido>>

InactivosSinLlamados ==
    {x \in Mostradores \X Personal :
        /\ mostradores[x[1]] = x[2] /\ ~activo[x[2]]
        /\ \A p \in Pedidos : ~Anunciado(p, x[1])}

Inactivos ==
    {x \in Mostradores \X Personal : mostradores[x[1]] = x[2] /\ ~activo[x[2]]}

EmpiezaBarrido ==
    /\ barrido = {}
    /\ En(BARRENDERO, "NINGUNA")
    /\ Inactivos # {}
    /\ barrido' = Inactivos
    /\ UNCHANGED <<pedidos, cola, mostradores, activo, peticiones>>

\* liberar looks again whether the counter is still of that operator.
LeeBarrido(x) ==
    /\ x \in barrido
    /\ En(BARRENDERO, "NINGUNA")
    /\ barrido' = barrido \ {x}
    /\ IF mostradores[x[1]] = x[2]
       THEN Recibe(BARRENDERO, "SOLTAR", [Libre EXCEPT !.quien = x[2], !.most = x[1]])
       ELSE UNCHANGED <<pedidos, cola, mostradores, activo, peticiones>>

\* barrer catches every failure, and the death of the process ends everything:
\* the counters not freed yet wait for the next turn, which does not look at the
\* one that was freed, nor at who was still announced there.
BarridoFalla ==
    /\ barrido # {} \/ peticiones[BARRENDERO] # Libre
    /\ Termina(BARRENDERO)
    /\ barrido' = {}
    /\ UNCHANGED <<pedidos, cola, mostradores, activo>>

-----------------------------------------------------------------------------
(* What the rest of the system does with an order that the counters see.   *)

LlegaAlMostrador(p) ==
    /\ pedidos[p].estado = "ANTES"
    /\ pedidos' = [pedidos EXCEPT ![p] = EnRevisado]
    /\ UNCHANGED <<cola, mostradores, activo, peticiones, barrido>>

\* Back to the warehouse or to a proposal; to the till, or cancelled.
SeVaDelMostrador(p) ==
    /\ pedidos[p].estado \in {"REVISADO", "EN_ATENCION"}
    /\ \E e \in {"ANTES", "FUERA"} :
          pedidos' = [pedidos EXCEPT ![p] = [estado |-> e, llamado |-> NADIE]]
    /\ UNCHANGED <<cola, mostradores, activo, peticiones, barrido>>

AvisaLlegada(p) ==
    /\ pedidos[p].estado # "FUERA"
    /\ ~EnTienda(p)
    /\ cola' = Append(cola, p)
    /\ UNCHANGED <<pedidos, mostradores, activo, peticiones, barrido>>

-----------------------------------------------------------------------------
DeOperador(r) ==
    \/ \E u \in Personal, p \in Pedidos :
          \/ LeeLlamarSiguiente(r, u, p)
          \/ LeeLlamar(r, u, p)
          \/ \E op \in {"DEVOLVER", "NO_SE_PRESENTO"} : LeeDeAtencion(r, op, u, p)
    \/ \E u \in Personal \cup {NADIE}, p \in Pedidos : LeeDescartar(r, u, p)
    \/ Llama(r) \/ Devuelve(r) \/ NoSePresento(r) \/ Descarta(r)

DeMostradores(r) ==
    \/ \E u \in Personal, m \in Mostradores : LeeElegir(r, u, m) \/ LeeSoltar(r, u, m)
    \/ \E m \in Mostradores : LeeBorrar(r, m)
    \/ Elige(r) \/ Borra(r)

Libera(r) == Suelta(r) \/ Lista(r) \/ (\E p \in Pedidos : Regresa(r, p))

Trabajador ==
    \/ EmpiezaBarrido
    \/ \E x \in barrido : LeeBarrido(x)
    \/ Libera(BARRENDERO)
    \/ BarridoFalla

Externo ==
    \/ \E u \in Personal : DaSenales(u) \/ DejaDeDarSenales(u)
    \/ \E p \in Pedidos : LlegaAlMostrador(p) \/ SeVaDelMostrador(p) \/ AvisaLlegada(p)

Next ==
    \/ \E r \in Peticiones : DeOperador(r) \/ DeMostradores(r) \/ Libera(r) \/ Abandona(r)
    \/ Trabajador
    \/ Externo

\* The worker runs on a timer of its own; nobody else has to act.
Spec == Init /\ [][Next]_vars /\ WF_vars(Trabajador)

-----------------------------------------------------------------------------
(* Properties.                                                             *)

\* Whoever frees a counter returns the customers called from it ("Sin esto,
\* soltar el mostrador dejaba el folio anunciado en la TV frente a un
\* mostrador sin nadie"): nobody is announced at a counter without operator,
\* but while the return is under way.
AnunciadoConOperador ==
    \A p \in Pedidos, m \in Mostradores :
        Anunciado(p, m) =>
            \/ mostradores[m] \in Personal
            \/ \E r \in Actores : peticiones[r].most = m /\ peticiones[r].op \in {"LISTAR", "REGRESAR"}

\* A called customer is present: "un pedido en EN_ATENCION sin presencia es el
\* estado huérfano que ninguna pantalla muestra" (aplicarPresencia).
LlamadoPresente == \A p \in Pedidos : pedidos[p].estado = "EN_ATENCION" => EnTienda(p)

\* Two operators never send the same customer to two counters: a customer goes
\* from one counter to another only through the line.
UnSoloMostrador ==
    [][\A p \in Pedidos :
         (pedidos[p].estado = "EN_ATENCION" /\ pedidos'[p].estado = "EN_ATENCION")
            => pedidos'[p].llamado \in {pedidos[p].llamado, NADIE}]_vars

=============================================================================
