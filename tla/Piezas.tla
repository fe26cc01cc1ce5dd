------------------------------- MODULE Piezas -------------------------------
(***************************************************************************)
(* The pieces of one order: what the customer asked for, what is in the    *)
(* bag, what somebody took out of it and has to go back to the shelf, and  *)
(* what the order costs.  The lines and their arithmetic are in Lineas;    *)
(* here they meet the warehouse that marks them, the proposals, the        *)
(* adjustment at the counter and the restocking list.                      *)
(*                                                                         *)
(* Next to the rows of the database there are two counts that only exist   *)
(* in the store: the pieces physically in the bag (bolsa), and those that  *)
(* are out of it and nobody has put back (fuera).  The people are assumed  *)
(* to do what the screens ask of them: the checklist that closes a picking *)
(* is all or nothing, and whoever confirms a list returned what it said.   *)
(*                                                                         *)
(* The adjustment at the counter and the confirmation of a list read in    *)
(* one step and write in another, one request at a time.  REVISADO stands  *)
(* for EN_ATENCION too, and home delivery, DTF jobs and the races between  *)
(* transitions are left to Pedido.                                         *)
(***************************************************************************)
EXTENDS Lineas

CONSTANTS
    NADA,               \* no proposal, no list
    MAX_PIEZAS,         \* bound: pieces of one line
    MAX_CAMBIOS,        \* bound: lines that one adjustment names
    MAX_LISTA           \* bound: pieces of one variant out of the bag at once

ASSUME CotasAssumption ==
    /\ MAX_PIEZAS \in Nat \ {0}
    /\ MAX_CAMBIOS \in Nat
    /\ MAX_LISTA \in Nat

VARIABLES
    estado,         \* Pedido.estado
    asignado,       \* some warehouse user holds it
    cerro,          \* its history has EN_REVISION -> REVISADO or ESPERANDO_APROBACION
    lineas,         \* ItemPedido, by variant
    total,          \* Pedido.total
    propuesta,      \* the PENDIENTE proposal, or NADA
    reposicion,     \* PedidoReposicion, or NADA
    bolsa,          \* pieces in the bag
    fuera,          \* pieces out of the bag that nobody has returned
    peticion        \* what the request in flight read, or Libre

vars == <<estado, asignado, cerro, lineas, total, propuesta, reposicion, bolsa, fuera,
          peticion>>

fila    == <<estado, asignado, cerro>>
dinero  == <<lineas, total>>
fisico  == <<bolsa, fuera>>

-----------------------------------------------------------------------------
Estados ==
    {"SOLICITADO", "EN_REVISION", "ESPERANDO_APROBACION", "EN_ASESORIA", "REVISADO",
     "PENDIENTE_PAGO", "CANCELADO"}

Cuentas == [Variantes -> Nat]
Ninguna == [v \in Variantes |-> 0]

\* PedidoReposicion, one row per order.
Listas == [estado : {"PENDIENTE", "REPUESTO"}, items : Cuentas, deCancelacion : BOOLEAN]

ASSUME NadaAssumption == NADA \notin Listas

SinCambios == [v \in {} |-> 0]

Libre == [op |-> "NINGUNA", cambios |-> SinCambios, vaABodega |-> FALSE,
          destino |-> "REVISADO", trae |-> Ninguna]

PorVariante(f(_)) == [v \in Variantes |-> IF v \in DOMAIN lineas THEN f(lineas[v]) ELSE 0]

\* What the rows say that is in the bag.
EnBolsaSegunFilas == PorVariante(PiezasEnLaBolsa)

Mas(a, b)   == [v \in Variantes |-> a[v] + b[v]]
Menos(a, b) == [v \in Variantes |-> Resta(a[v], b[v])]

RecalculaSinPromo(ls) ==
    /\ lineas' = ls
    /\ total' = TotalDe(lineas')

\* recalcularTotalesPedido: the only place where the promotion is applied.
Recalcula(ls) ==
    /\ lineas' = AplicarPromoVolumen(ls)
    /\ total' = TotalDe(lineas')

\* The adjustments that a request may ask for: of some lines, what is wanted.
Ajustes(conPiezas, quitar) ==
    UNION {[S -> [accion : conPiezas, n : 1..MAX_PIEZAS] \cup [accion : {quitar}, n : {0}]] :
              S \in {T \in SUBSET Variantes : Cardinality(T) <= MAX_CAMBIOS}}

Intenciones   == Ajustes({"AGREGAR", "REPONER", "CANTIDAD"}, "QUITAR")
CambiosDeItem == Ajustes({"agregado", "parcial", "reponer"}, "no-disponible")

-----------------------------------------------------------------------------
\* The restocking list: reposicion.service.

Vacia(items) == \A v \in Variantes : items[v] = 0

FusionarConLoDevuelto(items, deCancelacion) ==
    IF Vacia(items)
    THEN reposicion
    ELSE [estado |-> "PENDIENTE",
          items |-> Mas(reposicion.items, items),
          deCancelacion |-> deCancelacion \/ reposicion.deCancelacion]

FusionarEnFila(items, deCancelacion) ==
    IF Vacia(items)
    THEN reposicion
    ELSE [estado |-> "PENDIENTE",
          items |-> IF reposicion.estado = "REPUESTO" THEN items
                    ELSE Mas(reposicion.items, items),
          deCancelacion |-> deCancelacion \/ (reposicion.deCancelacion
                                              /\ reposicion.estado = "PENDIENTE")]

RegistrarQuitadasEnMostrador(items) ==
    reposicion' = CASE reposicion # NADA -> FusionarEnFila(items, FALSE)
                    [] reposicion = NADA /\ ~Vacia(items) ->
                         [estado |-> "PENDIENTE", items |-> items, deCancelacion |-> FALSE]
                    [] OTHER -> reposicion

CrearSiNoHay(enManos) ==
    LET items == IF enManos THEN Ninguna ELSE EnBolsaSegunFilas IN
    reposicion' =
        IF reposicion # NADA THEN reposicion
        ELSE [estado |-> IF Vacia(items) THEN "REPUESTO" ELSE "PENDIENTE", items |-> items,
              deCancelacion |-> ~Vacia(items)]

CrearDesdePedido(enManos) ==
    LET items == IF enManos THEN Ninguna ELSE EnBolsaSegunFilas IN
    reposicion' =
        CASE reposicion = NADA ->
               [estado |-> IF Vacia(items) THEN "REPUESTO" ELSE "PENDIENTE", items |-> items,
                deCancelacion |-> ~Vacia(items)]
          [] reposicion # NADA /\ reposicion.deCancelacion -> reposicion
          [] reposicion # NADA /\ ~reposicion.deCancelacion -> FusionarEnFila(items, TRUE)

\* The goods of an order that is cancelled while the warehouse holds it go
\* back in the hands of whoever was picking it.
BolsaEnManosDeBodega ==
    \/ estado = "SOLICITADO"
    \/ estado = "EN_REVISION" /\ (asignado \/ ~cerro)

LeeConfirmarRepuesto ==
    /\ peticion = Libre
    /\ reposicion # NADA
    /\ reposicion.estado = "PENDIENTE"
    /\ peticion' = [Libre EXCEPT !.op = "REPUESTO", !.trae = reposicion.items]
    /\ UNCHANGED <<fila, dinero, propuesta, reposicion, fisico>>

ConfirmarRepuesto ==
    /\ peticion.op = "REPUESTO"
    /\ reposicion' = [reposicion EXCEPT !.estado = "REPUESTO"]
    /\ fuera' = Menos(fuera, peticion.trae)
    /\ peticion' = Libre
    /\ UNCHANGED <<fila, dinero, propuesta, bolsa>>

-----------------------------------------------------------------------------
\* Every cancellation: the line items stay, what was in the bag goes out.
\* BolsaEnManosDeBodega is asked before the state changes.

CancelarPedido(enManos) ==
    /\ estado' = "CANCELADO"
    /\ asignado' = FALSE
    /\ propuesta' = NADA
    /\ CrearDesdePedido(enManos)
    /\ bolsa' = Ninguna
    /\ fuera' = IF enManos THEN fuera ELSE Mas(fuera, bolsa)
    /\ UNCHANGED <<cerro, dinero, peticion>>

CancelarMostrador ==
    /\ estado \in {"ESPERANDO_APROBACION", "REVISADO"}
    /\ CancelarPedido(FALSE)

\* By the customer or by the store, up to the moment when it is charged.
CancelarCliente ==
    /\ estado # "CANCELADO"
    /\ CancelarPedido(BolsaEnManosDeBodega)

-----------------------------------------------------------------------------
\* The warehouse: bodega.service and surtido.service.

Tomar ==
    /\ estado \in {"SOLICITADO", "EN_REVISION"}
    /\ ~asignado
    /\ estado' = "EN_REVISION"
    /\ asignado' = TRUE
    /\ UNCHANGED <<cerro, dinero, propuesta, reposicion, fisico, peticion>>

\* What was marked stays marked.
Liberar ==
    /\ estado = "EN_REVISION"
    /\ asignado
    /\ asignado' = FALSE
    /\ UNCHANGED <<estado, cerro, dinero, propuesta, reposicion, fisico, peticion>>

MarcaCoherente(e, n) ==
    /\ e \in {"PENDIENTE", "NO_DISPONIBLE"} => n = 0
    /\ e = "COMPLETO" => n > 0

SePuedeMarcar(it, n) ==
    /\ ~it.cancelada
    /\ n <= it.cantidad
    /\ it.base > 0 => n >= it.base
    /\ PiezasFueraDeLaBolsa(it) > 0 => n >= it.surtida

MarcarItem(v, e, n) ==
    /\ estado = "EN_REVISION"
    /\ asignado
    /\ v \in DOMAIN lineas
    /\ MarcaCoherente(e, n)
    /\ SePuedeMarcar(lineas[v], n)
    /\ lineas' = [lineas EXCEPT ![v].surtida = n, ![v].estado = e]
    /\ bolsa' = [bolsa EXCEPT ![v] = @ + n - lineas[v].surtida]
    /\ UNCHANGED <<fila, total, propuesta, reposicion, fuera, peticion>>

Faltantes == {v \in Activas(lineas) : lineas[v].estado \in {"PARCIAL", "NO_DISPONIBLE"}}

SurtidoSinRecuento ==
    /\ \A v \in Activas(lineas) : lineas[v].estado # "PENDIENTE"
    /\ \E v \in Activas(lineas) : ~SeCancelaPorFalta(lineas[v])

Surtido ==
    /\ \A v \in Activas(lineas) : lineas[v].estado # "PENDIENTE"
    /\ \A v \in Activas(lineas) : lineas[v].estado = "COMPLETO" =>
                                     PiezasEnLaBolsa(lineas[v]) >= lineas[v].cantidad
    /\ \E v \in Activas(lineas) : ~SeCancelaPorFalta(lineas[v])

\* The checklist: what is out of the lines comes out of the bag, and whoever
\* took it out puts it back on the shelf.
Retirar(it) ==
    [it EXCEPT !.retiradas = @ + PiezasPendientesDeRetiro(it), !.base = 0]

ConfirmarSurtido(presente) ==
    /\ estado = "EN_REVISION"
    /\ asignado
    /\ Surtido
    /\ Faltantes # {} => propuesta = NADA
    /\ LET retiradas == [v \in DOMAIN lineas |-> Retirar(lineas[v])] IN
       IF Faltantes = {}
       THEN /\ lineas' = retiradas
            /\ UNCHANGED <<total, propuesta>>
       ELSE /\ Recalcula(AplicarCambiosFisicos(retiradas))
            /\ LET c == CalcularAjuste(lineas, SinCambios)
               IN  propuesta' = [origen |-> "BODEGA", cambios |-> c.cambios, total |-> c.total,
                                 porSurtir |-> 0]
    /\ bolsa' = Menos(bolsa, PorVariante(PiezasPendientesDeRetiro))
    /\ estado' = IF Faltantes = {} \/ presente THEN "REVISADO" ELSE "ESPERANDO_APROBACION"
    /\ asignado' = FALSE
    /\ cerro' = TRUE
    /\ UNCHANGED <<reposicion, fuera, peticion>>

-----------------------------------------------------------------------------
\* The two screens that deal out the adjusted orders.  The batch is picked by
\* zone, without a checklist of what comes out of the bag.

TraeAjusteSinSobrante(it) == ~it.original \/ it.cancelada \/ it.base > 0

\* pedidoTraeAjuste, the coarse filter of both.
TraeAjuste(it) ==
    ~it.original \/ it.cancelada \/ it.surtida > it.cantidad \/ it.base > 0

\* itemPideTrabajo, the fine one, only of the card.
PideTrabajo(it) ==
    \/ PiezasPendientesDeRetiro(it) > 0
    \/ ~it.cancelada /\ it.estado = "PENDIENTE" /\ (it.base > 0 \/ ~it.original)

EnLote ==
    /\ asignado
    /\ estado \in {"EN_REVISION", "ESPERANDO_APROBACION"}
    /\ \A v \in DOMAIN lineas : ~TraeAjuste(lineas[v])

EnAvisoDeAjuste ==
    /\ estado = "EN_REVISION"
    /\ ~asignado
    /\ \E v \in DOMAIN lineas : TraeAjuste(lineas[v])
    /\ \E v \in DOMAIN lineas : PideTrabajo(lineas[v])

-----------------------------------------------------------------------------
\* The customer is in the store: presencia.util.
LlegaElCliente ==
    /\ estado = "ESPERANDO_APROBACION"
    /\ estado' = "REVISADO"
    /\ UNCHANGED <<asignado, cerro, dinero, propuesta, reposicion, fisico, peticion>>

-----------------------------------------------------------------------------
\* The proposals: propuesta.service.  In REVISADO the operator answers.

Pendiente(origen) == propuesta # NADA /\ propuesta.origen = origen

AprobarPropuestaBodega ==
    /\ estado \in {"ESPERANDO_APROBACION", "REVISADO"}
    /\ Pendiente("BODEGA")
    /\ \A v \in Activas(lineas) : lineas[v].estado # "PENDIENTE"
    /\ Recalcula(AplicarCambiosFisicos(lineas))
    /\ Activas(lineas') # {}
    /\ estado' = "REVISADO"
    /\ asignado' = FALSE
    /\ propuesta' = NADA
    /\ UNCHANGED <<cerro, reposicion, fisico, peticion>>

RechazarPropuestaBodega ==
    /\ estado \in {"ESPERANDO_APROBACION", "REVISADO"}
    /\ Pendiente("BODEGA")
    /\ CancelarPedido(FALSE)

ContactarAsesor ==
    /\ estado = "ESPERANDO_APROBACION"
    /\ Pendiente("BODEGA")
    /\ estado' = "EN_ASESORIA"
    /\ asignado' = FALSE
    /\ propuesta' = NADA
    /\ UNCHANGED <<cerro, dinero, reposicion, fisico, peticion>>

\* AjusteService.calcular and enviarPropuesta.  A proposal that changes
\* nothing is refused.
EnviarPropuesta(int) ==
    /\ estado \in {"EN_ASESORIA", "ESPERANDO_APROBACION"}
    /\ propuesta = NADA
    /\ \A v \in DOMAIN int : IntencionValida(lineas, int, v)
    /\ \E v \in DOMAIN int : Decidida(lineas, int, v) \/ int[v].accion = "AGREGAR"
    /\ LET c == CalcularAjuste(lineas, int)
       IN  propuesta' = [origen |-> "VENTAS", cambios |-> c.cambios, total |-> c.total,
                         porSurtir |-> c.porSurtir]
    /\ estado' = "ESPERANDO_APROBACION"
    /\ asignado' = FALSE
    /\ UNCHANGED <<cerro, dinero, reposicion, fisico, peticion>>

\* Back to the warehouse when there is something to look for, or something to
\* take out of the bag.
AprobarPropuestaVentas ==
    /\ estado \in {"ESPERANDO_APROBACION", "REVISADO"}
    /\ Pendiente("VENTAS")
    /\ LET ls == AplicarPropuestaDeVentas(lineas, propuesta.cambios) IN
       /\ Activas(ls) # {}
       /\ Recalcula(ls)
       /\ estado' = IF QuedanPendientes(ls) \/ HuboRetiro(lineas, propuesta.cambios)
                    THEN "EN_REVISION" ELSE "REVISADO"
       /\ cerro' = (cerro \/ estado' = "REVISADO")
    /\ asignado' = FALSE
    /\ propuesta' = NADA
    /\ UNCHANGED <<reposicion, fisico, peticion>>

RechazarPropuestaVentas ==
    /\ estado = "ESPERANDO_APROBACION"
    /\ Pendiente("VENTAS")
    /\ estado' = "EN_ASESORIA"
    /\ asignado' = FALSE
    /\ propuesta' = NADA
    /\ UNCHANGED <<cerro, dinero, reposicion, fisico, peticion>>

CancelarPorPropuesta ==
    /\ estado = "ESPERANDO_APROBACION"
    /\ Pendiente("VENTAS")
    /\ CancelarPedido(FALSE)

DevolverABodega ==
    /\ estado = "EN_ASESORIA"
    /\ estado' = "EN_REVISION"
    /\ asignado' = FALSE
    /\ propuesta' = NADA
    /\ UNCHANGED <<cerro, dinero, reposicion, fisico, peticion>>

-----------------------------------------------------------------------------
\* The counter: mostrador.service.

\* Without items it only says in words what the customer wants, and the
\* order goes to the warehouse.
LeeAjustar(cambios) ==
    /\ peticion = Libre
    /\ estado \in {"ESPERANDO_APROBACION", "REVISADO"}
    /\ \A v \in DOMAIN cambios : CambioValido(lineas, cambios, v)
    /\ LET vaABodega == DOMAIN cambios = {} \/ AjusteNecesitaBodega(lineas, cambios)
       IN  peticion' = [Libre EXCEPT !.op = "AJUSTAR", !.cambios = cambios,
                            !.vaABodega = vaABodega,
                            !.destino = IF vaABodega THEN "EN_REVISION" ELSE "REVISADO"]
    /\ UNCHANGED <<fila, dinero, propuesta, reposicion, fisico>>

\* MaquinaPedido.TRANSICIONES and permitirMismoEstado: where an adjustment
\* that read one of its states may still arrive from.
PuedeAjustar(p) ==
    IF p.vaABodega
    THEN estado \in {"ESPERANDO_APROBACION", "EN_ASESORIA", "REVISADO"}
    ELSE estado \in {"EN_REVISION", "ESPERANDO_APROBACION", "EN_ASESORIA", "REVISADO"}

\* An order that already has a line for what is added would have two: bound.
SeAplica(cambios) ==
    /\ \A v \in DOMAIN cambios : (cambios[v].accion = "agregado") <=> (v \notin DOMAIN lineas)
    /\ \A v \in DOMAIN cambios : cambios[v].accion = "reponer" => SePuedeReponer(lineas[v])
    /\ Activas(AplicarAjuste(lineas, cambios)) # {}

Quitan(cambios) ==
    [v \in Variantes |-> IF v \in DOMAIN cambios \cap DOMAIN lineas
                         THEN Quitadas(lineas[v], cambios[v]) ELSE 0]

Ajustar ==
    LET p       == peticion
        quitadas == Quitan(p.cambios)
    IN  /\ p.op = "AJUSTAR"
        /\ PuedeAjustar(p)
        /\ p.cambios # SinCambios => SeAplica(p.cambios)
        /\ \A v \in Variantes : fuera[v] + quitadas[v] <= MAX_LISTA
        /\ IF p.cambios = SinCambios
           THEN UNCHANGED dinero
           ELSE Recalcula(AplicarAjuste(lineas, p.cambios))
        /\ RegistrarQuitadasEnMostrador(quitadas)
        /\ bolsa' = Menos(bolsa, quitadas)
        /\ fuera' = Mas(fuera, quitadas)
        /\ propuesta' = NADA
        /\ estado' = p.destino
        /\ asignado' = (asignado /\ ~p.vaABodega)
        /\ cerro' = (cerro \/ (estado = "EN_REVISION" /\ p.destino = "REVISADO"))
        /\ peticion' = Libre

\* Refused by what the transaction reads, or never committed.
AjusteRechazado ==
    /\ peticion.op = "AJUSTAR"
    /\ peticion' = Libre
    /\ UNCHANGED <<fila, dinero, propuesta, reposicion, fisico>>

EnviarAPagar ==
    /\ estado = "REVISADO"
    /\ propuesta = NADA
    /\ estado' = "PENDIENTE_PAGO"
    /\ UNCHANGED <<asignado, cerro, dinero, propuesta, reposicion, fisico, peticion>>

-----------------------------------------------------------------------------
\* An order is older than the promotion with all its lines, or with none.
Init ==
    /\ estado = "SOLICITADO"
    /\ asignado = FALSE
    /\ cerro = FALSE
    /\ lineas \in
          {AplicarPromoVolumen([v \in S |-> [ConstruirItemPedido(v, MAX_PIEZAS)
                                                EXCEPT !.original = TRUE]]) :
             S \in {T \in SUBSET Variantes : T # {} /\ (SinPar # {} => T = SinPar)}}
    /\ total = TotalDe(lineas)
    /\ propuesta = NADA
    /\ reposicion = NADA
    /\ bolsa = Ninguna
    /\ fuera = Ninguna
    /\ peticion = Libre

DeBodega ==
    \/ Tomar
    \/ Liberar
    \/ \E v \in Variantes, e \in EstadoSurtido, n \in 0..MAX_PIEZAS : MarcarItem(v, e, n)
    \/ \E presente \in BOOLEAN : ConfirmarSurtido(presente)
    \/ LeeConfirmarRepuesto
    \/ ConfirmarRepuesto

DePropuesta ==
    \/ AprobarPropuestaBodega
    \/ RechazarPropuestaBodega
    \/ ContactarAsesor
    \/ \E int \in Intenciones : EnviarPropuesta(int)
    \/ AprobarPropuestaVentas
    \/ RechazarPropuestaVentas
    \/ CancelarPorPropuesta
    \/ DevolverABodega

DeMostrador ==
    \/ LlegaElCliente
    \/ \E cambios \in CambiosDeItem : LeeAjustar(cambios)
    \/ Ajustar
    \/ AjusteRechazado
    \/ EnviarAPagar
    \/ CancelarMostrador

Next == DeBodega \/ DePropuesta \/ DeMostrador \/ CancelarCliente

Spec == Init /\ [][Next]_vars

-----------------------------------------------------------------------------
TypeOK ==
    /\ estado \in Estados /\ asignado \in BOOLEAN /\ cerro \in BOOLEAN
    /\ DOMAIN lineas \subseteq Variantes
    /\ \A v \in DOMAIN lineas : lineas[v] \in Linea
    /\ total \in Nat
    /\ bolsa \in Cuentas /\ fuera \in Cuentas

\* What the rows count is what the bag has, until the order is cancelled and
\* the bag emptied: ajuste-cantidad.util and cancelacion-linea.util keep what
\* was found apart from what was decided so that nobody loses count.
LaBolsaCuadra == estado # "CANCELADO" => bolsa = EnBolsaSegunFilas

ListaPendiente ==
    IF reposicion # NADA /\ reposicion.estado = "PENDIENTE" THEN reposicion.items ELSE Ninguna

\* Nobody is asked to return to the shelf what somebody returned already
\* (reposicion.service: "el mismo 'ya lo acomode y me vuelve a salir'").
ListaNoPideDeMas == \A v \in Variantes : ListaPendiente[v] <= fuera[v]

Lleva(v) == IF lineas[v].cancelada THEN 0 ELSE lineas[v].cantidad

\* A bag with more than the customer takes is opened before it leaves the
\* warehouse: the order is announced on the card of adjustments until somebody
\* takes it, and it never joins the batch, which "no tiene checklist de retiro"
\* (bodega.service: "avanzaria con prendas de mas en la bolsa").
LaBolsaDeMasSeAbre ==
    estado = "EN_REVISION" /\ (\E v \in DOMAIN lineas : bolsa[v] > Lleva(v)) =>
        ~EnLote /\ (~asignado => EnAvisoDeAjuste)

\* What the warehouse has to look for after an adjustment is announced too
\* (bodega.service: "productos nuevos que traer del anaquel").  It fails for a line
\* that was put back with its old pieces: it is original and has no floor.
LoQueFaltaSeAnuncia ==
    /\ estado = "EN_REVISION"
    /\ ~asignado
    /\ cerro
    /\ \E v \in Activas(lineas) : lineas[v].estado = "PENDIENTE"
    => EnAvisoDeAjuste

\* Every piece that is out of the bag is on the list of somebody who returns
\* it (mostrador.service: "mercancia fuera de la bolsa sin nadie que la
\* devuelva").
NadaQuedaSinDueno == \A v \in Variantes : fuera[v] <= ListaPendiente[v]

\* What is charged is what is in the bag, piece by piece (the invariant that
\* confirmarSurtido calls "lo que se cobra es lo que se surtio").
SeCobraLoSurtido ==
    estado = "PENDIENTE_PAGO" =>
        \A v \in DOMAIN lineas :
            bolsa[v] = IF lineas[v].cancelada THEN 0 ELSE lineas[v].cantidad

\* Approving a proposal gives what it said: its total and its pieces, found
\* or still to be found (calculadora-ajuste.util: one calculation for what is
\* proposed and what is charged).
Aprobada ==
    /\ propuesta # NADA
    /\ propuesta' = NADA
    /\ peticion' = peticion
    /\ estado' \in {"REVISADO", "EN_REVISION"}

PiezasDe(ls, v) == IF v \in Activas(ls) THEN ls[v].cantidad ELSE 0

LaPropuestaSeCumple ==
    [][Aprobada =>
          /\ total' = propuesta.total
          /\ \A v \in DOMAIN propuesta.cambios :
                PiezasDe(lineas', v) = propuesta.cambios[v].n]_vars
=============================================================================
