---------------------------- MODULE VistasPagos ----------------------------
(***************************************************************************)
(* What the screen of Tesoreria shows of the payments of an order: the     *)
(* groups in which they are listed and the buttons that the detail of one  *)
(* offers.  Read-only: the handlers behind the buttons are the actions of  *)
(* Transferencia, and nobody else decides on the money.  Pages, searches   *)
(* and warnings are left out.                                              *)
(***************************************************************************)
EXTENDS Transferencia

\* GRUPOS and whereDeGrupo: the states of each list.
GRUPOS ==
    [porRevisar |-> {"EN_REVISION"},
     esperando  |-> {"PENDIENTE"},
     verificados |-> {"VERIFICADO"},
     reembolsos |-> {"REEMBOLSO_PENDIENTE"},
     historial  |-> {"APLICADO", "REEMBOLSADO", "CANCELADO", "VENCIDO"}]

EnGrupo(i, g) == pagos[i].estado \in GRUPOS[g]

EnRequierenRevision(i) == pagos[i].revision /\ pagos[i].estado \in Abiertos

\* The lists of work: what is only in the history waits for nobody.
EnColaDeTesoreria(i) ==
    \/ \E g \in DOMAIN GRUPOS \ {"historial"} : EnGrupo(i, g)
    \/ EnRequierenRevision(i)

-----------------------------------------------------------------------------
(* detalle.acciones.                                                       *)

pedidoPagable == pedido = "PENDIENTE_PAGO"

ApruebaSinMirarOtro(i) ==
    /\ pagos[i].estado \in ESTADOS_QUE_SE_PUEDEN_APROBAR
    /\ pedidoPagable
    /\ ~pagos[i].revision

\* Another payment under way is looked for only when this one had expired.
puedeAprobar(i) ==
    /\ pagos[i].estado \in ESTADOS_QUE_SE_PUEDEN_APROBAR
    /\ pedidoPagable
    /\ ~pagos[i].revision
    /\ pagos[i].estado = "VENCIDO" => ~OtroActivo(i)

puedeVencer(i)          == pagos[i].estado = "PENDIENTE"
puedeRechazar(i)        == pagos[i].estado = "EN_REVISION"
puedeReembolsar(i)      == pagos[i].estado = "REEMBOLSO_PENDIENTE"
puedeResolverRevision(i) == pagos[i].revision /\ pedidoPagable

puedeRegistrarAbonoSinPedido(i) ==
    pagos[i].estado \in ESTADOS_ABONO_SIN_PEDIDO /\ ~pedidoPagable

-----------------------------------------------------------------------------
\* "Son las mismas guardas que aplican": a button is offered when, and only
\* when, what it asks for would not be refused (tesoreria.service, detalle).
\* The screen reads without the lock of the order, so it is said while nobody
\* holds it.
AccionesFieles ==
    PedidoLibre =>
        \A i \in IdPago :
            /\ puedeAprobar(i)          <=> ENABLED Aprueba(i)
            /\ puedeVencer(i)           <=> ENABLED Vence(i)
            /\ puedeReembolsar(i)       <=> ENABLED RegistraReembolso(i)
            /\ puedeResolverRevision(i) <=> ENABLED ResuelveRevision(i)
            /\ puedeRechazar(i)         <=> pagos[i].estado = "EN_REVISION"
                                             /\ pagos[i].pendientes > 0

\* The button of an abono does not look for another payment under way, and the
\* unique index refuses what it asks for.
AbonoOfrecidoCabe ==
    PedidoLibre =>
        \A i \in IdPago : puedeRegistrarAbonoSinPedido(i) => ENABLED AbonoSinPedido(i)

\* A payment that only its mark keeps from being approved is in the list where
\* the mark is resolved: Vence clears it for that (tesoreria.service,
\* cerrarPorVencimiento).  It fails when the mark of a payment that was read open
\* is written after it expired.
LoMarcadoSeVe ==
    pedidoPagable =>
        \A i \in IdPago :
            pagos[i].estado \in ESTADOS_QUE_SE_PUEDEN_APROBAR /\ pagos[i].revision
                => EnColaDeTesoreria(i)
=============================================================================
