------------------------------- MODULE Vistas -------------------------------
(***************************************************************************)
(* The work lists of the consoles and screens, as predicates on the order  *)
(* of module Pedido: each tells when its query returns the order.  None    *)
(* writes.  Their order, pages and formats are left out, and so is the     *)
(* cashier that has taken an order: the line of the till and the window    *)
(* that took an order from it are one list here (module Caja tells them    *)
(* apart).                                                                 *)
(***************************************************************************)
EXTENDS Pedido

\* monitor.service, obtenerMonitor: the two columns of the warehouse screen.
EnColumnasDeBodega ==
    \/ ped.estado = "SOLICITADO"
    \/ ped.estado = "EN_REVISION" /\ ped.asignado = NADIE

\* bodega.service, obtenerPedidosBodega: the list of the warehouse console.
EnColaDeBodega == ped.estado \in {"SOLICITADO", "EN_REVISION"}

\* obtenerMisPedidosBodeguero, and the card of that user on the screen.
EnFicha(u) == ped.asignado = u /\ ped.estado = "EN_REVISION"

\* ventas.service, obtenerCola: ESPERANDO_CLIENTE asks who created the proposal.
EnColaDeVentas ==
    \/ ped.estado = "EN_ASESORIA"
    \/ /\ ped.estado = "ESPERANDO_APROBACION"
       /\ \E i \in IdPropuesta : Pendiente(i) /\ propuestas[i].origen = "VENTAS"

EnColaSoloRevisado == ped.estado = "REVISADO" /\ ped.presente

\* mostrador-query.service: the queue of the counter, the bags whose customer
\* is not there, and what is ready to be handed over.
EnColaDelMostrador == ped.estado \in {"REVISADO", "EN_ATENCION"} /\ ped.presente
SinAviso           == ped.estado \in ESTADOS_ESPERA_CLIENTE /\ ~ped.presente
ListoParaEntregar  == ped.estado \in {"PAGADO", "ENVIADO"}

\* The screen of the counter draws the same queue in two panels.
EnLaTv == ped.presente /\ (ped.estado = "REVISADO" \/ ped.estado = "EN_ATENCION")

\* cola-caja.util, whereFilaDeCaja without incluirDomicilio.
EnFilaDeCaja == ped.estado = "PENDIENTE_PAGO" /\ ~ped.domicilio

\* cajero.service, obtenerColaVentanilla: that line, of every channel.
EnColaDeVentanilla == EnFilaDeCaja

\* What the customer's own list asks him to do: to answer, or to transfer the
\* money of an order that is delivered at home.
LoTieneElCliente ==
    \/ ped.estado = "ESPERANDO_APROBACION" /\ HayPendiente
    \/ ped.estado = "PENDIENTE_PAGO" /\ ped.domicilio

LoVeAlguien ==
    \/ EnColumnasDeBodega /\ EnColaDeBodega
    \/ \E u \in Bodegueros : EnFicha(u)
    \/ EnColaDeVentas
    \/ EnColaDelMostrador /\ EnLaTv
    \/ SinAviso
    \/ ListoParaEntregar
    \/ EnColaDeVentanilla
    \/ LoTieneElCliente

\* torre-control.service: the stages whose orders the control tower counts.
EnLaTorre ==
    \/ ped.estado \in {"SOLICITADO", "EN_REVISION", "EN_ASESORIA", "ESPERANDO_APROBACION",
                       "REVISADO", "EN_ATENCION", "EN_DTF", "PAGADO", "ENVIADO"}
    \/ EnFilaDeCaja

\* No order is lost between two consoles: while it lives, somebody has it in a
\* list he works from, and the control tower counts it.  What waits for the
\* printer is in module Dtf, and the tower leaves out by design the home
\* deliveries that nobody has paid.
TodoPedidoSeVe ==
    ped.estado \notin {"ENTREGADO", "CANCELADO", "EN_DTF"}
      => LoVeAlguien /\ (EnLaTorre \/ LoTieneElCliente)

\* "asi el vendedor ve en una sola lista todo lo que tiene entre manos": every
\* proposal of the sales console that waits for an answer is in its queue.
PropuestaDeAsesorSeVe ==
    \A i \in IdPropuesta :
        /\ ped.estado = "ESPERANDO_APROBACION"
        /\ Pendiente(i) /\ propuestas[i].origen # "BODEGA"
        => EnColaDeVentas

-----------------------------------------------------------------------------
(***************************************************************************)
(* destrabar.service: what the manager may do with an order that is stuck. *)
(* accionesDe decides what the panel offers from lists of states of its    *)
(* own; ejecutar calls the handlers of Pedido, that go through the state   *)
(* machine.  The actions on transfers are in module Transferencia.         *)
(***************************************************************************)
RESPONDIBLES_POR_LA_TIENDA == {"ESPERANDO_APROBACION", "REVISADO", "EN_ATENCION"}
AjustablesEnAsesoria       == {"EN_ASESORIA", "ESPERANDO_APROBACION", "REVISADO"}
AJUSTABLES_POR_LA_TIENDA   == {"ESPERANDO_APROBACION", "REVISADO"}

AccionId ==
    {"APROBAR_PROPUESTA", "RECHAZAR_PROPUESTA", "DEVOLVER_A_BODEGA", "QUITAR_PRODUCTOS",
     "LIBERAR_BODEGA", "CANCELAR_SIN_PAGO", "MARCAR_PAGADO", "MARCAR_ENTREGADO",
     "CANCELAR_PAGADO"}

\* accionesDe: offered, and not greyed out.
Ofrece(a) ==
    CASE a \in {"APROBAR_PROPUESTA", "RECHAZAR_PROPUESTA"} ->
            ped.estado \in RESPONDIBLES_POR_LA_TIENDA /\ HayPendiente
      [] a = "DEVOLVER_A_BODEGA" -> ped.estado = "EN_ASESORIA"
      [] a = "QUITAR_PRODUCTOS"  ->
            /\ ped.estado \in AJUSTABLES_POR_LA_TIENDA
            /\ ~ped.soloDtf /\ ped.lineas = "COMPLETAS"
      [] a = "LIBERAR_BODEGA"    -> ped.estado = "EN_REVISION" /\ ped.asignado # NADIE
      [] a = "CANCELAR_SIN_PAGO" -> ped.estado \in CANCELABLES_SIN_PAGO
      [] a = "MARCAR_PAGADO"     -> ped.estado = "PENDIENTE_PAGO"
      [] a = "MARCAR_ENTREGADO"  -> ped.estado \in {"PAGADO", "ENVIADO"}
      [] a = "CANCELAR_PAGADO"   -> ped.estado = "PAGADO"

DeBodegaEs(i) == propuestas[i].origen = "BODEGA"

\* ejecutar: the transition that the handler of the action then asks for.
Cabe(a) ==
    CASE a = "APROBAR_PROPUESTA" ->
            \A i \in IdPropuesta : Pendiente(i) =>
                IF DeBodegaEs(i)
                THEN Admite(ped, DestinoAprobada,
                            [OpcionesDeSurtido(DestinoAprobada) EXCEPT !.mismo = TRUE])
                ELSE Admite(ped, "EN_REVISION", VuelveABodega)
      [] a = "RECHAZAR_PROPUESTA" ->
            \A i \in IdPropuesta : Pendiente(i) =>
                Admite(ped, IF DeBodegaEs(i) THEN "CANCELADO" ELSE "EN_ASESORIA", SaleDeBodega)
      [] a = "DEVOLVER_A_BODEGA" -> Admite(ped, "EN_REVISION", VuelveABodega)
      [] a = "QUITAR_PRODUCTOS"  ->
            \* ajustar moves what waited for approval to the table.
            /\ ped.estado \in RESPONDIBLES_POR_LA_TIENDA
            /\ Admite(ped, IF ped.estado = "ESPERANDO_APROBACION" THEN "REVISADO"
                           ELSE ped.estado,
                      OpcionesDeAjuste(FALSE))
      [] a = "LIBERAR_BODEGA"    -> ped.estado = "EN_REVISION"
      [] a \in {"CANCELAR_SIN_PAGO", "CANCELAR_PAGADO"} ->
            Admite(ped, "CANCELADO", SaleDeBodega)
      [] a = "MARCAR_PAGADO"     -> ped.estado = "PENDIENTE_PAGO" /\ ped.encolado
      [] a = "MARCAR_ENTREGADO"  -> Admite(ped, "ENTREGADO", SinOpciones)

\* What the panel offers can be done, all but refusing a proposal, that is
\* below: its own lists of states agree with the machine that will be asked.
LoDemasOfrecidoCabe ==
    \A a \in AccionId \ {"RECHAZAR_PROPUESTA"} : Ofrece(a) => Cabe(a)

\* "Rechazar la propuesta (regresa con el asesor)": a refusal that is offered
\* can be done.
RechazoOfrecidoCabe == Ofrece("RECHAZAR_PROPUESTA") => Cabe("RECHAZAR_PROPUESTA")
=============================================================================
