--------------------------- MODULE Transferencia ---------------------------
(***************************************************************************)
(* The payments by bank transfer of one order: what the customer and the   *)
(* till do with them, what Tesoreria decides, and what happens to their    *)
(* money when the order is cancelled or charged elsewhere.                 *)
(*                                                                         *)
(* Almost every transaction begins by locking the row of the order         *)
(* (bloquearPedido, or the UPDATE of its state), and a payment is written  *)
(* on condition that its state is still the expected one.  The uploading   *)
(* of a comprobante, the marks for review and resolverPagoAlCobrarse do    *)
(* not take that lock: a transaction that one of them can interleave with  *)
(* is two steps here, and holds the lock between them.                     *)
(***************************************************************************)
EXTENDS Naturals, FiniteSets

CONSTANTS
    IdPago,         \* the payments that the order can have
    Peticiones,     \* requests that can be in flight at once
    NADIE,          \* no payment
    MAX_COMPROBANTES_PENDIENTES,
    MAX_COMPROBANTES_POR_PAGO

ASSUME NadieNoEsPago == NADIE \notin IdPago
ASSUME TopesAssumption ==
    /\ MAX_COMPROBANTES_PENDIENTES \in Nat \ {0}
    /\ MAX_COMPROBANTES_POR_PAGO \in Nat \ {0}

VARIABLES
    pedido,         \* Pedido.estado, without what transfers do not tell apart
    pagos,          \* the rows of PedidoPagoTransferencia, by id
    peticiones      \* what each request in flight read, or Libre

vars == <<pedido, pagos, peticiones>>

-----------------------------------------------------------------------------
EstadosPedido == {"TIENDA", "PENDIENTE_PAGO", "PAGADO", "ENTREGADO", "CANCELADO"}
YaCobrados    == {"PAGADO", "ENTREGADO"}

EstadosPago ==
    {"PENDIENTE", "EN_REVISION", "VERIFICADO", "APLICADO", "CANCELADO",
     "VENCIDO", "REEMBOLSO_PENDIENTE", "REEMBOLSADO"}

\* A payment in one of these takes the only place of its order (partial unique
\* index of the table).
ESTADOS_ACTIVOS == {"PENDIENTE", "EN_REVISION", "VERIFICADO", "REEMBOLSO_PENDIENTE"}

\* Those that wait for something of the customer, of Tesoreria or of the till.
ESTADOS_NO_COBRAR == {"PENDIENTE", "EN_REVISION"}
Abiertos          == ESTADOS_NO_COBRAR \cup {"VERIFICADO"}
\* Those that the cancellation of the order has to resolve.
AlCancelar        == Abiertos \cup {"APLICADO"}

ESTADOS_QUE_SE_PUEDEN_APROBAR == ESTADOS_NO_COBRAR \cup {"VENCIDO"}
ESTADOS_ABONO_SIN_PEDIDO      == ESTADOS_NO_COBRAR \cup {"CANCELADO", "VENCIDO"}

\* pendientes: comprobantes to be reviewed.  total: all of them, reviewed or
\* not.  revision: requiereRevision is not null.
Pagos ==
    [estado     : EstadosPago \cup {"NO_EXISTE"},
     revision   : BOOLEAN,
     pendientes : Nat,
     total      : Nat]

SinEmitir == [estado |-> "NO_EXISTE", revision |-> FALSE, pendientes |-> 0, total |-> 0]

PasosConBloqueo == {"RECHAZAR", "CANCELAR"}

Pasos ==
    {"NINGUNO", "CAMBIAR_A_TIENDA", "SUBIR", "COBRAR", "COBRAR_MANUAL",
     "RESOLVER_COBRO", "APLICAR", "MARCAR_REVISION"} \cup PasosConBloqueo

\* pago, est: the payment that the request read and its state.  n, quedan: the
\* comprobantes it refuses, and whether others are left to be reviewed.
Lecturas ==
    [paso   : Pasos,
     pago   : IdPago \cup {NADIE},
     est    : EstadosPago,
     n      : Nat,
     quedan : BOOLEAN]

Libre == [paso |-> "NINGUNO", pago |-> NADIE, est |-> "PENDIENTE", n |-> 0, quedan |-> FALSE]

Lectura(paso)   == [Libre EXCEPT !.paso = paso]
LecturaDe(paso, i) == [Lectura(paso) EXCEPT !.pago = i]

TypeOK ==
    /\ pedido \in EstadosPedido
    /\ pagos \in [IdPago -> Pagos]
    /\ peticiones \in [Peticiones -> Lecturas]

Init ==
    /\ pedido = "TIENDA"
    /\ pagos = [i \in IdPago |-> SinEmitir]
    /\ peticiones = [r \in Peticiones |-> Libre]

-----------------------------------------------------------------------------
(* Rows, locks and requests.                                               *)

Activo(i) == pagos[i].estado \in ESTADOS_ACTIVOS

\* pedidos_pagos_transferencia_activo_unico.
OtroActivo(i) == \E j \in IdPago \ {i} : Activo(j)

SinBloqueo == TRUE
\* Nobody holds the row of the order.
PedidoLibre == \A r \in Peticiones : peticiones[r].paso \notin PasosConBloqueo

Escribe(i, p) ==
    /\ p.estado \in ESTADOS_ACTIVOS => ~OtroActivo(i)
    /\ pagos' = [pagos EXCEPT ![i] = p]

\* An UPDATE of the state and, when there is nothing left to clear up, of the
\* mark.
Mueve(i, e)       == Escribe(i, [pagos[i] EXCEPT !.estado = e])
MueveSinMarca(i, e) == Escribe(i, [pagos[i] EXCEPT !.estado = e, !.revision = FALSE])
Marca(i)          == Escribe(i, [pagos[i] EXCEPT !.revision = TRUE])

En(r, paso)  == peticiones[r].paso = paso
Sigue(r, l)  == peticiones' = [peticiones EXCEPT ![r] = l]
Termina(r)   == Sigue(r, Libre)

Recibe(r, l) == En(r, "NINGUNO") /\ Sigue(r, l) /\ UNCHANGED <<pedido, pagos>>

\* A guard that fails, a 409, a rollback or the death of the process.
Abandona(r) ==
    /\ peticiones[r] # Libre
    /\ Termina(r)
    /\ UNCHANGED <<pedido, pagos>>

-----------------------------------------------------------------------------
(* The order: its way through the till, and the payment that it brings.    *)

CreaPago ==
    \E i \in IdPago :
        /\ pagos[i].estado = "NO_EXISTE"
        /\ Mueve(i, "PENDIENTE")

\* emitirTransferenciaAlPasarAPago: only for the customer who chose it.
PasaACaja ==
    /\ pedido = "TIENDA"
    /\ PedidoLibre
    /\ pedido' = "PENDIENTE_PAGO"
    /\ CreaPago \/ UNCHANGED pagos
    /\ UNCHANGED peticiones

EntregaPedido ==
    /\ pedido = "PAGADO"
    /\ PedidoLibre
    /\ pedido' = "ENTREGADO"
    /\ UNCHANGED <<pagos, peticiones>>

EmiteAunqueEsteCobrado == /\ pedido \notin {"TIENDA", "CANCELADO"} /\ PedidoLibre
                          /\ CreaPago
                          /\ UNCHANGED <<pedido, peticiones>>

EmiteInstrucciones ==
    /\ pedido = "PENDIENTE_PAGO"
    /\ PedidoLibre
    /\ CreaPago
    /\ UNCHANGED <<pedido, peticiones>>

\* marcarComoPagado.  The agent, and an ADMIN who forces it, charge whatever
\* there is; an ADMIN who does not is refused if a transfer is under way.
LeeCobrar(r) ==
    /\ pedido = "PENDIENTE_PAGO"
    /\ \/ Recibe(r, Lectura("COBRAR"))
       \/ /\ \A i \in IdPago : pagos[i].estado \notin ESTADOS_NO_COBRAR
          /\ Recibe(r, Lectura("COBRAR_MANUAL"))

Cobra(r) ==
    /\ En(r, "COBRAR") \/ En(r, "COBRAR_MANUAL")
    /\ pedido = "PENDIENTE_PAGO"
    /\ PedidoLibre
    /\ pedido' = "PAGADO"
    /\ Sigue(r, Lectura("RESOLVER_COBRO"))
    /\ UNCHANGED pagos

-----------------------------------------------------------------------------
(* The customer and the till: pago-transferencia.service.                  *)

LeeCambiarATienda(r) == \E i \in IdPago :
    /\ pagos[i].estado = "PENDIENTE"
    /\ Recibe(r, LecturaDe("CAMBIAR_A_TIENDA", i))

\* It writes the preferred method in the order, so it needs its row too.
CambiaATienda(r) ==
    LET i == peticiones[r].pago IN
    /\ En(r, "CAMBIAR_A_TIENDA")
    /\ pagos[i].estado = "PENDIENTE"
    /\ PedidoLibre
    /\ Mueve(i, "CANCELADO")
    /\ Termina(r)
    /\ UNCHANGED pedido

SinTopes(p)   == TRUE
TopesMasUno(p) == /\ p.total <= MAX_COMPROBANTES_POR_PAGO
                  /\ p.pendientes <= MAX_COMPROBANTES_PENDIENTES
CabeOtroComprobante(p) ==
    /\ p.total < MAX_COMPROBANTES_POR_PAGO
    /\ p.pendientes < MAX_COMPROBANTES_PENDIENTES

LeeSubir(r) == \E i \in IdPago :
    /\ pedido = "PENDIENTE_PAGO"
    /\ pagos[i].estado \in ESTADOS_NO_COBRAR
    /\ CabeOtroComprobante(pagos[i])
    /\ Recibe(r, LecturaDe("SUBIR", i))

SubeSinReleer(r) ==
    LET i == peticiones[r].pago
        p == pagos[i]
    IN  /\ En(r, "SUBIR")
        /\ Escribe(i, [p EXCEPT !.estado = "EN_REVISION", !.pendientes = @ + 1, !.total = @ + 1])
        /\ Termina(r)
        /\ UNCHANGED pedido

\* The file goes up to the storage between the read and this transaction, which
\* looks again at the state of the payment, and at nothing else.
Sube(r) ==
    LET i == peticiones[r].pago
        p == pagos[i]
    IN  /\ En(r, "SUBIR")
        /\ p.estado \in ESTADOS_NO_COBRAR
        /\ Escribe(i, [p EXCEPT !.estado     = "EN_REVISION",
                                !.pendientes = @ + 1,
                                !.total      = @ + 1])
        /\ Termina(r)
        /\ UNCHANGED pedido

-----------------------------------------------------------------------------
(* Tesoreria: tesoreria.service.                                           *)

\* The money is in the bank: the comprobantes to be reviewed are accepted.
Acepta(i, e) == Escribe(i, [pagos[i] EXCEPT !.estado = e, !.pendientes = 0])

\* A payment that had expired can be verified too, unless the customer has
\* another one by then: Acepta needs the place free.
Aprueba(i) ==
    /\ PedidoLibre
    /\ pagos[i].estado \in ESTADOS_QUE_SE_PUEDEN_APROBAR
    /\ pedido = "PENDIENTE_PAGO"
    /\ ~pagos[i].revision
    /\ Acepta(i, "VERIFICADO")
    /\ UNCHANGED <<pedido, peticiones>>

\* One comprobante or all: n of them.  A comprobante that comes before the
\* count (quedan) is one of those left; one that comes after is not seen.
RechazaEmpieza(r) == \E i \in IdPago : \E n \in 1..pagos[i].pendientes :
    /\ PedidoLibre
    /\ pagos[i].estado = "EN_REVISION"
    /\ Recibe(r, [LecturaDe("RECHAZAR", i) EXCEPT
                    !.n = n, !.quedan = n < pagos[i].pendientes])

SiempreReabre(quedan) == IF pedido = "PENDIENTE_PAGO" THEN "PENDIENTE" ELSE "CANCELADO"
SigueEnRevision(quedan) == "EN_REVISION"

DestinoTrasRechazo(quedan) ==
    CASE quedan                                  -> "EN_REVISION"
      [] ~quedan /\ pedido = "PENDIENTE_PAGO"    -> "PENDIENTE"
      [] ~quedan /\ pedido # "PENDIENTE_PAGO"    -> "CANCELADO"

RestaDeMas(p, n) == p.pendientes - n - 1
Quedan(p, n) == p.pendientes - n

\* The mark of an order that can no longer be paid is resolved by this.
RechazaTermina(r) ==
    LET l == peticiones[r]
        p == pagos[l.pago]
    IN  /\ En(r, "RECHAZAR")
        /\ p.estado = "EN_REVISION"
        /\ Escribe(l.pago, [p EXCEPT
                              !.estado     = DestinoTrasRechazo(l.quedan),
                              !.pendientes = Quedan(p, l.n),
                              !.revision   = @ /\ pedido = "PENDIENTE_PAGO"])
        /\ Termina(r)
        /\ UNCHANGED pedido

AbonoConPedidoVivo(i) ==
    /\ PedidoLibre
    /\ pagos[i].estado \in ESTADOS_ABONO_SIN_PEDIDO
    /\ Escribe(i, [pagos[i] EXCEPT !.estado = "REEMBOLSO_PENDIENTE",
                                   !.pendientes = 0, !.revision = FALSE])
    /\ UNCHANGED <<pedido, peticiones>>

\* The money came and the order no longer waits for it.
AbonoSinPedido(i) ==
    /\ PedidoLibre
    /\ pagos[i].estado \in ESTADOS_ABONO_SIN_PEDIDO
    /\ pedido # "PENDIENTE_PAGO"
    /\ Escribe(i, [pagos[i] EXCEPT !.estado     = "REEMBOLSO_PENDIENTE",
                                   !.pendientes = 0,
                                   !.revision   = FALSE])
    /\ UNCHANGED <<pedido, peticiones>>

RegistraReembolso(i) ==
    /\ pagos[i].estado = "REEMBOLSO_PENDIENTE"
    /\ Mueve(i, "REEMBOLSADO")
    /\ UNCHANGED <<pedido, peticiones>>

ResuelveRevision(i) ==
    /\ PedidoLibre
    /\ pedido = "PENDIENTE_PAGO"
    /\ pagos[i].revision
    /\ MueveSinMarca(i, pagos[i].estado)
    /\ UNCHANGED <<pedido, peticiones>>

Vence(i) ==
    /\ PedidoLibre
    /\ pagos[i].estado = "PENDIENTE"
    /\ MueveSinMarca(i, "VENCIDO")
    /\ UNCHANGED <<pedido, peticiones>>

-----------------------------------------------------------------------------
(* What other modules do to a payment: hooks.ts.                           *)

CancelarSoloAbiertos(e) == e \in Abiertos
SeResuelveAlCancelar(e) == e \in AlCancelar

\* The transaction that cancels the order, with its row locked, reads the
\* payment (resolverPagoAlCancelarse: findFirst, in no order).
CancelaEmpieza(r) ==
    LET Vivos == {i \in IdPago : SeResuelveAlCancelar(pagos[i].estado)} IN
    /\ PedidoLibre
    /\ pedido \notin {"ENTREGADO", "CANCELADO"}
    /\ \/ Vivos = {} /\ Recibe(r, Lectura("CANCELAR"))
       \/ \E i \in Vivos :
             Recibe(r, [LecturaDe("CANCELAR", i) EXCEPT !.est = pagos[i].estado])

\* It writes the payment, unless somebody moved it meanwhile, and commits.  A
\* payment EN_REVISION is marked whatever has become of it.
CancelaTermina(r) ==
    LET l == peticiones[r]
        i == l.pago
    IN  /\ En(r, "CANCELAR")
        /\ pedido' = "CANCELADO"
        /\ CASE i = NADIE -> UNCHANGED pagos
             [] i # NADIE /\ l.est = "EN_REVISION" -> Marca(i)
             [] i # NADIE /\ l.est # "EN_REVISION" ->
                  IF pagos[i].estado # l.est THEN UNCHANGED pagos
                  ELSE Mueve(i, IF l.est = "PENDIENTE" THEN "CANCELADO"
                                ELSE "REEMBOLSO_PENDIENTE")
        /\ Termina(r)

\* resolverPagoAlCobrarse, after the commit of the charge and without its lock.
LeeAplicar(r) ==
    LET Vivos == {i \in IdPago : pagos[i].estado \in Abiertos} IN
    /\ En(r, "RESOLVER_COBRO")
    /\ \/ Vivos = {} /\ Termina(r)
       \/ \E i \in Vivos :
             Sigue(r, [LecturaDe("APLICAR", i) EXCEPT !.est = pagos[i].estado])
    /\ UNCHANGED <<pedido, pagos>>

Aplica(r) ==
    LET l == peticiones[r]
        i == l.pago
    IN  /\ En(r, "APLICAR")
        /\ IF l.est = "EN_REVISION" THEN Marca(i)
           ELSE IF pagos[i].estado # l.est THEN UNCHANGED pagos
           ELSE Mueve(i, IF l.est = "VERIFICADO" THEN "APLICADO" ELSE "CANCELADO")
        /\ Termina(r)
        /\ UNCHANGED pedido

SanaAntesDeCobrar(r) ==
    /\ \E i \in IdPago : pagos[i].estado = "VERIFICADO"
    /\ Recibe(r, Lectura("RESOLVER_COBRO"))

\* sanarSiYaSeCobro: whoever looks at the payment repairs a charge that died
\* before it got to the payment, if this had been verified.
Sana(r) ==
    /\ pedido \in YaCobrados
    /\ \E i \in IdPago : pagos[i].estado = "VERIFICADO"
    /\ Recibe(r, Lectura("RESOLVER_COBRO"))

\* marcarPagoRequiereRevision: the total of the order changed in the ERP.
LeeMarcarRevision(r) == \E i \in IdPago :
    /\ pedido = "PENDIENTE_PAGO"
    /\ pagos[i].estado \in Abiertos
    /\ Recibe(r, LecturaDe("MARCAR_REVISION", i))

MarcaRevision(r) ==
    /\ En(r, "MARCAR_REVISION")
    /\ Marca(peticiones[r].pago)
    /\ Termina(r)
    /\ UNCHANGED pedido

-----------------------------------------------------------------------------
DelPedido == PasaACaja \/ EntregaPedido \/ EmiteInstrucciones

DeTesoreria(i) ==
    \/ Aprueba(i) \/ AbonoSinPedido(i) \/ RegistraReembolso(i)
    \/ ResuelveRevision(i) \/ Vence(i)

DePeticion(r) ==
    \/ LeeCobrar(r) \/ Cobra(r)
    \/ LeeCambiarATienda(r) \/ CambiaATienda(r)
    \/ LeeSubir(r) \/ Sube(r)
    \/ RechazaEmpieza(r) \/ RechazaTermina(r)
    \/ CancelaEmpieza(r) \/ CancelaTermina(r)
    \/ LeeAplicar(r) \/ Aplica(r) \/ Sana(r)
    \/ LeeMarcarRevision(r) \/ MarcaRevision(r)
    \/ Abandona(r)

Next ==
    \/ DelPedido
    \/ \E i \in IdPago : DeTesoreria(i)
    \/ \E r \in Peticiones : DePeticion(r)

Spec == Init /\ [][Next]_vars

-----------------------------------------------------------------------------
(* Properties of every interleaving.                                       *)

\* The cancellation and the charge of an order resolve the first payment that
\* they find in no order: there is never another one they should have found.
\* The unique index alone does not say it, for APLICADO is not in it.
PagoInequivoco ==
    \A i, j \in IdPago :
        pagos[i].estado \in AlCancelar /\ pagos[j].estado \in AlCancelar => i = j

\* A cancelled order leaves no instructions that somebody can still pay, nor a
\* verified transfer that nobody is going to apply or give back.
CanceladoSinPagoAbierto ==
    pedido = "CANCELADO" =>
        \A i \in IdPago : pagos[i].estado \notin {"PENDIENTE", "VERIFICADO"}

\* A payment under review always has a comprobante to review: rechazar refuses
\* one that has none, and nothing else would take it out of there.
RevisionConComprobante ==
    \A i \in IdPago : pagos[i].estado = "EN_REVISION" => pagos[i].pendientes > 0

\* Money to be given back is never that of an order which still waits for it.
ReembolsoSinVenta ==
    pedido = "PENDIENTE_PAGO" =>
        \A i \in IdPago : pagos[i].estado # "REEMBOLSO_PENDIENTE"

\* A transfer is applied to an order that was charged.
AplicadoSoloCobrado ==
    pedido \in {"TIENDA", "PENDIENTE_PAGO"} =>
        \A i \in IdPago : pagos[i].estado # "APLICADO"

\* The limit of comprobantes is read before the file goes up, so uploads that
\* coincide pass it, but never by more than there are of them.
ComprobantesAcotados ==
    \A i \in IdPago :
        pagos[i].total < MAX_COMPROBANTES_POR_PAGO + Cardinality(Peticiones)

\* Verified money is applied or given back, whoever writes the payment: it is
\* never back to waiting, under review, expired or cancelled.
Verificados == {"VERIFICADO", "APLICADO", "REEMBOLSO_PENDIENTE", "REEMBOLSADO"}

DineroVerificadoNoSePierde ==
    [][\A i \in IdPago :
          pagos[i].estado \in Verificados => pagos'[i].estado \in Verificados]_vars

-----------------------------------------------------------------------------
(* Properties of one request at a time.                                    *)

\* The comprobantes to be reviewed are those of a payment under review.
ComprobantesSoloEnRevision ==
    \A i \in IdPago : pagos[i].pendientes > 0 <=> pagos[i].estado = "EN_REVISION"

TopesDeComprobantes ==
    \A i \in IdPago :
        /\ pagos[i].total <= MAX_COMPROBANTES_POR_PAGO
        /\ pagos[i].pendientes <= MAX_COMPROBANTES_PENDIENTES

-----------------------------------------------------------------------------
(* What the code says of itself and its interleavings refute.              *)

\* "VERIFICADO/APLICADO -> REEMBOLSO_PENDIENTE": no transfer stays applied to
\* an order that was cancelled.  One request at a time keeps it.
CanceladoSinDineroAplicado ==
    pedido = "CANCELADO" => \A i \in IdPago : pagos[i].estado # "APLICADO"
=============================================================================
