------------------------------- MODULE Pedido -------------------------------
(***************************************************************************)
(* One order and the HTTP handlers that move it.  A handler reads the      *)
(* order outside any transaction and validates what it read (Lee...); its  *)
(* Prisma transaction commits later, against whatever the order is by      *)
(* then; some go on after the commit with what they read before it.  Two   *)
(* requests interleave at those points.  A request may also end at any of  *)
(* them without doing anything more: a refused guard, a 409, a rollback or *)
(* the death of the process (Abandona).                                    *)
(*                                                                         *)
(* Operaciones chooses which handlers an instance receives.                *)
(***************************************************************************)
EXTENDS MaquinaPedido

CONSTANTS
    Peticiones,     \* requests that can be in flight at once
    IdPropuesta,    \* the proposals that an order can have
    Operaciones     \* the handlers that receive requests

OperacionesConocidas ==
    {"TOMAR", "TOMAR_GRUPO", "LIBERAR", "MARCAR_ITEM", "CONFIRMAR_SURTIDO", "ENVIAR",
     "ENVIAR_PROPUESTA", "DEVOLVER_A_BODEGA", "RESPONDER",
     "ENVIAR_A_PAGAR", "AJUSTAR", "CANCELAR_MOSTRADOR", "DEVOLVER_A_COLA",
     "TRAER_A_ENTREGA", "LLAMAR", "ENTREGAR",
     "AVISAR_LLEGADA", "RETIRAR_AVISO", "DESCARTAR", "NO_SE_PRESENTO",
     "CANCELAR_CLIENTE", "CANCELAR_SIN_PAGO", "CANCELAR_PAGADO",
     "CANCELAR_ERP", "CANCELAR_VENCIDO", "PAGAR_AGENTE", "PAGAR_MANUAL",
     "DTF_TERMINAR", "DTF_REIMPRIMIR"}

ASSUME OperacionesAssumption == Operaciones \subseteq OperacionesConocidas
ASSUME NadieNoEsPropuesta == NADIE \notin IdPropuesta

VARIABLES
    ped,            \* the row of the order
    propuestas,     \* the proposals of the order, by id
    peticiones      \* what each request in flight read, or Libre

vars == <<ped, propuestas, peticiones>>

-----------------------------------------------------------------------------
Origenes == {"BODEGA", "VENTAS", "ADMIN"}          \* creadaPorRol
EstadosPropuesta == {"PENDIENTE", "ACEPTADA", "RECHAZADA", "SUPERADA"}

NoExiste == [origen |-> "BODEGA", estado |-> "NO_EXISTE"]
Propuestas == [origen : Origenes, estado : EstadosPropuesta \cup {"NO_EXISTE"}]

DECISIONES_POR_ORIGEN ==
    [BODEGA |-> {"APROBAR", "RECHAZAR", "CONTACTAR_ASESOR"},
     VENTAS |-> {"APROBAR", "RECHAZAR", "CANCELAR_PEDIDO"},
     ADMIN  |-> {"APROBAR", "RECHAZAR", "CONTACTAR_ASESOR", "CANCELAR_PEDIDO"}]

DecisionesDelOperador == {"APROBAR", "RECHAZAR"}

\* What a request carries from its read to its commit: its step, who asks,
\* the state it read, the state it decided to go to, the proposal it is about
\* and a yes/no that its step explains.
Pasos ==
    OperacionesConocidas \cup
    {"NINGUNO", "APROBAR", "RECHAZAR", "CONTACTAR_ASESOR", "CANCELAR_PEDIDO",
     "APROBADA_CON_RESIDUO", "APROBADA_SIN_PENDIENTES", "CONFIRMAR_LLEGADA",
     "REACCIONAR", "DTF_RESOLVER", "DTF_REABRIR", "DTF_REABIERTO"}

Lecturas ==
    [paso  : Pasos,
     quien : Bodegueros \cup {NADIE},
     est   : EstadosPedido,
     dest  : EstadosPedido,
     prop  : IdPropuesta \cup {NADIE},
     dato  : BOOLEAN]

Libre == [paso |-> "NINGUNO", quien |-> NADIE, est |-> "SOLICITADO",
          dest |-> "SOLICITADO", prop |-> NADIE, dato |-> FALSE]

\* A request keeps only what it uses later: the state it read, when the
\* commit compares with it or decides by it.
Lectura(paso)       == [Libre EXCEPT !.paso = paso]
LecturaEstado(paso) == [Lectura(paso) EXCEPT !.est = ped.estado]

TypeOK ==
    /\ ped \in Pedidos
    /\ propuestas \in [IdPropuesta -> Propuestas]
    /\ peticiones \in [Peticiones -> Lecturas]

\* F20/DTF: an order with garments goes to the warehouse; one made only of
\* DTF jobs is born waiting for them.  A kiosk order has its customer there.
Init ==
    /\ \E domicilio, soloDtf, dtf, presente \in BOOLEAN :
          /\ soloDtf => dtf
          /\ domicilio => ~presente
          /\ ped = [estado    |-> IF soloDtf THEN "EN_DTF" ELSE "SOLICITADO",
                    asignado  |-> NADIE,    encolado  |-> FALSE,
                    enCaja    |-> FALSE,    espera    |-> FALSE,
                    llamado   |-> FALSE,    corre     |-> FALSE,
                    presente  |-> presente,
                    lineas    |-> IF soloDtf THEN "COMPLETAS" ELSE "PENDIENTES",
                    dtf       |-> dtf,      impreso   |-> FALSE,
                    soloDtf   |-> soloDtf,  domicilio |-> domicilio]
    /\ propuestas = [i \in IdPropuesta |-> NoExiste]
    /\ peticiones = [r \in Peticiones |-> Libre]

-----------------------------------------------------------------------------
(* Requests.                                                               *)

\* A new request, for a handler of this instance, after its read.
Recibe(r, op, l) ==
    /\ op \in Operaciones
    /\ peticiones[r] = Libre
    /\ peticiones' = [peticiones EXCEPT ![r] = l]
    /\ UNCHANGED <<ped, propuestas>>

En(r, paso)      == peticiones[r].paso = paso
Sigue(r, l)      == peticiones' = [peticiones EXCEPT ![r] = l]
Termina(r)       == Sigue(r, Libre)

\* The transition of the handler's transaction and the columns that its
\* effects write in the same transaction.
Cambia(nuevo, o)         == Admite(ped, nuevo, o) /\ ped' = Transita(ped, nuevo, o)
CambiaCon(nuevo, o, q)   == Admite(ped, nuevo, o) /\ ped' = q

CierraConOtroEnum(i, e) == propuestas' = [propuestas EXCEPT ![i].estado = "CANCELADO"]
Cierra(i, e)   == propuestas' = [propuestas EXCEPT ![i].estado = e]
Pendiente(i)   == propuestas[i].estado = "PENDIENTE"
HayPendiente   == \E i \in IdPropuesta : Pendiente(i)
OlvidaPendientes(e) == UNCHANGED propuestas

\* updateMany where estado = PENDIENTE.
CierraPendientes(e) ==
    propuestas' = [i \in IdPropuesta |->
                     IF Pendiente(i) THEN [propuestas[i] EXCEPT !.estado = e]
                     ELSE propuestas[i]]

NoLaCrea(origen) == ~HayPendiente /\ UNCHANGED propuestas

\* pedidos_propuestas_pendiente_unica_idx: a second PENDIENTE is refused.
Crea(origen) ==
    /\ ~HayPendiente
    /\ \E i \in IdPropuesta :
          /\ propuestas[i].estado = "NO_EXISTE"
          /\ propuestas' = [propuestas EXCEPT ![i] =
                              [origen |-> origen, estado |-> "PENDIENTE"]]

\* The request dies before its next write.
Abandona(r) ==
    /\ peticiones[r] # Libre
    /\ Termina(r)
    /\ UNCHANGED <<ped, propuestas>>

-----------------------------------------------------------------------------
(* Warehouse: bodega.service and surtido.service.                          *)

LeeTomar(r) == \E u \in Bodegueros :
    /\ ped.estado \in {"SOLICITADO", "EN_REVISION"}
    /\ ped.asignado \in {NADIE, u}
    /\ Recibe(r, "TOMAR", [LecturaEstado("TOMAR") EXCEPT !.quien = u])

\* An order read in EN_REVISION is retaken by the assignment alone: the write
\* asks that nobody has it, not that it is still in EN_REVISION.
Retoma(r) ==
    /\ En(r, "TOMAR") /\ peticiones[r].est = "EN_REVISION"
    /\ ped.asignado = NADIE
    /\ ped' = [ped EXCEPT !.asignado = peticiones[r].quien, !.corre = TRUE]
    /\ Termina(r)
    /\ UNCHANGED propuestas

Toma(r) ==
    /\ En(r, "TOMAR") /\ peticiones[r].est = "SOLICITADO"
    /\ Cambia("EN_REVISION", [SinOpciones EXCEPT !.asignacion = "caller",
                                                 !.quien = peticiones[r].quien,
                                                 !.reloj = "reanudar"])
    /\ Termina(r)
    /\ UNCHANGED propuestas

LeeTomarGrupo(r) == \E u \in Bodegueros :
    /\ ped.estado \in {"SOLICITADO", "EN_REVISION"}
    /\ ped.asignado = NADIE
    /\ Recibe(r, "TOMAR_GRUPO", [Lectura("TOMAR_GRUPO") EXCEPT !.quien = u])

\* The order as one of a batch: a write that asks again what was read, and not
\* cambiarEstado.
TomaGrupo(r) ==
    /\ En(r, "TOMAR_GRUPO")
    /\ ped.estado \in {"SOLICITADO", "EN_REVISION"}
    /\ ped.asignado = NADIE
    /\ ped' = [ped EXCEPT !.estado   = "EN_REVISION",
                         !.asignado = peticiones[r].quien,
                         !.corre    = TRUE]
    /\ Termina(r)
    /\ UNCHANGED propuestas

\* The warehouse user who has it, or a supervisor (quien = NADIE).
LeeLiberar(r) == \E u \in Bodegueros \cup {NADIE} :
    /\ ped.estado = "EN_REVISION"
    /\ u \in {NADIE, ped.asignado}
    /\ Recibe(r, "LIBERAR", Lectura("LIBERAR"))

Libera(r) ==
    /\ En(r, "LIBERAR")
    /\ ped' = [ped EXCEPT !.asignado = NADIE, !.corre = FALSE]
    /\ Termina(r)
    /\ UNCHANGED propuestas

LeeMarcarItem(r) == \E u \in Bodegueros \cup {NADIE} :
    /\ ped.estado = "EN_REVISION"
    /\ u \in {NADIE, ped.asignado}
    /\ ~ped.soloDtf
    /\ Recibe(r, "MARCAR_ITEM", Lectura("MARCAR_ITEM"))

\* The item is written by its id: the order may have left the warehouse.
MarcaItem(r) ==
    /\ En(r, "MARCAR_ITEM")
    /\ \E l \in EstadosLineas : ped' = [ped EXCEPT !.lineas = l]
    /\ Termina(r)
    /\ UNCHANGED propuestas

\* destinoTrasSurtido and destinoTrasSurtidoIncompleto.
DestinoTrasSurtido == IF ped.domicilio THEN "PENDIENTE_PAGO" ELSE "REVISADO"
DestinoTrasSurtidoIncompleto ==
    CASE ped.domicilio                   -> "PENDIENTE_PAGO"
      [] ~ped.domicilio /\ ped.presente  -> "REVISADO"
      [] ~ped.domicilio /\ ~ped.presente -> "ESPERANDO_APROBACION"

\* dato: some line has a shortage.
LeeConfirmarSurtido(r) == \E u \in Bodegueros \cup {NADIE} :
    /\ ped.estado = "EN_REVISION"
    /\ u \in {NADIE, ped.asignado}
    /\ ped.lineas # "PENDIENTES"
    /\ Recibe(r, "CONFIRMAR_SURTIDO",
              [Lectura("CONFIRMAR_SURTIDO") EXCEPT
                 !.quien = u,
                 !.dato  = ped.lineas = "CON_FALTANTE",
                 !.dest  = IF ped.lineas = "CON_FALTANTE"
                           THEN DestinoTrasSurtidoIncompleto
                           ELSE DestinoTrasSurtido])

SinFaltantesReabiertos(l) == IF l = "CON_FALTANTE" THEN "PENDIENTES" ELSE l

\* aplicarCambiosFisicos: the lines with a shortage are cut down to what there
\* is or cancelled.
SinFaltantes(l) == IF l = "CON_FALTANTE" THEN "COMPLETAS" ELSE l

OpcionesDeSurtido(dest) ==
    [SaleDeBodega EXCEPT !.encolar = (dest = "PENDIENTE_PAGO")]

\* With a shortage, and unless it is delivered at home, the same transaction
\* opens the proposal that the customer has to answer.
ConfirmaSurtido(r) ==
    LET l == peticiones[r]
        o == OpcionesDeSurtido(l.dest)
    IN  /\ En(r, "CONFIRMAR_SURTIDO")
        /\ CambiaCon(l.dest, o,
                     [Transita(ped, l.dest, o) EXCEPT
                        !.lineas = IF l.dato THEN SinFaltantes(@) ELSE @])
        /\ IF l.dato /\ l.dest # "PENDIENTE_PAGO"
           THEN Crea(IF l.quien = NADIE THEN "ADMIN" ELSE "BODEGA")
           ELSE UNCHANGED propuestas
        /\ Termina(r)

\* marcarEnviado asks for no state, only for an address and, of a warehouse
\* user, for the assignment.
LeeEnviar(r) == \E u \in Bodegueros \cup {NADIE} :
    /\ ped.domicilio
    /\ u \in {NADIE, ped.asignado}
    /\ Recibe(r, "ENVIAR", Lectura("ENVIAR"))

Envia(r) ==
    /\ En(r, "ENVIAR")
    /\ Cambia("ENVIADO", SinOpciones)
    /\ Termina(r)
    /\ UNCHANGED propuestas

-----------------------------------------------------------------------------
(* Sales and the customer's answer: ventas.service and propuesta.service.  *)

LeeEnviarPropuesta(r) ==
    /\ ped.estado \in {"EN_ASESORIA", "ESPERANDO_APROBACION"}
    /\ ~HayPendiente
    /\ Recibe(r, "ENVIAR_PROPUESTA", Lectura("ENVIAR_PROPUESTA"))

EnviaPropuesta(r) ==
    /\ En(r, "ENVIAR_PROPUESTA")
    /\ Cambia("ESPERANDO_APROBACION", SaleDeBodega)
    /\ \E origen \in {"VENTAS", "ADMIN"} : Crea(origen)
    /\ Termina(r)

LeeDevolverABodega(r) ==
    /\ ped.estado = "EN_ASESORIA"
    /\ Recibe(r, "DEVOLVER_A_BODEGA", Lectura("DEVOLVER_A_BODEGA"))

DevuelveABodega(r) ==
    /\ En(r, "DEVOLVER_A_BODEGA")
    /\ Cambia("EN_REVISION", VuelveABodega)
    /\ CierraPendientes("SUPERADA")
    /\ Termina(r)

\* The customer answers only while the order waits for his approval; the store
\* also at the delivery table, and only yes or no.
EstadosRespondibles(d) ==
    IF d \in DecisionesDelOperador
    THEN {"ESPERANDO_APROBACION", "REVISADO", "EN_ATENCION"}
    ELSE {"ESPERANDO_APROBACION"}

\* Where an approved warehouse proposal leads, from the state that was read.
DestinoAprobada ==
    IF ped.estado = "EN_ATENCION" /\ ~ped.domicilio THEN "EN_ATENCION"
    ELSE DestinoTrasSurtido

\* dato: lines that the warehouse has still to look at.
LeeResponder(r) ==
    \E i \in IdPropuesta : \E d \in DECISIONES_POR_ORIGEN[propuestas[i].origen] :
        /\ Pendiente(i)
        /\ ped.estado \in EstadosRespondibles(d)
        /\ Recibe(r, "RESPONDER",
                  [Lectura(d) EXCEPT !.prop = i, !.dest = DestinoAprobada,
                                     !.dato = ped.lineas = "PENDIENTES"])

\* esDeBodega looks at the role alone: one that an ADMIN opened when closing
\* a surtido is answered as one of the sales adviser.
Responde(r, d, deBodega) ==
    /\ En(r, d)
    /\ (propuestas[peticiones[r].prop].origen = "BODEGA") <=> deBodega

ApruebaBodega(r) ==
    LET l == peticiones[r]
        o == [OpcionesDeSurtido(l.dest) EXCEPT !.mismo = TRUE]
    IN  /\ Responde(r, "APROBAR", TRUE) /\ ~l.dato
        /\ CambiaCon(l.dest, o, [Transita(ped, l.dest, o) EXCEPT
                                   !.lineas = SinFaltantes(@)])
        /\ Cierra(l.prop, "ACEPTADA")
        /\ Termina(r)

\* With lines still pending the lines and the proposal are written first, and
\* a second transaction sends the order back to the warehouse.
ApruebaBodegaConResiduo(r) ==
    /\ Responde(r, "APROBAR", TRUE) /\ peticiones[r].dato
    /\ \E l \in {"COMPLETAS", "CON_FALTANTE"} : ped' = [ped EXCEPT !.lineas = l]
    /\ Cierra(peticiones[r].prop, "ACEPTADA")
    /\ Sigue(r, [peticiones[r] EXCEPT !.paso = "APROBADA_CON_RESIDUO"])

RegresaPorResiduo(r) ==
    /\ En(r, "APROBADA_CON_RESIDUO")
    /\ Cambia("EN_REVISION", VuelveABodega)
    /\ Termina(r)
    /\ UNCHANGED propuestas

\* aplicarPropuestaDeVentas decides if something is left to pick or to take
\* out of the bag; if not, a second transaction moves the order on.
ApruebaVentas(r) ==
    /\ Responde(r, "APROBAR", FALSE)
    /\ \E l \in EstadosLineas, huboRetiro \in BOOLEAN :
          /\ CambiaCon("EN_REVISION", VuelveABodega,
                       [Transita(ped, "EN_REVISION", VuelveABodega) EXCEPT
                          !.lineas = l])
          /\ Sigue(r, IF l = "COMPLETAS" /\ ~huboRetiro
                      THEN [peticiones[r] EXCEPT !.dest = DestinoTrasSurtido,
                                                 !.paso = "APROBADA_SIN_PENDIENTES"]
                      ELSE Libre)
    /\ Cierra(peticiones[r].prop, "ACEPTADA")

PasaSinPendientes(r) ==
    /\ En(r, "APROBADA_SIN_PENDIENTES")
    /\ Cambia(peticiones[r].dest, OpcionesDeSurtido(peticiones[r].dest))
    /\ Termina(r)
    /\ UNCHANGED propuestas

RechazaBodega(r) ==
    /\ Responde(r, "RECHAZAR", TRUE)
    /\ Cambia("CANCELADO", SaleDeBodega)
    /\ Cierra(peticiones[r].prop, "RECHAZADA")
    /\ Termina(r)

RechazaVentas(r) ==
    /\ Responde(r, "RECHAZAR", FALSE)
    /\ Cambia("EN_ASESORIA", SaleDeBodega)
    /\ Cierra(peticiones[r].prop, "RECHAZADA")
    /\ Termina(r)

ContactaAsesor(r) ==
    /\ En(r, "CONTACTAR_ASESOR")
    /\ Cambia("EN_ASESORIA", SaleDeBodega)
    /\ Cierra(peticiones[r].prop, "SUPERADA")
    /\ Termina(r)

CancelaPorPropuesta(r) ==
    /\ En(r, "CANCELAR_PEDIDO")
    /\ Cambia("CANCELADO", SaleDeBodega)
    /\ Cierra(peticiones[r].prop, "RECHAZADA")
    /\ Termina(r)

-----------------------------------------------------------------------------
(* The delivery counter: mostrador.service.                                *)

LeeEnviarAPagar(r) ==
    /\ ped.estado \in {"REVISADO", "EN_ATENCION"}
    /\ ~HayPendiente
    /\ Recibe(r, "ENVIAR_A_PAGAR", Lectura("ENVIAR_A_PAGAR"))

EnviaAPagar(r) ==
    /\ En(r, "ENVIAR_A_PAGAR")
    /\ Cambia("PENDIENTE_PAGO", [SinOpciones EXCEPT !.encolar = TRUE])
    /\ Termina(r)
    /\ UNCHANGED propuestas

\* dato: the adjustment needs the warehouse.
LeeAjustar(r) == \E vaABodega \in BOOLEAN :
    /\ ped.estado \in {"ESPERANDO_APROBACION", "REVISADO", "EN_ATENCION"}
    /\ Recibe(r, "AJUSTAR",
              [Lectura("AJUSTAR") EXCEPT
                 !.dato = vaABodega,
                 !.dest = CASE vaABodega -> "EN_REVISION"
                            [] ~vaABodega /\ ped.estado = "ESPERANDO_APROBACION"
                                 -> "REVISADO"
                            [] OTHER -> ped.estado])

OpcionesDeAjuste(vaABodega) ==
    IF vaABodega THEN VuelveABodega
    ELSE [SinOpciones EXCEPT !.asignacion = "mantener", !.mismo = TRUE]

\* The adjustment supersedes the pending proposal, and then the operator's
\* word that the customer is there is registered on its own, unless it is the
\* store that adjusts without him.
Ajusta(r) ==
    LET l == peticiones[r]
        o == OpcionesDeAjuste(l.dato)
    IN  /\ En(r, "AJUSTAR")
        /\ \E lineas \in {ped.lineas, IF l.dato THEN "PENDIENTES" ELSE "COMPLETAS"} :
              CambiaCon(l.dest, o, [Transita(ped, l.dest, o) EXCEPT !.lineas = lineas])
        /\ CierraPendientes("SUPERADA")
        /\ \/ Sigue(r, Lectura("CONFIRMAR_LLEGADA"))
           \/ Termina(r)

LeeCancelarMostrador(r) ==
    /\ ped.estado \in {"ESPERANDO_APROBACION", "REVISADO", "EN_ATENCION"}
    /\ Recibe(r, "CANCELAR_MOSTRADOR", Lectura("CANCELAR_MOSTRADOR"))

CancelaMostrador(r) ==
    /\ En(r, "CANCELAR_MOSTRADOR")
    /\ Cambia("CANCELADO", SaleDeBodega)
    /\ Termina(r)
    /\ UNCHANGED propuestas

\* cancelarVencidos checks the whole batch first, and then cancels one order
\* after another as the counter does: that read asks nothing of the customer.
\* dato: the request is one of these.
LeeCancelarVencido(r) ==
    /\ ped.estado \in ESTADOS_ESPERA_CLIENTE
    /\ ped.espera /\ ~ped.presente
    /\ Recibe(r, "CANCELAR_VENCIDO", Lectura("CANCELAR_VENCIDO"))

ReleeCancelarVencido(r) ==
    /\ En(r, "CANCELAR_VENCIDO")
    /\ ped.estado \in ESTADOS_BOLSA_APARTADA
    /\ Sigue(r, [Lectura("CANCELAR_MOSTRADOR") EXCEPT !.dato = TRUE])
    /\ UNCHANGED <<ped, propuestas>>

LeeDevolverACola(r) ==
    /\ ped.estado = "EN_ATENCION"
    /\ Recibe(r, "DEVOLVER_A_COLA", Lectura("DEVOLVER_A_COLA"))

DevuelveACola(r) ==
    /\ En(r, "DEVOLVER_A_COLA")
    /\ Cambia("REVISADO", SinOpciones)
    /\ Termina(r)
    /\ UNCHANGED propuestas

LeeTraerAEntrega(r) ==
    /\ ped.estado = "EN_ASESORIA"
    /\ Recibe(r, "TRAER_A_ENTREGA", Lectura("TRAER_A_ENTREGA"))

TraeAEntrega(r) ==
    /\ En(r, "TRAER_A_ENTREGA")
    /\ Cambia("REVISADO", SaleDeBodega)
    /\ Sigue(r, Lectura("CONFIRMAR_LLEGADA"))
    /\ UNCHANGED propuestas

LeeLlamar(r) ==
    /\ ped.estado = "REVISADO"
    /\ ped.presente
    /\ Recibe(r, "LLAMAR", Lectura("LLAMAR"))

LlamaSinAviso(r) ==
    /\ En(r, "LLAMAR")
    /\ Cambia("EN_ATENCION", SinOpciones)
    /\ Termina(r)
    /\ UNCHANGED propuestas

Llama(r) ==
    /\ En(r, "LLAMAR")
    /\ CambiaCon("EN_ATENCION", SinOpciones,
                 [Transita(ped, "EN_ATENCION", SinOpciones) EXCEPT !.llamado = TRUE])
    /\ Termina(r)
    /\ UNCHANGED propuestas

LeeEntregar(r) ==
    /\ ped.estado \in {"PAGADO", "ENVIADO"}
    /\ Recibe(r, "ENTREGAR", Lectura("ENTREGAR"))

Entrega(r) ==
    /\ En(r, "ENTREGAR")
    /\ Cambia("ENTREGADO", SinOpciones)
    /\ Termina(r)
    /\ UNCHANGED propuestas

-----------------------------------------------------------------------------
(* Presence of the customer: kiosko-llegada.service, presencia.service.    *)

PuedeAvisar == ~ped.domicilio /\ ped.estado \notin {"ENTREGADO", "CANCELADO"}

LeeAvisarLlegada(r) ==
    /\ PuedeAvisar /\ ~ped.presente
    /\ Recibe(r, "AVISAR_LLEGADA", LecturaEstado("AVISAR_LLEGADA"))

\* confirmarDesdeMostrador, called after the commit of another handler, reads
\* the order again.
LeeConfirmarLlegada(r) ==
    /\ En(r, "CONFIRMAR_LLEGADA")
    /\ PuedeAvisar /\ ~ped.presente
    /\ Sigue(r, LecturaEstado("AVISAR_LLEGADA"))
    /\ UNCHANGED <<ped, propuestas>>

\* Only the notice that finds the customer absent writes; it reacts to the
\* state that was read before.
AvisaLlegada(r) ==
    /\ En(r, "AVISAR_LLEGADA")
    /\ ~ped.presente
    /\ ped' = [ped EXCEPT !.presente = TRUE]
    /\ Sigue(r, IF peticiones[r].est = "ESPERANDO_APROBACION"
                THEN [peticiones[r] EXCEPT !.paso = "REACCIONAR"]
                ELSE Libre)
    /\ UNCHANGED propuestas

AlLlegarCliente(r) ==
    /\ En(r, "REACCIONAR")
    /\ Cambia("REVISADO", SinOpciones)
    /\ Termina(r)
    /\ UNCHANGED propuestas

LeeRetirarAviso(r) ==
    /\ ped.presente /\ ped.estado # "EN_ATENCION"
    /\ Recibe(r, "RETIRAR_AVISO", Lectura("RETIRAR_AVISO"))

RetiraAviso(r) ==
    /\ En(r, "RETIRAR_AVISO")
    /\ ped' = [ped EXCEPT !.presente = FALSE]
    /\ Termina(r)
    /\ UNCHANGED propuestas

\* dato: the notice is dropped; a customer called in vain only loses his turn
\* until the calls reach the maximum.
LeeDescartar(r) ==
    /\ ped.presente
    /\ Recibe(r, "DESCARTAR", [LecturaEstado("DESCARTAR") EXCEPT !.dato = TRUE])

LeeNoSePresento(r) == \E descartar \in BOOLEAN :
    /\ ped.estado = "EN_ATENCION"
    /\ Recibe(r, "NO_SE_PRESENTO",
              [LecturaEstado("NO_SE_PRESENTO") EXCEPT !.dato = descartar])

\* aplicarPresencia: from the counter the order goes back to the queue in the
\* same transaction; otherwise the columns are written whatever its state.
AplicaPresencia(r) ==
    LET l        == peticiones[r]
        Ausente(p) == [p EXCEPT !.presente = @ /\ ~l.dato]
    IN  /\ En(r, "DESCARTAR") \/ En(r, "NO_SE_PRESENTO")
        /\ IF l.est = "EN_ATENCION"
           THEN CambiaCon("REVISADO", SinOpciones,
                          Ausente(Transita(ped, "REVISADO", SinOpciones)))
           ELSE ped' = Ausente(ped)
        /\ Termina(r)
        /\ UNCHANGED propuestas

-----------------------------------------------------------------------------
(* Cancellation and payment: cliente.service, destrabar.service,           *)
(* admin.service and the agent's events.                                   *)

LeeCancelarCliente(r) ==
    /\ ped.estado \notin ESTADOS_YA_COBRADOS \cup {"CANCELADO", "EN_ATENCION", "EN_DTF"}
    /\ Recibe(r, "CANCELAR_CLIENTE", LecturaEstado("CANCELAR_CLIENTE"))

CancelaCliente(r) ==
    /\ En(r, "CANCELAR_CLIENTE")
    /\ Cambia("CANCELADO", [SaleDeBodega EXCEPT !.desde = {peticiones[r].est}])
    /\ CierraPendientes("RECHAZADA")
    /\ Termina(r)

CANCELABLES_SIN_PAGO == EstadosPedido \ (ESTADOS_YA_COBRADOS \cup {"CANCELADO"})

LeeCancelarTienda(r) ==
    \/ /\ ped.estado \in CANCELABLES_SIN_PAGO
       /\ Recibe(r, "CANCELAR_SIN_PAGO", Lectura("CANCELAR_SIN_PAGO"))
    \/ /\ ped.estado = "PAGADO"
       /\ Recibe(r, "CANCELAR_PAGADO", Lectura("CANCELAR_PAGADO"))

CancelaTienda(r) ==
    /\ En(r, "CANCELAR_SIN_PAGO") \/ En(r, "CANCELAR_PAGADO")
    /\ Cambia("CANCELADO", SaleDeBodega)
    /\ Termina(r)
    /\ UNCHANGED propuestas

\* The ERP can only cancel an order that it has.
LeeCancelarErp(r) ==
    /\ ped.encolado /\ ped.estado # "CANCELADO"
    /\ Recibe(r, "CANCELAR_ERP", Lectura("CANCELAR_ERP"))

CancelaErp(r) ==
    /\ En(r, "CANCELAR_ERP")
    /\ Cambia("CANCELADO", SinOpciones)
    /\ Termina(r)
    /\ UNCHANGED propuestas

\* marcarComoPagado: a person charges only what is at the till; the agent
\* anything that got to the ERP.
LeePagar(r) == \E op \in {"PAGAR_AGENTE", "PAGAR_MANUAL"} :
    /\ ped.estado \notin ESTADOS_YA_COBRADOS
    /\ ped.estado # "PENDIENTE_PAGO" =>
          op = "PAGAR_AGENTE" /\ ped.estado # "CANCELADO" /\ ped.encolado
    /\ Recibe(r, op, Lectura(op))

PagaSinReleer(r) ==
    /\ En(r, "PAGAR_AGENTE") \/ En(r, "PAGAR_MANUAL")
    /\ ped' = [ped EXCEPT !.estado = "PAGADO"]
    /\ Termina(r)
    /\ UNCHANGED propuestas

\* It does not go through cambiarEstado: neither the table of transitions nor
\* the columns that ejecutarCambio keeps.
Paga(r) ==
    /\ \/ En(r, "PAGAR_AGENTE") /\ ped.estado \notin ESTADOS_YA_COBRADOS \cup {"CANCELADO"}
       \/ En(r, "PAGAR_MANUAL") /\ ped.estado = "PENDIENTE_PAGO"
    /\ ped' = [ped EXCEPT !.estado = "PAGADO"]
    /\ Termina(r)
    /\ UNCHANGED propuestas

-----------------------------------------------------------------------------
(* DTF printing, as the order sees it: impresion.service, dtf-pedido.      *)

LeeDtfTerminar(r) ==
    /\ ped.dtf
    /\ Recibe(r, "DTF_TERMINAR", Lectura("DTF_TERMINAR"))

\* A job is printed, or refused or cancelled; others may remain.
TerminaDtf(r) ==
    /\ En(r, "DTF_TERMINAR") /\ ped.dtf
    /\ \E quedan, imprime \in BOOLEAN :
          ped' = [ped EXCEPT !.dtf = quedan, !.impreso = @ \/ imprime]
    /\ Sigue(r, Lectura("DTF_RESOLVER"))
    /\ UNCHANGED propuestas

\* DtfPedidoService.resolver, in its own transaction: the order leaves EN_DTF
\* when nothing is left to print.
ResuelveDtf(r) ==
    /\ En(r, "DTF_RESOLVER")
    /\ IF ped.estado = "EN_DTF" /\ ~ped.dtf
       THEN IF ped.soloDtf /\ ~ped.impreso
            THEN Cambia("CANCELADO", SaleDeBodega)
            ELSE Cambia(DestinoTrasSurtido,
                        [SinOpciones EXCEPT !.encolar = ped.domicilio])
       ELSE UNCHANGED ped
    /\ Termina(r)
    /\ UNCHANGED propuestas

LeeDtfReimprimir(r) ==
    /\ ped.impreso
    /\ Recibe(r, "DTF_REIMPRIMIR", Lectura("DTF_REIMPRIMIR"))

\* The job is back to printing before the order is told.
ReimprimeDtf(r) ==
    /\ En(r, "DTF_REIMPRIMIR")
    /\ \E otro \in BOOLEAN : ped' = [ped EXCEPT !.dtf = TRUE, !.impreso = otro]
    /\ Sigue(r, Lectura("DTF_REABRIR"))
    /\ UNCHANGED propuestas

\* reabrir reads the order, and only then moves it.
LeeDtfReabrir(r) ==
    /\ En(r, "DTF_REABRIR")
    /\ ped.estado \in {"REVISADO", "EN_ATENCION"}
    /\ Sigue(r, Lectura("DTF_REABIERTO"))
    /\ UNCHANGED <<ped, propuestas>>

ReabreDtf(r) ==
    /\ En(r, "DTF_REABIERTO")
    /\ Cambia("EN_DTF", SinOpciones)
    /\ Termina(r)
    /\ UNCHANGED propuestas

-----------------------------------------------------------------------------
Lee(r) ==
    \/ LeeTomar(r)          \/ LeeLiberar(r)         \/ LeeMarcarItem(r)
    \/ LeeConfirmarSurtido(r) \/ LeeEnviar(r)        \/ LeeEnviarPropuesta(r)
    \/ LeeDevolverABodega(r) \/ LeeResponder(r)      \/ LeeEnviarAPagar(r)
    \/ LeeAjustar(r)        \/ LeeCancelarMostrador(r) \/ LeeDevolverACola(r)
    \/ LeeCancelarVencido(r)
    \/ LeeTraerAEntrega(r)  \/ LeeLlamar(r)          \/ LeeEntregar(r)
    \/ LeeAvisarLlegada(r)  \/ LeeRetirarAviso(r)    \/ LeeDescartar(r)
    \/ LeeNoSePresento(r)   \/ LeeCancelarCliente(r) \/ LeeCancelarTienda(r)
    \/ LeeCancelarErp(r)    \/ LeePagar(r)           \/ LeeDtfTerminar(r)
    \/ LeeDtfReimprimir(r) \/ LeeTomarGrupo(r)

DeBodega(r) ==
    \/ Retoma(r) \/ Toma(r) \/ TomaGrupo(r) \/ Libera(r) \/ MarcaItem(r)
    \/ ConfirmaSurtido(r) \/ Envia(r)

DePropuesta(r) ==
    \/ EnviaPropuesta(r) \/ DevuelveABodega(r)
    \/ ApruebaBodega(r) \/ ApruebaBodegaConResiduo(r) \/ RegresaPorResiduo(r)
    \/ ApruebaVentas(r) \/ PasaSinPendientes(r)
    \/ RechazaBodega(r) \/ RechazaVentas(r)
    \/ ContactaAsesor(r) \/ CancelaPorPropuesta(r)

DeMostrador(r) ==
    \/ EnviaAPagar(r) \/ Ajusta(r)
    \/ CancelaMostrador(r) \/ ReleeCancelarVencido(r)
    \/ DevuelveACola(r) \/ TraeAEntrega(r) \/ Llama(r) \/ Entrega(r)

DePresencia(r) ==
    \/ LeeConfirmarLlegada(r) \/ AvisaLlegada(r) \/ AlLlegarCliente(r)
    \/ RetiraAviso(r) \/ AplicaPresencia(r)

DeCierre(r) ==
    \/ CancelaCliente(r) \/ CancelaTienda(r) \/ CancelaErp(r) \/ Paga(r)

DeDtf(r) ==
    \/ TerminaDtf(r) \/ ResuelveDtf(r) \/ ReimprimeDtf(r)
    \/ LeeDtfReabrir(r) \/ ReabreDtf(r)

Next == \E r \in Peticiones :
    \/ Lee(r) \/ DeBodega(r) \/ DePropuesta(r) \/ DeMostrador(r)
    \/ DePresencia(r) \/ DeCierre(r) \/ DeDtf(r) \/ Abandona(r)

Spec == Init /\ [][Next]_vars

-----------------------------------------------------------------------------
(* Properties of every interleaving.                                       *)

EnPoderDelErp == {"PENDIENTE_PAGO"} \cup ESTADOS_YA_COBRADOS

\* An order at the till or beyond has its row in the ERP queue, and nothing
\* that is still being prepared has one: marcarComoPagado lets the agent
\* charge any order with a row, whatever its state, so this alone keeps an
\* order that is still in the store from being charged.
EncoladoSiiEnCaja ==
    /\ ped.estado \in EnPoderDelErp => ped.encolado
    /\ ped.encolado => ped.estado \in EnPoderDelErp \cup {"CANCELADO"}

\* The wait of the customer is counted exactly while the bag is on the table,
\* whichever handler moved the order, marcarComoPagado included.
EsperaSiiBolsaApartada == ped.espera <=> ped.estado \in ESTADOS_BOLSA_APARTADA

\* The screen never calls the customer of an order that nobody is attending.
LlamadoSoloEnAtencion == ped.llamado => ped.estado = "EN_ATENCION"

\* An order at the till is always in its line; the mark that survives a
\* payment only exists on orders that the ERP has.
FilaDeCajaCompleta ==
    /\ ped.estado = "PENDIENTE_PAGO" => ped.enCaja
    /\ ped.enCaja => ped.encolado

\* No handler, with what it read and when, moves the order against the table
\* of transitions: not even marcarComoPagado, which does not consult it.
SoloTransicionesLegales ==
    [][ped'.estado # ped.estado => ped'.estado \in TRANSICIONES[ped.estado]]_vars

\* The phases of CicloPedido: all the states before the till are one.
Fase(e) == CASE e = "PENDIENTE_PAGO" -> "Caja"
             [] e = "PAGADO"         -> "Pagado"
             [] e = "ENVIADO"        -> "Enviado"
             [] e = "ENTREGADO"      -> "Entregado"
             [] e = "CANCELADO"      -> "Cancelado"
             [] OTHER                -> "Tienda"

Ciclo == INSTANCE CicloPedido WITH fase <- Fase(ped.estado), enErp <- ped.encolado

\* The handlers, with all that they interleave, keep that promise.
ImplementaCicloPedido == Ciclo!Spec

\* The till, the ERP and the delivery never give an order back to the store.
NuncaVuelveDeCaja ==
    [][ped.estado \in EnPoderDelErp => ped'.estado \in EnPoderDelErp \cup {"CANCELADO"}]_vars

-----------------------------------------------------------------------------
(* Properties of one request at a time: what the handlers guarantee each   *)
(* other when none of them is interrupted by another.                      *)

\* Only an order in the warehouse is held by a warehouse user or has its clock
\* running.
AsignadoSoloEnRevision == ped.asignado # NADIE => ped.estado = "EN_REVISION"
RelojSoloEnRevision    == ped.corre => ped.estado = "EN_REVISION"

\* The customer is never asked to pay, nor is a bag put on the table, with
\* lines that the warehouse has not looked at.
EntregaSinPendientes ==
    ped.estado \in PidenDtfImpreso \cup {"ESPERANDO_APROBACION"}
      => ped.lineas # "PENDIENTES"

\* A proposal that waits for an answer belongs to an order that can still be
\* answered, or to one that was cancelled: above all, never to one at the till
\* ("Este pedido tiene faltantes sin resolver").
PropuestaViva ==
    HayPendiente => ped.estado \in ESTADOS_BOLSA_APARTADA \cup {"EN_DTF", "CANCELADO"}

\* Nobody attends an order without having called its customer.
EnAtencionLlamado == ped.estado = "EN_ATENCION" => ped.llamado

\* An order waits for the customer's approval only with something to approve.
EsperaAprobacionDeAlgo == ped.estado = "ESPERANDO_APROBACION" => HayPendiente

-----------------------------------------------------------------------------
(* What the code says of itself and two requests at once refute.           *)

\* "Esta propuesta ya fue respondida": an answered proposal keeps its answer.
RespuestaUnica ==
    [][\A i \in IdPropuesta :
          propuestas[i].estado \in EstadosPropuesta \ {"PENDIENTE"}
            => propuestas'[i] = propuestas[i]]_vars

\* "cancelar un pedido YA pagado (solo ADMIN)": of the people of the store.
CobradoSoloLoCancelaAdmin ==
    [][ped.estado \in ESTADOS_YA_COBRADOS /\ ped'.estado = "CANCELADO"
         => \E r \in Peticiones :
               /\ peticiones[r].paso \in {"CANCELAR_PAGADO", "CANCELAR_ERP"}
               /\ peticiones'[r] = Libre]_vars
=============================================================================
