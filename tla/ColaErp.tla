------------------------------ MODULE ColaErp ------------------------------
(***************************************************************************)
(* The way of an order to the Sistema Comercial (the ERP of the store) and *)
(* the way back of what the ERP does with it.                              *)
(*                                                                         *)
(* The cloud never calls the store.  The agent of the store runs one loop: *)
(* it uploads the notices of the trigger, confirms folios, reserves the    *)
(* folios asked for, sends the acks that it owes, takes the orders to      *)
(* write, writes them, acknowledges them and, now and then, compares both  *)
(* sides.  Its SQLite survives a crash, its memory does not; every request *)
(* may lose its answer and every write may fail half way.                  *)
(*                                                                         *)
(* One store.  Leases and back-offs are a Boolean, "espera", that the      *)
(* passing of time clears.                                                 *)
(***************************************************************************)
EXTENDS Naturals, FiniteSets

CONSTANTS
    Pedidos,
    SinReferencias,     \* orders with a variant that the ERP does not know yet
    MAX_FOLIO,          \* bound: numbers that CONSECUTIVOS can give out
    MAX_TOKENS,         \* bound: lease tokens remembered at once
    MAX_RECHAZOS,       \* 10 in the code
    REINTENTOS_MAXIMOS, \* 5 in the code
    MAX_INCIDENTES,     \* bound: faults in a behaviour
    Incidentes          \* which faults may happen

IncidentesConocidos ==
    {"CAIDA", "CAIDA_TRAS_RESERVAR", "CAIDA_TRAS_GRABAR", "FALLA_RESERVA", "FALLA_GRABADO",
     "RESPUESTA_PERDIDA", "PETICION_PERDIDA", "AVISO_PERDIDO", "COBRO_DESMARCADO", "EXPIRA"}

ASSUME ColaErpAssumption ==
    /\ SinReferencias \subseteq Pedidos
    /\ MAX_FOLIO \in Nat /\ MAX_TOKENS \in Nat \ {0}
    /\ MAX_RECHAZOS \in Nat \ {0} /\ REINTENTOS_MAXIMOS \in Nat
    /\ MAX_INCIDENTES \in Nat /\ Incidentes \subseteq IncidentesConocidos

VARIABLES
    pedidos,        \* Pedido.estado and folioErp
    solicitudes,    \* PedidoFolioSolicitud
    envios,         \* PedidoPendienteEnvio
    tareas,         \* the types of the open tasks of each order
    hallazgos,      \* the types of its open findings
    erp,            \* its row in PEDIDOS of Firebird
    consecutivo,    \* CONSECUTIVOS of the store
    bandeja,        \* orders with a notice of the trigger in BANDEJA_SYNC
    reservado,      \* SQLite: folio_reservado
    entregado,      \* SQLite: the folio in pedido_delivery, or 0
    salida,         \* SQLite: ack_outbox
    agente,         \* the memory of the agent
    peticion,       \* the request of pedidos-ack that the cloud is processing
    referencias,    \* orders whose variants have their ExternalRef
    incidentes      \* faults so far

nube  == <<pedidos, solicitudes, envios, tareas, hallazgos>>
local == <<reservado, entregado, salida>>
vars  == <<nube, erp, consecutivo, bandeja, local, agente, peticion, referencias, incidentes>>

-----------------------------------------------------------------------------
SIN_FOLIO == 0
SIN_TOKEN == 0
Folios == 0..MAX_FOLIO
Tokens == 0..MAX_TOKENS

EstadosPedido    == {"EN_BODEGA", "SURTIDO", "PENDIENTE_PAGO", "PAGADO", "ENTREGADO", "CANCELADO"}
EstadosSolicitud == {"NINGUNA", "PENDIENTE", "PROCESSING", "ASIGNADO"}
EstadosEnvio     == {"NINGUNO", "PENDIENTE", "PROCESSING", "RETRY", "ERROR", "PROCESADO",
                     "CANCELADO", "EXPIRADO"}
TiposTarea       == {"CANCELAR_EN_ERP", "REGISTRAR_COBRO_EN_ERP", "ANULAR_VENTA_EN_ERP"}
TiposHallazgo    == {"ESTADO_DISTINTO", "COBRADO_Y_CANCELADO", "REVERSA_DE_COBRO",
                     "CANCELADO_VIVO_EN_ERP", "NO_EXISTE_EN_ERP"}
Fases == {"SUBE", "CONFIRMA", "PIDE_FOLIOS", "RESERVA", "AVISA_FOLIOS", "VACIA", "VACIANDO",
          "PIDE_PEDIDOS", "ARMA", "GRABA", "RECONOCE", "RECONOCIENDO", "CONCILIA", "APLICA",
          "CAIDO"}

Acks      == [pedido : Pedidos, token : Tokens, exito : BOOLEAN, folio : Folios]
FolioAcks == [pedido : Pedidos, exito : BOOLEAN, folio : Folios]
Bajadas   == [pedido : Pedidos, token : Tokens, folio : Folios]
EstadosErp == [existe : BOOLEAN, folio : Folios, swcancel : BOOLEAN, finalizada : BOOLEAN]

Reservado(f) == [folio |-> f, estado |-> 0, intentos |-> 0]

SinErp == [existe |-> FALSE, folio |-> SIN_FOLIO, swcancel |-> FALSE, finalizada |-> FALSE]

\* quedan: orders of the current step still to do.  erp: what a comparison read.
Agente(fase) ==
    [fase |-> fase, quedan |-> {}, folios |-> {}, bajadas |-> {}, acks |-> {},
     errores |-> FALSE, erp |-> [p \in Pedidos |-> SinErp]]

SinPeticion == [quedan |-> {}, leido |-> <<>>, errores |-> FALSE, enviados |-> {}]

Ordenes     == [estado : EstadosPedido, folio : Folios]
Solicitudes == [estado : EstadosSolicitud, espera : BOOLEAN]
Envios      == [estado : EstadosEnvio, espera : BOOLEAN, token : Tokens, intentos : Nat]
Reservas    == [folio : Folios, estado : 0..2, intentos : Nat]
Agentes     == [fase : Fases, quedan : SUBSET Pedidos, folios : SUBSET FolioAcks,
                bajadas : SUBSET Bajadas, acks : SUBSET Acks, errores : BOOLEAN,
                erp : [Pedidos -> EstadosErp]]
Lecturas    == [ack : Acks, pedido : Ordenes, envio : Envios]
Peticiones  == [quedan : SUBSET Acks, leido : {<<>>} \cup [1..1 -> Lecturas],
                errores : BOOLEAN, enviados : SUBSET Acks]

TypeOK ==
    /\ pedidos \in [Pedidos -> Ordenes]
    /\ solicitudes \in [Pedidos -> Solicitudes]
    /\ envios \in [Pedidos -> Envios]
    /\ tareas \in [Pedidos -> SUBSET TiposTarea]
    /\ hallazgos \in [Pedidos -> SUBSET TiposHallazgo]
    /\ erp \in [Pedidos -> EstadosErp]
    /\ consecutivo \in Folios
    /\ bandeja \subseteq Pedidos
    /\ reservado \in [Pedidos -> Reservas]
    /\ entregado \in [Pedidos -> Folios]
    /\ salida \subseteq Acks
    /\ agente \in Agentes
    /\ peticion \in Peticiones
    /\ referencias \subseteq Pedidos
    /\ incidentes \in 0..MAX_INCIDENTES

Init ==
    /\ pedidos = [p \in Pedidos |-> [estado |-> "EN_BODEGA", folio |-> SIN_FOLIO]]
    /\ solicitudes = [p \in Pedidos |-> [estado |-> "NINGUNA", espera |-> FALSE]]
    /\ envios = [p \in Pedidos |-> [estado |-> "NINGUNO", espera |-> FALSE, token |-> SIN_TOKEN,
                                    intentos |-> 0]]
    /\ tareas = [p \in Pedidos |-> {}]
    /\ hallazgos = [p \in Pedidos |-> {}]
    /\ erp = [p \in Pedidos |-> SinErp]
    /\ consecutivo = 0
    /\ bandeja = {}
    /\ reservado = [p \in Pedidos |-> Reservado(SIN_FOLIO)]
    /\ entregado = [p \in Pedidos |-> SIN_FOLIO]
    /\ salida = {}
    /\ agente = Agente("SUBE")
    /\ peticion = SinPeticion
    /\ referencias = Pedidos \ SinReferencias
    /\ incidentes = 0

\* A fault of kind i, while the budget lasts.
Incidente(i) ==
    /\ i \in Incidentes /\ incidentes < MAX_INCIDENTES
    /\ incidentes' = incidentes + 1

YaFueCobrado(e) == e \in {"PAGADO", "ENTREGADO"}
Vivo(p)         == erp[p].existe /\ ~erp[p].swcancel

-----------------------------------------------------------------------------
(* Folios, on the side of the cloud.                                       *)

\* A request per order, once: createMany with skipDuplicates.
ConSolicitud(p) ==
    IF pedidos[p].folio = SIN_FOLIO /\ solicitudes[p].estado = "NINGUNA"
    THEN [solicitudes EXCEPT ![p].estado = "PENDIENTE"]
    ELSE solicitudes

FolioEnUso(p, f) == \E q \in Pedidos \ {p} : pedidos[q].folio = f

\* leido: the folio that the caller had read before its transaction.
ResultadoDeGuardar(p, leido, f, elErpManda) ==
    CASE leido = f                               -> "YA_TENIA_ESE"
      [] leido \notin {f, SIN_FOLIO} /\ ~elErpManda -> "YA_TENIA_OTRO"
      [] FolioEnUso(p, f)                        -> "FOLIO_EN_USO"
      [] pedidos[p].folio # leido                -> "CONFLICTO"
      [] OTHER                                   -> "ASIGNADO"

Guardado(r) == r \in {"YA_TENIA_ESE", "YA_TENIA_OTRO", "ASIGNADO"}

GuardaFolio(p, f, r) ==
    /\ pedidos' = IF r = "ASIGNADO" THEN [pedidos EXCEPT ![p].folio = f] ELSE pedidos
    /\ solicitudes' = IF Guardado(r) /\ solicitudes[p].estado # "NINGUNA"
                      THEN [solicitudes EXCEPT ![p] = [estado |-> "ASIGNADO", espera |-> FALSE]]
                      ELSE solicitudes

\* Whether folios-ack accepts the answer.
AceptaFolio(a) ==
    /\ a.exito
    /\ IF solicitudes[a.pedido].estado = "NINGUNA"
       THEN pedidos[a.pedido].folio = a.folio
       ELSE Guardado(ResultadoDeGuardar(a.pedido, pedidos[a.pedido].folio, a.folio, FALSE))

FoliosAck(a) ==
    IF a.exito
    THEN IF solicitudes[a.pedido].estado = "NINGUNA"
         THEN UNCHANGED <<pedidos, solicitudes>>
         ELSE GuardaFolio(a.pedido, a.folio,
                  ResultadoDeGuardar(a.pedido, pedidos[a.pedido].folio, a.folio, FALSE))
    ELSE /\ solicitudes' = IF solicitudes[a.pedido].estado \in {"PENDIENTE", "PROCESSING"}
                           THEN [solicitudes EXCEPT ![a.pedido] =
                                    [estado |-> "PENDIENTE", espera |-> TRUE]]
                           ELSE solicitudes
         /\ UNCHANGED pedidos

-----------------------------------------------------------------------------
(* Staff and the cashier of the ERP.                                       *)

Cambia(p, e) == pedidos' = [pedidos EXCEPT ![p].estado = e]

AbreTarea(p, t) == tareas' = [tareas EXCEPT ![p] = @ \cup {t}]

CierraSurtido(p) ==
    /\ pedidos[p].estado = "EN_BODEGA"
    /\ Cambia(p, "SURTIDO")
    /\ solicitudes' = ConSolicitud(p)
    /\ UNCHANGED <<envios, tareas, hallazgos, erp, consecutivo, bandeja, local, agente, peticion,
                   referencias, incidentes>>

MandaAPagar(p) ==
    /\ pedidos[p].estado = "SURTIDO"
    /\ Cambia(p, "PENDIENTE_PAGO")
    /\ solicitudes' = ConSolicitud(p)
    /\ envios' = [envios EXCEPT ![p].estado = "PENDIENTE"]
    /\ UNCHANGED <<tareas, hallazgos, erp, consecutivo, bandeja, local, agente, peticion,
                   referencias, incidentes>>

EnvioSinEntregar(p) == envios[p].estado \in {"PENDIENTE", "RETRY", "ERROR", "EXPIRADO"}

EnvioRetirado(p) ==
    [envios EXCEPT ![p] = [@ EXCEPT !.estado = "CANCELADO", !.espera = FALSE, !.token = SIN_TOKEN]]

ReflejaCancelacion(p) ==
    /\ tareas' = IF envios[p].estado = "PROCESADO"
                 THEN [tareas EXCEPT ![p] = @ \cup
                        {IF YaFueCobrado(pedidos[p].estado) THEN "ANULAR_VENTA_EN_ERP"
                                                            ELSE "CANCELAR_EN_ERP"}]
                 ELSE tareas
    /\ envios' = IF EnvioSinEntregar(p) THEN EnvioRetirado(p) ELSE envios

CancelaPersonal(p) ==
    /\ pedidos[p].estado \notin {"CANCELADO", "ENTREGADO"}
    /\ Cambia(p, "CANCELADO")
    /\ ReflejaCancelacion(p)
    /\ UNCHANGED <<solicitudes, hallazgos, erp, consecutivo, bandeja, local, agente, peticion,
                   referencias, incidentes>>

CobraAMano(p) ==
    /\ pedidos[p].estado = "PENDIENTE_PAGO"
    /\ Cambia(p, "PAGADO")
    /\ tareas' = IF envios[p].estado = "PROCESADO"
                 THEN [tareas EXCEPT ![p] = @ \cup {"REGISTRAR_COBRO_EN_ERP"}]
                 ELSE tareas
    /\ UNCHANGED <<solicitudes, envios, hallazgos, erp, consecutivo, bandeja, local, agente, peticion,
                   referencias, incidentes>>

Entrega(p) ==
    /\ pedidos[p].estado = "PAGADO"
    /\ Cambia(p, "ENTREGADO")
    /\ UNCHANGED <<solicitudes, envios, tareas, hallazgos, erp, consecutivo, bandeja, local, agente,
                   peticion, referencias, incidentes>>

ResuelveTarea(p, t) ==
    /\ t \in tareas[p]
    /\ tareas' = [tareas EXCEPT ![p] = @ \ {t}]
    /\ UNCHANGED <<pedidos, solicitudes, envios, hallazgos, erp, consecutivo, bandeja, local, agente,
                   peticion, referencias, incidentes>>

\* The trigger of PEDIDOS leaves a notice of every change.
CambiaEnErp(p, e) ==
    /\ erp[p].existe
    /\ erp' = [erp EXCEPT ![p] = e]
    /\ bandeja' = bandeja \cup {p}
    /\ UNCHANGED <<nube, consecutivo, local, agente, peticion, referencias>>

CobraEnErp(p) ==
    /\ ~erp[p].finalizada /\ ~erp[p].swcancel
    /\ CambiaEnErp(p, [erp[p] EXCEPT !.finalizada = TRUE])
    /\ UNCHANGED incidentes

CancelaEnErp(p) ==
    /\ ~erp[p].swcancel
    /\ CambiaEnErp(p, [erp[p] EXCEPT !.swcancel = TRUE, !.finalizada = FALSE])
    /\ UNCHANGED incidentes

DesmarcaCobro(p) ==
    /\ erp[p].finalizada
    /\ Incidente("COBRO_DESMARCADO")
    /\ CambiaEnErp(p, [erp[p] EXCEPT !.finalizada = FALSE])

LlegaReferencia(p) ==
    /\ p \notin referencias
    /\ referencias' = referencias \cup {p}
    /\ UNCHANGED <<nube, erp, consecutivo, bandeja, local, agente, peticion, incidentes>>

VenceSolicitud(p) ==
    /\ solicitudes[p].espera
    /\ solicitudes' = [solicitudes EXCEPT ![p].espera = FALSE]
    /\ UNCHANGED <<pedidos, envios, tareas, hallazgos, erp, consecutivo, bandeja, local, agente,
                   peticion, referencias, incidentes>>

VenceEnvio(p) ==
    /\ envios[p].espera
    /\ envios' = [envios EXCEPT ![p].espera = FALSE]
    /\ UNCHANGED <<pedidos, solicitudes, tareas, hallazgos, erp, consecutivo, bandeja, local, agente,
                   peticion, referencias, incidentes>>

\* The maintenance job, on rows a day old.
ExpiraEnvio(p) ==
    /\ Incidente("EXPIRA")
    /\ \/ envios[p].estado \in {"PENDIENTE", "RETRY"}
       \/ envios[p].estado = "PROCESSING" /\ ~envios[p].espera
    /\ envios' = [envios EXCEPT ![p].estado = "EXPIRADO"]
    /\ UNCHANGED <<pedidos, solicitudes, tareas, hallazgos, erp, consecutivo, bandeja, local, agente,
                   peticion, referencias>>

-----------------------------------------------------------------------------
(* What the ERP did, applied in the cloud: a notice of the trigger or the  *)
(* repair of a comparison.                                                 *)

Aceptado(p, swcancel, finalizada) ==
    /\ swcancel => pedidos[p].estado # "ENTREGADO"
    /\ ~swcancel /\ finalizada => pedidos[p].estado # "CANCELADO"

TrasProcesar(p, swcancel, finalizada) ==
    CASE swcancel -> "CANCELADO"
      [] ~swcancel /\ finalizada /\ ~YaFueCobrado(pedidos[p].estado) -> "PAGADO"
      [] OTHER -> pedidos[p].estado

TareaQueConfirma(p, swcancel, finalizada) ==
    CASE swcancel -> {"CANCELAR_EN_ERP"}
      [] ~swcancel /\ finalizada /\ YaFueCobrado(pedidos[p].estado) -> {"REGISTRAR_COBRO_EN_ERP"}
      [] OTHER -> {}

\* An answer ok = false changes nothing.
Procesar(p, swcancel, finalizada, cumplidas) ==
    IF Aceptado(p, swcancel, finalizada)
    THEN /\ Cambia(p, TrasProcesar(p, swcancel, finalizada))
         /\ tareas' = [tareas EXCEPT ![p] =
                         (@ \ cumplidas) \ TareaQueConfirma(p, swcancel, finalizada)]
    ELSE /\ tareas' = [tareas EXCEPT ![p] = @ \ cumplidas]
         /\ UNCHANGED pedidos

-----------------------------------------------------------------------------
(* The loop of the agent.                                                  *)

Fase(f)  == agente.fase = f
PasaA(f) == agente' = Agente(f)

SinConfirmar == {p \in Pedidos : reservado[p].folio # SIN_FOLIO /\ reservado[p].estado = 0}

\* The notice carries the row as it is when it is read.  One that is
\* rejected is retried, and buried as DEAD_LETTER after five attempts.
SubeAviso(p) ==
    /\ Fase("SUBE") /\ p \in bandeja
    /\ Procesar(p, erp[p].swcancel, erp[p].finalizada, {})
    /\ \/ bandeja' = bandeja \ {p} /\ UNCHANGED incidentes
       \/ Incidente("RESPUESTA_PERDIDA") /\ UNCHANGED bandeja
    /\ UNCHANGED <<solicitudes, envios, hallazgos, erp, consecutivo, local, agente, peticion,
                   referencias>>

PierdeAviso(p) ==
    /\ p \in bandeja
    /\ Incidente("AVISO_PERDIDO")
    /\ bandeja' = bandeja \ {p}
    /\ UNCHANGED <<nube, erp, consecutivo, local, agente, peticion, referencias>>

TerminaDeSubir ==
    /\ Fase("SUBE") /\ bandeja = {}
    /\ agente' = [Agente("CONFIRMA") EXCEPT !.quedan = SinConfirmar]
    /\ UNCHANGED <<nube, erp, consecutivo, bandeja, local, peticion, referencias, incidentes>>

\* One by one, so that a refusal does not drag the others along.
Confirma(p) ==
    LET a == [pedido |-> p, exito |-> TRUE, folio |-> reservado[p].folio]
        intentos == reservado[p].intentos + 1
    IN
    /\ Fase("CONFIRMA") /\ p \in agente.quedan
    /\ FoliosAck(a)
    /\ \/ /\ reservado' = IF AceptaFolio(a)
                          THEN [reservado EXCEPT ![p].estado = 1]
                          ELSE [reservado EXCEPT ![p].intentos = intentos,
                                    ![p].estado = IF intentos >= MAX_RECHAZOS THEN 2 ELSE @]
          /\ agente' = [agente EXCEPT !.quedan = @ \ {p}]
          /\ UNCHANGED incidentes
       \/ /\ Incidente("RESPUESTA_PERDIDA")
          /\ agente' = [agente EXCEPT !.quedan = {}]
          /\ UNCHANGED reservado
    /\ UNCHANGED <<envios, tareas, hallazgos, erp, consecutivo, bandeja, entregado, salida, peticion,
                   referencias>>

TerminaDeConfirmar ==
    /\ Fase("CONFIRMA") /\ agente.quedan = {}
    /\ PasaA("PIDE_FOLIOS")
    /\ UNCHANGED <<nube, erp, consecutivo, bandeja, local, peticion, referencias, incidentes>>

SolicitudesLibres ==
    {p \in Pedidos : /\ solicitudes[p].estado \in {"PENDIENTE", "PROCESSING"}
                     /\ ~solicitudes[p].espera
                     /\ pedidos[p].estado # "CANCELADO" /\ pedidos[p].folio = SIN_FOLIO}

PollFolios ==
    /\ Fase("PIDE_FOLIOS")
    /\ solicitudes' = [p \in Pedidos |-> IF p \in SolicitudesLibres
                                         THEN [estado |-> "PROCESSING", espera |-> TRUE]
                                         ELSE solicitudes[p]]
    /\ \/ agente' = [Agente("RESERVA") EXCEPT !.quedan = SolicitudesLibres] /\ UNCHANGED incidentes
       \/ Incidente("RESPUESTA_PERDIDA") /\ PasaA("VACIA")
    /\ UNCHANGED <<pedidos, envios, tareas, hallazgos, erp, consecutivo, bandeja, local, peticion,
                   referencias>>

\* UPDATE CONSECUTIVOS in a transaction of its own.
TomaConsecutivo == consecutivo < MAX_FOLIO /\ consecutivo' = consecutivo + 1

\* setFolioReservado only overwrites an abandoned folio.
ReservaGuardada(p, f) ==
    IF reservado[p].folio = SIN_FOLIO \/ reservado[p].estado = 2
    THEN [reservado EXCEPT ![p] = Reservado(f)]
    ELSE reservado

ReservaFolio(p) ==
    LET contesta(exito, f) ==
            agente' = [agente EXCEPT !.quedan = @ \ {p},
                           !.folios = @ \cup {[pedido |-> p, exito |-> exito, folio |-> f]}]
    IN
    /\ Fase("RESERVA") /\ p \in agente.quedan
    /\ \/ /\ reservado[p].folio # SIN_FOLIO
          /\ contesta(TRUE, reservado[p].folio)
          /\ UNCHANGED <<consecutivo, reservado, incidentes>>
       \/ /\ reservado[p].folio = SIN_FOLIO
          /\ TomaConsecutivo
          /\ reservado' = ReservaGuardada(p, consecutivo')
          /\ contesta(TRUE, consecutivo')
          /\ UNCHANGED incidentes
       \/ /\ reservado[p].folio = SIN_FOLIO
          /\ Incidente("FALLA_RESERVA")
          /\ contesta(FALSE, SIN_FOLIO)
          /\ UNCHANGED <<consecutivo, reservado>>
    /\ UNCHANGED <<nube, erp, bandeja, entregado, salida, peticion, referencias>>

\* The number is taken and the process dies before writing it down.
CaeTrasReservar(p) ==
    /\ Fase("RESERVA") /\ p \in agente.quedan /\ reservado[p].folio = SIN_FOLIO
    /\ Incidente("CAIDA_TRAS_RESERVAR")
    /\ TomaConsecutivo
    /\ PasaA("CAIDO")
    /\ UNCHANGED <<nube, erp, bandeja, local, peticion, referencias>>

\* The batch of folios-ack.  Each answer is handled on its own.
TerminaDeReservar ==
    /\ Fase("RESERVA") /\ agente.quedan = {}
    /\ agente' = [agente EXCEPT !.fase = "AVISA_FOLIOS",
                                !.quedan = {a.pedido : a \in agente.folios}]
    /\ UNCHANGED <<nube, erp, consecutivo, bandeja, local, peticion, referencias, incidentes>>

AvisaFolio(a) ==
    /\ Fase("AVISA_FOLIOS") /\ a \in agente.folios /\ a.pedido \in agente.quedan
    /\ FoliosAck(a)
    /\ agente' = [agente EXCEPT !.quedan = @ \ {a.pedido},
                                !.errores = @ \/ ~AceptaFolio(a)]
    /\ UNCHANGED <<envios, tareas, hallazgos, erp, consecutivo, bandeja, local, peticion,
                   referencias, incidentes>>

Confirmados(as) ==
    [p \in Pedidos |-> IF \E a \in as : a.pedido = p /\ a.exito
                       THEN [reservado[p] EXCEPT !.estado = 1] ELSE reservado[p]]

TerminaDeAvisarFolios ==
    /\ Fase("AVISA_FOLIOS") /\ agente.quedan = {}
    /\ \/ /\ reservado' = IF agente.errores THEN reservado ELSE Confirmados(agente.folios)
          /\ UNCHANGED incidentes
       \/ Incidente("RESPUESTA_PERDIDA") /\ UNCHANGED reservado
    /\ PasaA("VACIA")
    /\ UNCHANGED <<nube, erp, consecutivo, bandeja, entregado, salida, peticion, referencias>>

-----------------------------------------------------------------------------
(* The acks that the agent owes: it sends all of them, and forgets them    *)
(* only when the cloud has rejected none.                                  *)

Envia(fase, acks) ==
    /\ peticion' = [SinPeticion EXCEPT !.quedan = acks, !.enviados = acks]
    /\ agente' = Agente(fase)

MandaAcks(desde, esperando, despues) ==
    /\ Fase(desde) /\ peticion = SinPeticion
    /\ \/ salida # {} /\ Envia(esperando, salida)
       \/ salida = {} /\ PasaA(despues) /\ UNCHANGED peticion
    /\ UNCHANGED <<nube, erp, consecutivo, bandeja, local, referencias, incidentes>>

\* The reads that come before the transaction: the order and its row.
LeeAck(a) ==
    /\ peticion.leido = <<>> /\ a \in peticion.quedan
    /\ peticion' = [peticion EXCEPT !.leido =
                      <<[ack |-> a, pedido |-> pedidos[a.pedido], envio |-> envios[a.pedido]]>>]
    /\ UNCHANGED <<nube, erp, consecutivo, bandeja, local, agente, referencias, incidentes>>

Atiende(l, error) ==
    peticion' = [peticion EXCEPT !.leido = <<>>, !.quedan = @ \ {l.ack}, !.errores = @ \/ error]

LeaseValido(l) == l.envio.estado = "PROCESSING" /\ l.envio.token = l.ack.token

\* The order was cancelled in the meantime.
AckDeCancelado(l) ==
    LET a == l.ack
        p == a.pedido IN
    /\ l.pedido.estado = "CANCELADO"
    /\ envios' = IF envios[p].estado = "PROCESADO" THEN envios ELSE EnvioRetirado(p)
    /\ IF a.exito
       THEN /\ GuardaFolio(p, a.folio, ResultadoDeGuardar(p, l.pedido.folio, a.folio, TRUE))
            /\ AbreTarea(p, "CANCELAR_EN_ERP")
       ELSE UNCHANGED <<pedidos, solicitudes, tareas>>
    /\ Atiende(l, FALSE)

\* Already PROCESADO, or the lease is not the one that was given.
AckSinEfecto(l) ==
    /\ l.pedido.estado # "CANCELADO" /\ ~LeaseValido(l)
    /\ Atiende(l, ~(l.envio.estado = "PROCESADO" /\ l.ack.exito))
    /\ UNCHANGED <<pedidos, solicitudes, envios, tareas>>

AckExitoso(l) ==
    LET a == l.ack
        p == a.pedido IN
    /\ l.pedido.estado # "CANCELADO" /\ LeaseValido(l) /\ a.exito
    /\ envios' = [envios EXCEPT ![p] = [@ EXCEPT !.estado = "PROCESADO", !.espera = FALSE,
                                                 !.token = SIN_TOKEN]]
    /\ GuardaFolio(p, a.folio, ResultadoDeGuardar(p, l.pedido.folio, a.folio, TRUE))
    /\ Atiende(l, FALSE)
    /\ UNCHANGED tareas

AckFallido(l) ==
    LET p == l.ack.pedido IN
    /\ l.pedido.estado # "CANCELADO" /\ LeaseValido(l) /\ ~l.ack.exito
    /\ envios' = [envios EXCEPT ![p] = [estado |-> "RETRY", espera |-> TRUE, token |-> SIN_TOKEN,
                                        intentos |-> @.intentos + 1]]
    /\ Atiende(l, TRUE)
    /\ UNCHANGED <<pedidos, solicitudes, tareas>>

AplicaAck ==
    /\ peticion.leido # <<>>
    /\ LET l == peticion.leido[1] IN
       AckDeCancelado(l) \/ AckSinEfecto(l) \/ AckExitoso(l) \/ AckFallido(l)
    /\ UNCHANGED <<hallazgos, erp, consecutivo, bandeja, local, agente, referencias, incidentes>>

PeticionAtendida == peticion # SinPeticion /\ peticion.quedan = {} /\ peticion.leido = <<>>

\* dueAcks and deleteAcks; with an error, or no answer, every ack stays.
RecibeRespuesta(esperando, despues) ==
    /\ Fase(esperando) /\ PeticionAtendida
    /\ PasaA(despues)
    /\ peticion' = SinPeticion
    /\ \/ /\ salida' = IF peticion.errores THEN salida ELSE salida \ peticion.enviados
          /\ UNCHANGED incidentes
       \/ Incidente("RESPUESTA_PERDIDA") /\ UNCHANGED salida
    /\ UNCHANGED <<nube, erp, consecutivo, bandeja, reservado, entregado, referencias>>

\* Nobody waits for the answer: the agent died after sending.
RespuestaSinDestino ==
    /\ Fase("CAIDO") /\ PeticionAtendida
    /\ peticion' = SinPeticion
    /\ UNCHANGED <<nube, erp, consecutivo, bandeja, local, agente, referencias, incidentes>>

-----------------------------------------------------------------------------
(* Orders, from the cloud to the ERP.                                      *)

\* Deviation: a row with an expired lease is not offered again.
EnviosSinTomar ==
    {p \in Pedidos :
        /\ pedidos[p].estado # "CANCELADO"
        /\ ~(solicitudes[p].estado = "PROCESSING" /\ solicitudes[p].espera)
        /\ envios[p].estado \in {"PENDIENTE", "RETRY"} /\ ~envios[p].espera}

EnviosLibres ==
    {p \in Pedidos :
        /\ pedidos[p].estado # "CANCELADO"
        /\ ~(solicitudes[p].estado = "PROCESSING" /\ solicitudes[p].espera)
        /\ envios[p].estado \in {"PENDIENTE", "RETRY", "PROCESSING"} /\ ~envios[p].espera}

\* A new UUID: one that no ack alive carries.
TokensVivos == {a.token : a \in salida \cup agente.acks \cup peticion.enviados}
TokenNuevo  == CHOOSE t \in 1..MAX_TOKENS : t \notin TokensVivos

\* The leases that have expired and the back-offs that are due.  An ERROR
\* keeps leaseUntil = NULL, and NULL is never in the past.
PollPedidos ==
    /\ Fase("PIDE_PEDIDOS")
    /\ ~(1..MAX_TOKENS \subseteq TokensVivos)
    /\ envios' = [p \in Pedidos |->
                    IF p \in EnviosLibres
                    THEN [envios[p] EXCEPT !.estado = "PROCESSING", !.espera = TRUE,
                                           !.token = TokenNuevo]
                    ELSE envios[p]]
    /\ agente' = [Agente("ARMA") EXCEPT !.quedan = EnviosLibres]
    /\ UNCHANGED <<pedidos, solicitudes, tareas, hallazgos, erp, consecutivo, bandeja, local,
                   peticion, referencias, incidentes>>

\* What is sent of each order claimed: a cancelled one and one with a variant
\* that the ERP does not know are left out.
SeBaja(p) == pedidos[p].estado # "CANCELADO" /\ p \in referencias

SinReferencia(e) ==
    IF e.intentos >= REINTENTOS_MAXIMOS
    THEN [e EXCEPT !.estado = "ERROR", !.espera = FALSE, !.token = SIN_TOKEN]
    ELSE [e EXCEPT !.estado = "RETRY", !.espera = TRUE, !.token = SIN_TOKEN]

ArmaPedidos ==
    /\ Fase("ARMA")
    /\ envios' = [p \in Pedidos |->
                    IF p \notin agente.quedan \/ envios[p].estado # "PROCESSING" \/ SeBaja(p)
                    THEN envios[p]
                    ELSE IF pedidos[p].estado = "CANCELADO" THEN EnvioRetirado(p)[p]
                    ELSE SinReferencia(envios[p])]
    /\ \/ /\ agente' = [Agente("GRABA") EXCEPT !.bajadas =
                          {[pedido |-> p, token |-> envios[p].token, folio |-> pedidos[p].folio] :
                              p \in {q \in agente.quedan : SeBaja(q)}}]
          /\ UNCHANGED incidentes
       \/ Incidente("RESPUESTA_PERDIDA") /\ PasaA("RECONOCE")
    /\ UNCHANGED <<pedidos, solicitudes, tareas, hallazgos, erp, consecutivo, bandeja, local,
                   peticion, referencias>>

\* The folio that is written: the one already in the ERP, the one of the
\* cloud, one that was taken and not used, or the next one.
\* Deviation: a number taken for the order and not used is forgotten.
FolioSinReserva(b) ==
    IF entregado[b.pedido] # SIN_FOLIO THEN entregado[b.pedido] ELSE b.folio

FolioVigente(b) ==
    CASE entregado[b.pedido] # SIN_FOLIO -> entregado[b.pedido]
      [] entregado[b.pedido] = SIN_FOLIO /\ b.folio # SIN_FOLIO -> b.folio
      [] entregado[b.pedido] = SIN_FOLIO /\ b.folio = SIN_FOLIO /\ reservado[b.pedido].estado # 2 ->
             reservado[b.pedido].folio
      [] OTHER -> SIN_FOLIO

\* GRABAR_PEDIDOS with the identifier that the cloud gave out: an insert the
\* first time, an update after that.
Grabado(p, f) == [erp EXCEPT ![p] = [@ EXCEPT !.existe = TRUE, !.folio = f]]

Responde(b, exito, f) ==
    agente' = [agente EXCEPT !.bajadas = @ \ {b},
                 !.acks = @ \cup {[pedido |-> b.pedido, token |-> b.token,
                                   exito |-> exito, folio |-> f]}]

\* It fails before its folio is known, before the commit or after it.
FallaAlGrabar(b, f) ==
    /\ Incidente("FALLA_GRABADO")
    /\ erp' \in {erp, Grabado(b.pedido, f)}
    /\ Responde(b, FALSE, SIN_FOLIO)
    /\ UNCHANGED entregado

CaeTrasGrabar(b, f) ==
    /\ Incidente("CAIDA_TRAS_GRABAR")
    /\ erp' = Grabado(b.pedido, f)
    /\ PasaA("CAIDO")
    /\ UNCHANGED entregado

Graba(b, f) ==
    /\ erp' = Grabado(b.pedido, f)
    /\ entregado' = [entregado EXCEPT ![b.pedido] = f]
    /\ Responde(b, TRUE, f)
    /\ UNCHANGED incidentes

GrabaPedido(b) ==
    /\ Fase("GRABA") /\ b \in agente.bajadas
    /\ \/ /\ FolioVigente(b) # SIN_FOLIO
          /\ UNCHANGED consecutivo
          /\ \/ /\ Graba(b, FolioVigente(b))
                /\ reservado' = [reservado EXCEPT ![b.pedido].estado =
                                   IF reservado[b.pedido].folio = SIN_FOLIO THEN @ ELSE 1]
             \/ FallaAlGrabar(b, FolioVigente(b)) /\ UNCHANGED reservado
             \/ CaeTrasGrabar(b, FolioVigente(b)) /\ UNCHANGED reservado
       \/ /\ FolioVigente(b) = SIN_FOLIO
          /\ TomaConsecutivo
          /\ \/ /\ Graba(b, consecutivo')
                /\ reservado' = [reservado EXCEPT ![b.pedido] =
                                   [folio |-> consecutivo', estado |-> 1, intentos |-> 0]]
             \/ /\ FallaAlGrabar(b, consecutivo') \/ CaeTrasGrabar(b, consecutivo')
                /\ reservado' = ReservaGuardada(b.pedido, consecutivo')
    /\ UNCHANGED <<nube, bandeja, salida, peticion, referencias>>

\* The acks are written to the SQLite only when every order has been tried.
EncolaAcks ==
    /\ Fase("GRABA") /\ agente.bajadas = {}
    /\ salida' = salida \cup agente.acks
    /\ PasaA("RECONOCE")
    /\ UNCHANGED <<nube, erp, consecutivo, bandeja, reservado, entregado, peticion, referencias,
                   incidentes>>

-----------------------------------------------------------------------------
(* The comparison of both sides.                                           *)

\* Cancelled and delivered orders leave the list after a while; here the
\* recent cancellations are all of them.
\* Deviations: the cancelled orders, or the ones to be paid, are not compared.
ConciliarSinCancelados ==
    {p \in Pedidos :
        /\ envios[p].estado = "PROCESADO"
        /\ pedidos[p].estado \in {"PENDIENTE_PAGO", "PAGADO"} \/ tareas[p] # {} \/ hallazgos[p] # {}}

ConciliarSinPorPagar ==
    {p \in Pedidos :
        /\ envios[p].estado = "PROCESADO"
        /\ pedidos[p].estado \in {"PAGADO", "CANCELADO"} \/ tareas[p] # {} \/ hallazgos[p] # {}}

PorConciliar ==
    {p \in Pedidos :
        /\ envios[p].estado = "PROCESADO"
        /\ \/ pedidos[p].estado \in {"PENDIENTE_PAGO", "PAGADO", "CANCELADO"}
           \/ tareas[p] # {} \/ hallazgos[p] # {}}

LeeErp ==
    /\ Fase("CONCILIA")
    /\ agente' = [Agente("APLICA") EXCEPT !.quedan = PorConciliar,
                    !.erp = [p \in Pedidos |-> IF p \in PorConciliar THEN erp[p] ELSE SinErp]]
    /\ UNCHANGED <<nube, erp, consecutivo, bandeja, local, peticion, referencias, incidentes>>

\* It is not its turn, or the store fails: the next one is minutes away.
NoConcilia ==
    /\ Fase("CONCILIA")
    /\ PasaA("SUBE")
    /\ UNCHANGED <<nube, erp, consecutivo, bandeja, local, peticion, referencias, incidentes>>

\* e: the row of the ERP as the agent read it.
Veredicto(e, estado, abiertas) ==
    LET v(hallazgo, aplicar, cerrar) ==
            [hallazgos |-> hallazgo, aplicar |-> aplicar, cerrar |-> cerrar \cap abiertas]
        cobrado == YaFueCobrado(estado)
        tareaDeCancelar == abiertas \cap {"CANCELAR_EN_ERP", "ANULAR_VENTA_EN_ERP"} # {}
    IN
    CASE ~e.existe -> v(IF estado \in {"CANCELADO", "ENTREGADO"} THEN {} ELSE {"NO_EXISTE_EN_ERP"},
                        "NADA", {})
      [] e.existe /\ e.swcancel ->
            CASE estado = "CANCELADO" -> v({}, "NADA", {"CANCELAR_EN_ERP"})
              [] estado = "ENTREGADO" -> v({"ESTADO_DISTINTO"}, "NADA", {})
              [] OTHER                -> v({}, "CANCELACION", {})
      [] e.existe /\ ~e.swcancel /\ e.finalizada ->
            CASE cobrado                   -> v({}, "NADA", {"REGISTRAR_COBRO_EN_ERP"})
              [] estado = "PENDIENTE_PAGO" -> v({}, "COBRO", {})
              [] estado = "CANCELADO"      -> v({"COBRADO_Y_CANCELADO"}, "NADA", {})
              [] OTHER                     -> v({"ESTADO_DISTINTO"}, "NADA", {})
      [] OTHER ->
            v((IF cobrado /\ "REGISTRAR_COBRO_EN_ERP" \notin abiertas
               THEN {"REVERSA_DE_COBRO"} ELSE {})
              \cup (IF estado = "CANCELADO" /\ ~tareaDeCancelar
                    THEN {"CANCELADO_VIVO_EN_ERP"} ELSE {}),
              "NADA", {})

\* What is still found stays open, the rest is closed.  What the cloud cured by
\* itself is born closed.
Registra(p, encontrados) == hallazgos' = [hallazgos EXCEPT ![p] = encontrados]

\* The order is read again, and what the ERP says goes through the handler of
\* the notices.
Concilia(p) ==
    LET v == Veredicto(agente.erp[p], pedidos[p].estado, tareas[p])
        cancela == v.aplicar = "CANCELACION"
        cobra   == v.aplicar = "COBRO" IN
    /\ Fase("APLICA") /\ p \in agente.quedan
    /\ agente' = [agente EXCEPT !.quedan = @ \ {p}]
    /\ Procesar(p, cancela, cobra, v.cerrar)
    /\ Registra(p, v.hallazgos \cup (IF Aceptado(p, cancela, cobra) THEN {}
                                      ELSE {"ESTADO_DISTINTO"}))
    /\ UNCHANGED <<solicitudes, envios, erp, consecutivo, bandeja, local, peticion, referencias,
                   incidentes>>

TerminaDeConciliar ==
    /\ Fase("APLICA") /\ agente.quedan = {}
    /\ PasaA("SUBE")
    /\ UNCHANGED <<nube, erp, consecutivo, bandeja, local, peticion, referencias, incidentes>>

-----------------------------------------------------------------------------
(* The cloud is not there: the step of the loop is given up.               *)

Alternativa(f) ==
    CASE f = "CONFIRMA"     -> "PIDE_FOLIOS"
      [] f = "PIDE_FOLIOS"  -> "VACIA"
      [] f = "AVISA_FOLIOS" -> "VACIA"
      [] f = "VACIA"        -> "PIDE_PEDIDOS"
      [] f = "PIDE_PEDIDOS" -> "RECONOCE"
      [] f = "RECONOCE"     -> "CONCILIA"

PeticionPerdida ==
    /\ agente.fase \in {"CONFIRMA", "PIDE_FOLIOS", "AVISA_FOLIOS", "VACIA", "PIDE_PEDIDOS",
                        "RECONOCE"}
    /\ Fase("AVISA_FOLIOS") => agente.quedan = {a.pedido : a \in agente.folios}
    /\ Incidente("PETICION_PERDIDA")
    /\ PasaA(Alternativa(agente.fase))
    /\ UNCHANGED <<nube, erp, consecutivo, bandeja, local, peticion, referencias>>

-----------------------------------------------------------------------------
(* The service stops and Windows starts it again.                          *)

Cae ==
    /\ ~Fase("CAIDO")
    /\ Incidente("CAIDA")
    /\ PasaA("CAIDO")
    /\ UNCHANGED <<nube, erp, consecutivo, bandeja, local, peticion, referencias>>

Arranca ==
    /\ Fase("CAIDO") /\ peticion = SinPeticion
    /\ PasaA("SUBE")
    /\ UNCHANGED <<nube, erp, consecutivo, bandeja, local, peticion, referencias, incidentes>>

-----------------------------------------------------------------------------
Gente ==
    \E p \in Pedidos :
        \/ CierraSurtido(p) \/ MandaAPagar(p) \/ CancelaPersonal(p) \/ CobraAMano(p) \/ Entrega(p)
        \/ CobraEnErp(p) \/ CancelaEnErp(p) \/ DesmarcaCobro(p)
        \/ LlegaReferencia(p) \/ PierdeAviso(p) \/ ExpiraEnvio(p)
        \/ \E t \in TiposTarea : ResuelveTarea(p, t)

Tiempo == \E p \in Pedidos : VenceSolicitud(p) \/ VenceEnvio(p)

\* The steps of the loop, and of the cloud on its behalf.
Vuelta ==
    \/ \E p \in Pedidos :
          SubeAviso(p) \/ Confirma(p) \/ ReservaFolio(p) \/ CaeTrasReservar(p) \/ Concilia(p)
    \/ \E a \in agente.folios : AvisaFolio(a)
    \/ \E b \in agente.bajadas : GrabaPedido(b)
    \/ \E a \in peticion.quedan : LeeAck(a)
    \/ MandaAcks("VACIA", "VACIANDO", "PIDE_PEDIDOS")
    \/ MandaAcks("RECONOCE", "RECONOCIENDO", "CONCILIA")
    \/ RecibeRespuesta("VACIANDO", "PIDE_PEDIDOS")
    \/ RecibeRespuesta("RECONOCIENDO", "CONCILIA")
    \/ TerminaDeSubir \/ TerminaDeConfirmar \/ PollFolios \/ TerminaDeReservar
    \/ TerminaDeAvisarFolios \/ AplicaAck \/ RespuestaSinDestino \/ PollPedidos \/ ArmaPedidos
    \/ EncolaAcks \/ LeeErp \/ NoConcilia \/ TerminaDeConciliar \/ Arranca

Next == Gente \/ Tiempo \/ Vuelta \/ PeticionPerdida \/ Cae

Spec == Init /\ [][Next]_vars

\* The loop goes on, leases end, and the turn of the comparison comes.
Justicia ==
    /\ WF_vars(Vuelta)
    /\ \A p \in Pedidos : WF_vars(VenceSolicitud(p)) /\ WF_vars(VenceEnvio(p))
    /\ SF_vars(LeeErp)

FairSpec == Spec /\ Justicia

-----------------------------------------------------------------------------
(* Properties.                                                             *)

\* The folio on the ticket that bodega printed is the folio in the ERP.
FolioDelTicketEsElDelErp ==
    \A p \in Pedidos :
        erp[p].existe /\ pedidos[p].folio # SIN_FOLIO => pedidos[p].folio = erp[p].folio

\* A number that was taken is used: the only holes in the numbering are the
\* ones that a crash leaves.
HuecosSoloPorCaida ==
    consecutivo <= Cardinality({p \in Pedidos : reservado[p].folio # SIN_FOLIO}) + incidentes

\* Two orders of the store never carry the same folio in the ERP.
FolioUnicoEnErp ==
    \A p, q \in Pedidos :
        p # q /\ erp[p].existe /\ erp[q].existe => erp[p].folio # erp[q].folio

\* An order that waits at the till is written in the ERP and acknowledged,
\* whatever was lost on the way, unless the maintenance job gives it up.
LlegaAlErp ==
    \A p \in Pedidos :
        (pedidos[p].estado = "PENDIENTE_PAGO" /\ p \in referencias)
          ~> (envios[p].estado \in {"PROCESADO", "EXPIRADO"} \/ pedidos[p].estado # "PENDIENTE_PAGO")

\* What the cashier charged in the ERP reaches the cloud, with the notice of
\* the trigger or without it.
CobroLlega ==
    \A p \in Pedidos :
        (erp[p].finalizada /\ pedidos[p].estado = "PENDIENTE_PAGO" /\ envios[p].estado = "PROCESADO")
          ~> (pedidos[p].estado # "PENDIENTE_PAGO" \/ ~erp[p].finalizada)

\* An order cancelled in the cloud that is alive in the ERP: somebody is told.
Avisado(p) == tareas[p] # {} \/ hallazgos[p] # {} \/ ~Vivo(p)

\* It holds for the orders that were acknowledged, even when the cancellation
\* falls between what the ack read and what it wrote.
CancelacionSeAvisa ==
    \A p \in Pedidos :
        (pedidos[p].estado = "CANCELADO" /\ Vivo(p) /\ envios[p].estado = "PROCESADO") ~> Avisado(p)

\* And for every order that is in the ERP: "lo resuelve el ACK", says
\* reflejarCancelacionEnErp of an order that the agent is writing.
CanceladoVivoSeAvisa ==
    \A p \in Pedidos : (pedidos[p].estado = "CANCELADO" /\ Vivo(p)) ~> Avisado(p)

\* "Tope de reintentos": an order with a variant that the ERP does not know
\* ends in ERROR, unless the variant arrives or the order is given up.
ReintentosAcotados ==
    \A p \in Pedidos :
        (envios[p].estado = "RETRY" /\ p \notin referencias)
          ~> (p \in referencias \/ envios[p].estado \in {"ERROR", "CANCELADO", "EXPIRADO"}
              \/ pedidos[p].estado = "CANCELADO")
=============================================================================
