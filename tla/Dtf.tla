-------------------------------- MODULE Dtf --------------------------------
(***************************************************************************)
(* The DTF printing jobs of one order: what the customer and the printing  *)
(* room do with each of them, and how the order waits for them in EN_DTF.  *)
(*                                                                         *)
(* A job is not written under a lock.  The changes of the printing room    *)
(* (cambiar) are conditional on the state and the version that were read;  *)
(* an upload, a cancellation by the customer, a reprint and the deletion   *)
(* of a draft write by id, whatever the job is by then.  The gate of the   *)
(* order counts the jobs in its transaction and writes the order on        *)
(* condition that its state did not change: the count may be old.          *)
(***************************************************************************)
EXTENDS Naturals

CONSTANTS
    Trabajos,       \* the jobs that the order can have
    Peticiones,     \* requests that can be in flight at once
    NADIE,          \* no job
    MaxVersiones,   \* bound on the files uploaded for one job
    Caidas          \* the process may die between two writes of a request

ASSUME NadieNoEsTrabajo == NADIE \notin Trabajos
ASSUME DtfAssumption == MaxVersiones \in Nat \ {0} /\ Caidas \in BOOLEAN

VARIABLES
    pedido,         \* the order, as far as its DTF jobs can tell
    trabajos,       \* the rows of PedidoDtf, by id
    peticiones      \* what each request in flight read, or Libre

vars == <<pedido, trabajos, peticiones>>

-----------------------------------------------------------------------------
\* SURTIENDO: any state in the hands of the warehouse or of an adviser.
EstadosPedido == {"SIN_CREAR", "SURTIENDO", "EN_DTF", "REVISADO", "EN_ATENCION",
                  "PENDIENTE_PAGO", "PAGADO", "ENTREGADO", "CANCELADO"}

ESTADOS_DTF_PENDIENTES == {"ARCHIVO_PENDIENTE", "RECIBIDO", "EN_REVISION",
                           "NECESITA_CORRECCION", "APROBADO", "EN_IMPRESION"}
EstadosDtf == ESTADOS_DTF_PENDIENTES \cup {"BORRADOR", "IMPRESO", "RECHAZADO", "CANCELADO"}

\* The customer can still change or remove the job, and send another file.
ESTADOS_DTF_EDITABLES_POR_CLIENTE ==
    {"BORRADOR"} \cup (ESTADOS_DTF_PENDIENTES \ {"EN_IMPRESION"})

TRANSICIONES_DTF ==
    [BORRADOR            |-> {"RECIBIDO", "ARCHIVO_PENDIENTE", "CANCELADO"},
     ARCHIVO_PENDIENTE   |-> {"RECIBIDO", "CANCELADO"},
     RECIBIDO            |-> {"EN_REVISION", "APROBADO", "NECESITA_CORRECCION",
                              "RECHAZADO", "CANCELADO"},
     EN_REVISION         |-> {"RECIBIDO", "APROBADO", "NECESITA_CORRECCION",
                              "RECHAZADO", "CANCELADO"},
     NECESITA_CORRECCION |-> {"RECIBIDO", "RECHAZADO", "CANCELADO"},
     APROBADO            |-> {"EN_IMPRESION", "RECIBIDO", "NECESITA_CORRECCION", "CANCELADO"},
     EN_IMPRESION        |-> {"IMPRESO", "EN_IMPRESION", "CANCELADO"},
     IMPRESO             |-> {"EN_IMPRESION"},
     RECHAZADO           |-> {},
     CANCELADO           |-> {}]

\* What the printing room asks for: soltar, aprobar, pedirCorreccion, rechazar,
\* imprimir, marcarImpreso.
DeImpresion == {"RECIBIDO", "APROBADO", "NECESITA_CORRECCION", "RECHAZADO",
                "EN_IMPRESION", "IMPRESO"}

(***************************************************************************)
(* version: versionVigente, 0 without a file.  asignado, aprobado: whether *)
(* asignadoAId and aprobadoAt are set.  preflight: of the current version. *)
(* enPedido: pedidoId is set.  NO_EXISTE is a row that was never created,  *)
(* BORRADO one that was deleted.                                           *)
(***************************************************************************)
Filas ==
    [estado    : EstadosDtf \cup {"NO_EXISTE", "BORRADO"},
     version   : Nat,
     asignado  : BOOLEAN,
     aprobado  : BOOLEAN,
     preflight : {"PENDIENTE", "OK", "BLOQUEADO"},
     enPedido  : BOOLEAN]

SinCrear == [estado |-> "NO_EXISTE", version |-> 0, asignado |-> FALSE,
             aprobado |-> FALSE, preflight |-> "PENDIENTE", enPedido |-> FALSE]

Pasos == {"NINGUNO", "SUBIR", "CAMBIAR", "CANCELAR", "BORRAR", "REIMPRIMIR",
          "RESOLVER", "RESUELTO", "REABRIR", "REABIERTO", "AVANZAR"}

\* What a request read: the job with its state, its version and whether it was
\* in the order; the state of the order.  a: where it takes the job or order.
Lecturas ==
    [paso     : Pasos,
     trabajo  : Trabajos \cup {NADIE},
     est      : EstadosDtf,
     version  : Nat,
     enPedido : BOOLEAN,
     de       : EstadosPedido,
     a        : EstadosDtf \cup EstadosPedido]

Libre == [paso |-> "NINGUNO", trabajo |-> NADIE, est |-> "BORRADOR", version |-> 0,
          enPedido |-> FALSE, de |-> "SIN_CREAR", a |-> "CANCELADO"]

Lectura(paso) == [Libre EXCEPT !.paso = paso]
LecturaDe(paso, t) ==
    [Libre EXCEPT !.paso = paso, !.trabajo = t, !.est = trabajos[t].estado,
                  !.version = trabajos[t].version, !.enPedido = trabajos[t].enPedido]

TypeOK ==
    /\ pedido \in [estado : EstadosPedido, prendas : BOOLEAN, domicilio : BOOLEAN]
    /\ trabajos \in [Trabajos -> Filas]
    /\ peticiones \in [Peticiones -> Lecturas]

Init ==
    /\ pedido \in [estado : {"SIN_CREAR"}, prendas : BOOLEAN, domicilio : BOOLEAN]
    /\ trabajos = [t \in Trabajos |-> SinCrear]
    /\ peticiones = [r \in Peticiones |-> Libre]

-----------------------------------------------------------------------------
(* Requests.                                                               *)

En(r, paso) == peticiones[r].paso = paso
Sigue(r, l) == peticiones' = [peticiones EXCEPT ![r] = l]
Termina(r)  == Sigue(r, Libre)

Recibe(r, l) == En(r, "NINGUNO") /\ Sigue(r, l) /\ UNCHANGED <<pedido, trabajos>>

\* A request of a single transaction needs a place too: Peticiones with one
\* element is one request at a time.
DeUnPaso(r) == En(r, "NINGUNO") /\ UNCHANGED peticiones

\* The rest of a request that has already written the job: it only fails to
\* happen when the process dies or an error cuts it.
Segundos == {"RESOLVER", "RESUELTO", "REABRIR", "REABIERTO"}

\* A guard that fails, a 409, a rollback; for the second writes, a crash.
Abandona(r) ==
    /\ peticiones[r] # Libre
    /\ peticiones[r].paso \in Segundos => Caidas
    /\ Termina(r)
    /\ UNCHANGED <<pedido, trabajos>>

EscribeTrabajo(t, fila) == trabajos' = [trabajos EXCEPT ![t] = fila]

\* The row is still there to be updated by id.
Existe(t) == trabajos[t].estado \in EstadosDtf

DelPedido  == {t \in Trabajos : Existe(t) /\ trabajos[t].enPedido}
Pendientes == {t \in DelPedido : trabajos[t].estado \in ESTADOS_DTF_PENDIENTES}
Impresos   == {t \in DelPedido : trabajos[t].estado = "IMPRESO"}

\* After the job was written, the order is told if the job that was read is one
\* of its own.
SigueCon(r, paso) ==
    IF peticiones[r].enPedido THEN Sigue(r, Lectura(paso)) ELSE Termina(r)

-----------------------------------------------------------------------------
(* The customer: dtf-trabajo.service, and the creation of the order.       *)

CreaBorrador(r) == \E t \in Trabajos :
    /\ DeUnPaso(r)
    /\ trabajos[t].estado = "NO_EXISTE"
    /\ EscribeTrabajo(t, [SinCrear EXCEPT !.estado = "BORRADOR"])
    /\ UNCHANGED pedido

AdjuntoSinArchivo(fila) ==
    [fila EXCEPT !.enPedido = TRUE,
                 !.estado   = IF fila.version = 0 THEN "BORRADOR" ELSE "RECIBIDO"]

\* adjuntarBorradoresAPedido, in the transaction that creates the order: a
\* draft without a file waits for it.
Adjunto(fila) ==
    [fila EXCEPT !.enPedido = TRUE,
                 !.estado   = IF fila.version = 0 THEN "ARCHIVO_PENDIENTE" ELSE "RECIBIDO"]

CreaPedido(r) ==
    /\ DeUnPaso(r)
    /\ pedido.estado = "SIN_CREAR"
    /\ \E S \in (SUBSET Trabajos) \ {{}} :
          /\ \A t \in S : /\ trabajos[t].estado = "BORRADOR"
                          /\ trabajos[t].preflight # "BLOQUEADO"
          /\ trabajos' = [t \in Trabajos |->
                            IF t \in S THEN Adjunto(trabajos[t]) ELSE trabajos[t]]
    /\ pedido' = [pedido EXCEPT !.estado = IF pedido.prendas THEN "SURTIENDO" ELSE "EN_DTF"]

LeeSubir(r) == \E t \in Trabajos :
    /\ trabajos[t].estado \in ESTADOS_DTF_EDITABLES_POR_CLIENTE
    /\ trabajos[t].version < MaxVersiones
    /\ Recibe(r, LecturaDe("SUBIR", t))

ConArchivoSinSoltar(fila, l) ==
    [fila EXCEPT !.version   = l.version + 1,
                 !.estado    = IF l.est = "BORRADOR" THEN "BORRADOR" ELSE "RECIBIDO",
                 !.aprobado  = FALSE,
                 !.preflight = "PENDIENTE"]

ConArchivoSinCola(fila, l) ==
    [fila EXCEPT !.version = l.version + 1, !.aprobado = FALSE, !.preflight = "PENDIENTE"]

ConArchivoNuevo(fila, l) ==
    [fila EXCEPT !.version   = l.version + 1,
                 !.estado    = IF l.est = "BORRADOR" THEN "BORRADOR" ELSE "RECIBIDO",
                 !.asignado  = FALSE,
                 !.aprobado  = FALSE,
                 !.preflight = "PENDIENTE"]

\* dtfId, version is unique: the version that follows the one it read must not
\* exist yet.
VersionRepetible(t, l) == TRUE
VersionUnica(t, l)     == trabajos[t].version = l.version

\* The file is stored between the read and this transaction, which writes by id
\* the state that it computed from the one it read.
Sube(r) ==
    LET l == peticiones[r] IN
    /\ En(r, "SUBIR")
    /\ Existe(l.trabajo)
    /\ VersionUnica(l.trabajo, l)
    /\ EscribeTrabajo(l.trabajo, ConArchivoNuevo(trabajos[l.trabajo], l))
    /\ Termina(r)
    /\ UNCHANGED pedido

\* The automatic review of the current version; it never comes back if it fails.
Analiza(t) ==
    /\ Existe(t) /\ trabajos[t].version > 0 /\ trabajos[t].preflight = "PENDIENTE"
    /\ \E e \in {"OK", "BLOQUEADO"} :
          EscribeTrabajo(t, [trabajos[t] EXCEPT !.preflight = e])
    /\ UNCHANGED <<pedido, peticiones>>

\* A draft is deleted by its owner, or by the worker when it expires.
LeeCancelar(r) == \E t \in Trabajos :
    /\ trabajos[t].estado \in ESTADOS_DTF_EDITABLES_POR_CLIENTE
    /\ Recibe(r, LecturaDe(IF trabajos[t].estado = "BORRADOR" THEN "BORRAR" ELSE "CANCELAR", t))

BorraComoExpirado(r) ==
    LET t == peticiones[r].trabajo IN
    /\ En(r, "BORRAR")
    /\ Existe(t)
    /\ EscribeTrabajo(t, [trabajos[t] EXCEPT !.estado = "EXPIRADO"])
    /\ Termina(r)
    /\ UNCHANGED pedido

Borra(r) ==
    LET t == peticiones[r].trabajo IN
    /\ En(r, "BORRAR")
    /\ Existe(t)
    /\ EscribeTrabajo(t, [trabajos[t] EXCEPT !.estado = "BORRADO"])
    /\ Termina(r)
    /\ UNCHANGED pedido

CancelaSinResolver(r) ==
    LET t == peticiones[r].trabajo IN
    /\ En(r, "CANCELAR")
    /\ Existe(t)
    /\ EscribeTrabajo(t, [trabajos[t] EXCEPT !.estado = "CANCELADO", !.asignado = FALSE])
    /\ Termina(r)
    /\ UNCHANGED pedido

Cancela(r) ==
    LET t == peticiones[r].trabajo IN
    /\ En(r, "CANCELAR")
    /\ Existe(t)
    /\ EscribeTrabajo(t, [trabajos[t] EXCEPT !.estado = "CANCELADO", !.asignado = FALSE])
    /\ SigueCon(r, "RESOLVER")
    /\ UNCHANGED pedido

-----------------------------------------------------------------------------
(* The printing room: impresion.service.                                   *)

Toma(r) == \E t \in Trabajos :
    /\ DeUnPaso(r)
    /\ trabajos[t].estado = "RECIBIDO" /\ ~trabajos[t].asignado
    /\ EscribeTrabajo(t, [trabajos[t] EXCEPT !.estado = "EN_REVISION", !.asignado = TRUE])
    /\ UNCHANGED pedido

SinErrores(t) == trabajos[t].preflight # "BLOQUEADO"
\* What aprobar asks for.
ArchivoSinErrores(t) == trabajos[t].version > 0 /\ trabajos[t].preflight # "BLOQUEADO"

LeeCambiar(r) == \E t \in Trabajos : \E a \in DeImpresion :
    /\ Existe(t)
    /\ a \in TRANSICIONES_DTF[trabajos[t].estado]
    /\ a = "APROBADO" => ArchivoSinErrores(t)
    /\ Recibe(r, [LecturaDe("CAMBIAR", t) EXCEPT !.a = a])

\* The columns that each change writes beside the state.
ConEstado(fila, a) ==
    [fila EXCEPT !.estado   = a,
                 !.asignado = CASE a \in {"APROBADO", "EN_IMPRESION"} -> TRUE
                                [] a = "IMPRESO"                      -> @
                                [] OTHER                              -> FALSE,
                 !.aprobado = CASE a = "APROBADO"            -> TRUE
                                [] a = "NECESITA_CORRECCION" -> FALSE
                                [] OTHER                     -> @]

Cambia(r) ==
    LET l == peticiones[r] IN
    /\ En(r, "CAMBIAR")
    /\ trabajos[l.trabajo].estado = l.est
    /\ trabajos[l.trabajo].version = l.version
    /\ EscribeTrabajo(l.trabajo, ConEstado(trabajos[l.trabajo], l.a))
    /\ IF l.a \in {"IMPRESO", "RECHAZADO"} THEN SigueCon(r, "RESOLVER") ELSE Termina(r)
    /\ UNCHANGED pedido

LeeReimprimir(r) == \E t \in Trabajos :
    /\ trabajos[t].estado \in {"EN_IMPRESION", "IMPRESO"}
    /\ Recibe(r, LecturaDe("REIMPRIMIR", t))

Reimprime(r) ==
    LET l == peticiones[r] IN
    /\ En(r, "REIMPRIMIR")
    /\ Existe(l.trabajo)
    /\ EscribeTrabajo(l.trabajo, [trabajos[l.trabajo] EXCEPT !.estado = "EN_IMPRESION"])
    /\ IF l.est = "IMPRESO" THEN SigueCon(r, "REABRIR") ELSE Termina(r)
    /\ UNCHANGED pedido

-----------------------------------------------------------------------------
(* The order: dtf-pedido.service and the gate of pedido-state.service.     *)

\* UPDATE of the order on condition that its state is the one that was read.
Mueve(l) ==
    /\ pedido.estado = l.de
    /\ pedido' = [pedido EXCEPT !.estado = l.a]

AlSalirDeDtf == IF pedido.domicilio THEN "PENDIENTE_PAGO" ELSE "REVISADO"

\* resolver reads the order and counts its jobs.
LeeResolver(r) ==
    /\ En(r, "RESOLVER")
    /\ IF pedido.estado = "EN_DTF" /\ Pendientes = {}
       THEN Sigue(r, [Lectura("RESUELTO") EXCEPT
                        !.de = "EN_DTF",
                        !.a  = IF ~pedido.prendas /\ Impresos = {} THEN "CANCELADO"
                               ELSE AlSalirDeDtf])
       ELSE Termina(r)
    /\ UNCHANGED <<pedido, trabajos>>

\* The conditional UPDATE, or the 409 if the order is somewhere else by then.
Resuelve(r) ==
    LET l == peticiones[r] IN
    /\ En(r, "RESUELTO")
    /\ IF pedido.estado = l.de THEN Mueve(l) ELSE UNCHANGED pedido
    /\ Termina(r)
    /\ UNCHANGED trabajos

DeDondeReabre == {"REVISADO", "EN_ATENCION"}

LeeReabrir(r) ==
    /\ En(r, "REABRIR")
    /\ IF pedido.estado \in DeDondeReabre
       THEN Sigue(r, [Lectura("REABIERTO") EXCEPT !.de = pedido.estado, !.a = "EN_DTF"])
       ELSE Termina(r)
    /\ UNCHANGED <<pedido, trabajos>>

\* cambiarEstado reads the order again: only what cannot go to EN_DTF from
\* where it is refuses it, as SOLICITADO, one of SURTIENDO, cannot.
Reabre(r) ==
    /\ En(r, "REABIERTO")
    /\ \/ /\ pedido.estado \in {"SURTIENDO"} \cup DeDondeReabre
          /\ pedido' = [pedido EXCEPT !.estado = "EN_DTF"]
       \/ pedido.estado \notin DeDondeReabre /\ UNCHANGED pedido
    /\ Termina(r)
    /\ UNCHANGED trabajos

\* The gate: a handler that wants to put the order on the table, attend it or
\* send it to the till counts its jobs; from the warehouse it is diverted.
Compuerta(de, a) == IF Pendientes # {} /\ de = "SURTIENDO" THEN "EN_DTF" ELSE a

Presentables == {"REVISADO", "EN_ATENCION", "PENDIENTE_PAGO"}

Avances ==
    [SURTIENDO   |-> {"REVISADO", "PENDIENTE_PAGO"},
     REVISADO    |-> {"EN_ATENCION", "PENDIENTE_PAGO"},
     EN_ATENCION |-> {"REVISADO", "PENDIENTE_PAGO"}]

LeeAvanzarSinContar(r) ==
    /\ pedido.estado \in DOMAIN Avances
    /\ \E a \in Avances[pedido.estado] :
          Recibe(r, [Lectura("AVANZAR") EXCEPT !.de = pedido.estado, !.a = a])

LeeAvanzar(r) ==
    /\ pedido.estado \in DOMAIN Avances
    /\ \E a \in Avances[pedido.estado] :
          LET destino == Compuerta(pedido.estado, a) IN
          /\ destino \in Presentables => Pendientes = {}
          /\ Recibe(r, [Lectura("AVANZAR") EXCEPT !.de = pedido.estado, !.a = destino])

Avanza(r) ==
    /\ En(r, "AVANZAR")
    /\ Mueve(peticiones[r])
    /\ Termina(r)
    /\ UNCHANGED trabajos

\* What moves the order without looking at its jobs: back to the warehouse, the
\* charge, the delivery and the cancellation.
MuevePedido(r) ==
    /\ DeUnPaso(r)
    /\ \/ /\ pedido.estado \in {"REVISADO", "EN_ATENCION"}
          /\ pedido' = [pedido EXCEPT !.estado = "SURTIENDO"]
       \/ /\ pedido.estado = "PENDIENTE_PAGO"
          /\ pedido' = [pedido EXCEPT !.estado = "PAGADO"]
       \/ /\ pedido.estado = "PAGADO"
          /\ pedido' = [pedido EXCEPT !.estado = "ENTREGADO"]
       \/ /\ pedido.estado \notin {"SIN_CREAR", "ENTREGADO", "CANCELADO"}
          /\ pedido' = [pedido EXCEPT !.estado = "CANCELADO"]
    /\ UNCHANGED trabajos

-----------------------------------------------------------------------------
DelCliente(r) ==
    \/ CreaBorrador(r) \/ CreaPedido(r)
    \/ LeeSubir(r) \/ Sube(r)
    \/ LeeCancelar(r) \/ Borra(r) \/ Cancela(r)

DeLaImpresion(r) ==
    \/ Toma(r)
    \/ LeeCambiar(r) \/ Cambia(r)
    \/ LeeReimprimir(r) \/ Reimprime(r)

DeLaOrden(r) ==
    \/ LeeResolver(r) \/ Resuelve(r)
    \/ LeeReabrir(r) \/ Reabre(r)
    \/ LeeAvanzar(r) \/ Avanza(r)
    \/ MuevePedido(r)

Next ==
    \/ \E t \in Trabajos : Analiza(t)
    \/ \E r \in Peticiones :
          DelCliente(r) \/ DeLaImpresion(r) \/ DeLaOrden(r) \/ Abandona(r)

Spec == Init /\ [][Next]_vars

-----------------------------------------------------------------------------
(* Properties of every interleaving.                                       *)

\* A job that waits for review can be taken, and one under review is somebody's:
\* tomar asks for RECIBIDO with nobody on it, so a job put back in the queue with
\* its old owner would never be reviewed.
ColaDeRevisionTomable ==
    \A t \in Trabajos :
        /\ trabajos[t].estado = "RECIBIDO" => ~trabajos[t].asignado
        /\ trabajos[t].estado = "EN_REVISION" => trabajos[t].asignado

\* Nothing is approved or printed without a file, whatever uploads, deletions
\* and reprints coincide with the approval.
ImpresoConArchivo ==
    \A t \in Trabajos :
        trabajos[t].estado \in {"APROBADO", "EN_IMPRESION", "IMPRESO"} => trabajos[t].version > 0

\* Uploads that coincide never write the same version twice nor go back to an
\* older one.
VersionSoloSube ==
    [][\A t \in Trabajos :
          trabajos'[t].version \in {trabajos[t].version, trabajos[t].version + 1}]_vars

-----------------------------------------------------------------------------
(* Properties of one request at a time.                                    *)

SinPeticiones == \A r \in Peticiones : peticiones[r] = Libre

\* Only the file that was approved is printed: another version goes back to the
\* queue and takes its approval with it.
ImprimeLoAprobado ==
    \A t \in Trabajos :
        trabajos[t].estado \in {"APROBADO", "EN_IMPRESION", "IMPRESO"} => trabajos[t].aprobado

\* An order is diverted or refused rather than put on the table, attended or
\* sent to the till with something left to print: the gate and resolver agree.
NadieEntraConDtfPendiente ==
    [][pedido'.estado # pedido.estado /\ pedido'.estado \in Presentables
         => Pendientes = {}]_vars

\* A draft belongs to no order ("en el carrito, sin pedido"): in an order it
\* would neither be charged nor printed nor waited for.
BorradorSinPedido ==
    \A t \in Trabajos : trabajos[t].estado \in {"BORRADOR", "BORRADO"} => ~trabajos[t].enPedido

\* An order waits in EN_DTF only for something that can still be printed: "si ya
\* no queda DTF por imprimir, lo saca de EN_DTF".
EnDtfEsperaAlgo ==
    SinPeticiones /\ pedido.estado = "EN_DTF" => Pendientes # {}

-----------------------------------------------------------------------------
(* What the code says of itself and a single request refutes.              *)

\* "Un pedido con impresión DTF pendiente NO puede estar en la plancha
\* (REVISADO), en atención": once every reprint has told the order.
PlanchaSinDtfPendiente ==
    SinPeticiones /\ pedido.estado \in {"REVISADO", "EN_ATENCION"} => Pendientes = {}
=============================================================================
