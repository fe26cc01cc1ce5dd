--------------------------- MODULE MaquinaPedido ---------------------------
(***************************************************************************)
(* The state machine of one order, as PedidoStateService.ejecutarCambio    *)
(* applies it: the table of legal transitions, the guards every caller     *)
(* goes through and the columns of the order that move with its state.     *)
(* Pure operators: the handlers of module Pedido call them.                *)
(*                                                                         *)
(* The operators that nothing uses, here and in the other modules, are     *)
(* variants of the one that follows them with a plausible mistake in it:   *)
(* the README lists which property each one breaks.                        *)
(***************************************************************************)
EXTENDS FiniteSets

CONSTANTS
    Bodegueros,     \* warehouse users that can hold an order
    NADIE           \* the null of a nullable column

ASSUME NadieAssumption == NADIE \notin Bodegueros

EstadosPedido ==
    {"SOLICITADO", "EN_REVISION", "ESPERANDO_APROBACION", "EN_ASESORIA",
     "EN_DTF", "REVISADO", "EN_ATENCION", "PENDIENTE_PAGO", "PAGADO",
     "ENVIADO", "ENTREGADO", "CANCELADO"}

TRANSICIONES ==
    [SOLICITADO           |-> {"EN_REVISION", "CANCELADO"},
     EN_REVISION          |-> {"ESPERANDO_APROBACION", "REVISADO",
                               "PENDIENTE_PAGO", "EN_DTF", "CANCELADO"},
     ESPERANDO_APROBACION |-> {"REVISADO", "PENDIENTE_PAGO", "EN_REVISION",
                               "EN_ASESORIA", "EN_DTF", "CANCELADO"},
     EN_ASESORIA          |-> {"ESPERANDO_APROBACION", "EN_REVISION",
                               "REVISADO", "EN_DTF", "CANCELADO"},
     EN_DTF               |-> {"REVISADO", "PENDIENTE_PAGO", "CANCELADO"},
     REVISADO             |-> {"EN_ATENCION", "PENDIENTE_PAGO", "EN_REVISION",
                               "ESPERANDO_APROBACION", "EN_DTF", "CANCELADO"},
     EN_ATENCION          |-> {"REVISADO", "EN_REVISION", "PENDIENTE_PAGO",
                               "EN_DTF", "CANCELADO"},
     PENDIENTE_PAGO       |-> {"PAGADO", "CANCELADO"},
     PAGADO               |-> {"ENVIADO", "ENTREGADO", "CANCELADO"},
     ENVIADO              |-> {"ENTREGADO", "CANCELADO"},
     ENTREGADO            |-> {},
     CANCELADO            |-> {}]

\* cobro.util: the states of an order that has been charged.
ESTADOS_YA_COBRADOS == {"PAGADO", "ENVIADO", "ENTREGADO"}

\* presencia.util: the bag waits for the customer on the delivery table.
ESTADOS_ESPERA_CLIENTE == {"REVISADO", "ESPERANDO_APROBACION"}
ESTADOS_BOLSA_APARTADA == ESTADOS_ESPERA_CLIENTE \cup {"EN_ATENCION"}

\* The states an order cannot enter while it has DTF jobs to print, and those
\* from which it is then sent to wait for them instead of being refused.
PidenDtfImpreso == {"REVISADO", "PENDIENTE_PAGO", "EN_ATENCION"}
VienenDeBodega  == {"EN_REVISION", "ESPERANDO_APROBACION", "EN_ASESORIA"}

(***************************************************************************)
(* The row of the order: the columns that this machine reads or writes.    *)
(* encolado: it has its PedidoPendienteEnvio row, the only way into the    *)
(* ERP.  enCaja: colaCajaDesdeAt is set.  espera: esperaClienteDesdeAt.    *)
(* llamado: llamadoAt.  corre: bodegaTurnoDesdeAt is set.  presente: the   *)
(* customer is known to be in the store.  lineas: the summary of the       *)
(* items' estadoSurtido.  dtf: DTF jobs not yet printed.  impreso: one is. *)
(***************************************************************************)
EstadosLineas == {"PENDIENTES", "CON_FALTANTE", "COMPLETAS"}

Pedidos ==
    [estado    : EstadosPedido,
     asignado  : Bodegueros \cup {NADIE},
     encolado  : BOOLEAN,
     enCaja    : BOOLEAN,
     espera    : BOOLEAN,
     llamado   : BOOLEAN,
     corre     : BOOLEAN,
     presente  : BOOLEAN,
     lineas    : EstadosLineas,
     dtf       : BOOLEAN,
     impreso   : BOOLEAN,
     soloDtf   : BOOLEAN,
     domicilio : BOOLEAN]

-----------------------------------------------------------------------------
(***************************************************************************)
(* CambiarEstadoOpts: what a caller of cambiarEstado may ask for.          *)
(***************************************************************************)
Opciones ==
    [asignacion : {"caller", "limpiar", "mantener", "ninguna"},
     quien      : Bodegueros \cup {NADIE},
     reloj      : {"detener", "reanudar", "mantener"},
     encolar    : BOOLEAN,
     mismo      : BOOLEAN,      \* permitirMismoEstado
     desde      : SUBSET EstadosPedido]

SinOpciones ==
    [asignacion |-> "ninguna", quien |-> NADIE, reloj |-> "mantener",
     encolar |-> FALSE, mismo |-> FALSE, desde |-> EstadosPedido]

SaleSinLimpiar == [SinOpciones EXCEPT !.reloj = "detener"]
SaleConReloj   == [SinOpciones EXCEPT !.asignacion = "limpiar"]

\* The two combinations nearly every handler uses: the order leaves the
\* warehouse, or goes back to its queue with nobody on it.
SaleDeBodega   == [SinOpciones EXCEPT !.asignacion = "limpiar", !.reloj = "detener"]
VuelveABodega  == [SinOpciones EXCEPT !.asignacion = "limpiar", !.reloj = "reanudar"]

\* saltarTransicion: the effects apply but the order does not move.
Salta(p, nuevo, o) == p.estado = nuevo /\ o.mismo

\* Where the order really goes: one that comes from the warehouse with DTF
\* jobs to print is diverted to EN_DTF, and then it is not queued for the ERP.
Destino(p, nuevo, o) ==
    IF /\ ~Salta(p, nuevo, o)
       /\ nuevo \in PidenDtfImpreso \ {"EN_ATENCION"}
       /\ p.dtf
       /\ p.estado \in VienenDeBodega
    THEN "EN_DTF"
    ELSE nuevo

EncolaAunqueDesvie(p, nuevo, o) == o.encolar
Encola(p, nuevo, o) == o.encolar /\ Destino(p, nuevo, o) = nuevo

\* validarTransicion and the DTF guard.
VolverDesdeCaja(e, d) ==
    \/ d \in TRANSICIONES[e]
    \/ e = "PENDIENTE_PAGO" /\ d \in TRANSICIONES["REVISADO"]
CualquierTransicion(e, d) == e # d
TransicionPermitida(e, d) == d \in TRANSICIONES[e]

\* The jobs are counted in the transaction; the count is taken as current here,
\* and module Dtf tells what it may miss.
DtfListo(p, d) == d \in PidenDtfImpreso => ~p.dtf

\* The guards of ejecutarCambio, and the unique index on the row of the ERP
\* queue: when one fails the transaction rolls back and nothing happens.
Admite(p, nuevo, o) ==
    LET d == Destino(p, nuevo, o) IN
    /\ p.estado \in o.desde
    /\ \/ Salta(p, nuevo, o)
       \/ TransicionPermitida(p.estado, d) /\ DtfListo(p, d)
    /\ d = "EN_REVISION" => o.asignacion # "ninguna"
    /\ d = "PENDIENTE_PAGO" => Encola(p, nuevo, o) \/ p.encolado
    /\ Encola(p, nuevo, o) => ~p.encolado

\* cambiosDeAsignacion and cambiosDeReloj.
Asignacion(p, o) == CASE o.asignacion = "caller"   -> o.quien
                      [] o.asignacion = "limpiar"  -> NADIE
                      [] OTHER                     -> p.asignado
Reloj(p, o) == CASE o.reloj = "detener"  -> FALSE
                 [] o.reloj = "reanudar" -> TRUE
                 [] OTHER                -> p.corre

EsperaSinAtencion(p, d) ==
    \/ d \in ESTADOS_ESPERA_CLIENTE /\ p.estado \notin ESTADOS_ESPERA_CLIENTE
    \/ p.espera /\ (p.estado \in ESTADOS_ESPERA_CLIENTE => d \in ESTADOS_ESPERA_CLIENTE)

\* cambiosDeEspera: the wait starts when the bag is put on the table and ends
\* when it leaves it; moving between the states of the table keeps it.
Espera(p, d) ==
    \/ d \in ESTADOS_BOLSA_APARTADA /\ p.estado \notin ESTADOS_BOLSA_APARTADA
    \/ p.espera /\ (p.estado \in ESTADOS_BOLSA_APARTADA => d \in ESTADOS_BOLSA_APARTADA)

LlamadoPegado(p, d) == p.llamado /\ d \in ESTADOS_BOLSA_APARTADA

\* The call on the screen ends when the order goes anywhere but REVISADO, or
\* goes there from EN_ATENCION.
Llamado(p, d) == p.llamado /\ d = "REVISADO" /\ p.estado # "EN_ATENCION"

EnCajaSinEntrada(p, d) == p.enCaja /\ p.estado # "PENDIENTE_PAGO"

EnCaja(p, d) ==
    CASE d = "PENDIENTE_PAGO"                              -> TRUE
      [] d # "PENDIENTE_PAGO" /\ p.estado = "PENDIENTE_PAGO" -> FALSE
      [] OTHER                                             -> p.enCaja

\* The row that ejecutarCambio leaves, before the effects of the caller.
Transita(p, nuevo, o) ==
    LET d == Destino(p, nuevo, o)
        q == [p EXCEPT !.asignado = Asignacion(p, o),
                       !.corre    = Reloj(p, o),
                       !.encolado = @ \/ Encola(p, nuevo, o)]
    IN  IF Salta(p, nuevo, o) THEN q
        ELSE [q EXCEPT !.estado  = d,
                       !.espera  = Espera(p, d),
                       !.llamado = Llamado(p, d),
                       !.enCaja  = EnCaja(p, d)]
=============================================================================
