-------------------------------- MODULE Caja --------------------------------
(***************************************************************************)
(* The till: its line, the windows where the cashiers sit and the orders   *)
(* that each of them attends.  A cashier reads the line and takes an order *)
(* in two steps; a window is chosen, taken over, given up or swept away    *)
(* when its cashier gives no sign of life.  Whoever loses a window gives   *)
(* the orders they were attending back to the line.                        *)
(*                                                                         *)
(* A request validates what it read (Lee...) and commits later; the        *)
(* sweeping worker does the same, one window at a time.                    *)
(***************************************************************************)
EXTENDS Naturals, Sequences

CONSTANTS
    Pedidos,            \* orders, none of them for home delivery
    PorTransferencia,   \* the orders whose customer may pay by transfer
    Ventanillas,        \* the windows that can be created
    Cajeros,            \* users with role CAJERO
    Admins,             \* users with role ADMIN, who go from store to store
    Tiendas,
    TiendaDePedido, TiendaDeVentanilla, TiendaDeCajero,
    Peticiones,         \* requests that can be in flight at once
    NADIE,
    INTENTOS_LLAMAR_SIGUIENTE,
    Operaciones         \* the handlers that receive requests

Personal == Cajeros \cup Admins

OperacionesConocidas ==
    {"TOMAR", "LLAMAR", "LIBERAR", "NO_SE_PRESENTO", "ESPERAR_VALIDACION",
     "ELEGIR", "TOMAR_CONTROL", "SOLTAR", "BORRAR"}

ASSUME PersonalAssumption ==
    /\ NADIE \notin Personal /\ "BORRADA" \notin Personal
    /\ Cajeros \cap Admins = {}
ASSUME PedidosAssumption == PorTransferencia \subseteq Pedidos
ASSUME TiendasAssumption ==
    /\ TiendaDePedido \in [Pedidos -> Tiendas]
    /\ TiendaDeVentanilla \in [Ventanillas -> Tiendas]
    /\ TiendaDeCajero \in [Cajeros -> Tiendas]
ASSUME OperacionesAssumption ==
    /\ INTENTOS_LLAMAR_SIGUIENTE \in Nat \ {0}
    /\ Operaciones \subseteq OperacionesConocidas

VARIABLES
    pedidos,        \* the columns of each order that the till reads
    fila,           \* the orders at the till, by colaCajaDesdeAt
    ventanillas,    \* Ventanilla.cajeroId, or that the row was deleted
    activo,         \* who gave a sign of life in the last 15 minutes
    peticiones,     \* what each request in flight read, or Libre
    barrido         \* the windows that the sweep still has to free

caja  == <<pedidos, fila>>
vars  == <<pedidos, fila, ventanillas, activo, peticiones, barrido>>

-----------------------------------------------------------------------------
EstadosPedido == {"TIENDA", "PENDIENTE_PAGO", "FUERA"}

Filas ==
    [estado   : EstadosPedido,
     cajero   : Personal \cup {NADIE},
     espera   : BOOLEAN,            \* esperaValidacionDesdeAt is set
     noCobrar : BOOLEAN]            \* a transfer is under way, not verified yet

Ocupantes == Personal \cup {NADIE, "BORRADA"}

\* ped, ven: the order and the window that the request is about.  ocupante:
\* who held it when it was read.
Lecturas ==
    [op       : OperacionesConocidas \cup {"NINGUNA"},
     quien    : Personal \cup {NADIE},
     ped      : Pedidos \cup {NADIE},
     ven      : Ventanillas \cup {NADIE},
     ocupante : Personal \cup {NADIE},
     intento  : 0..INTENTOS_LLAMAR_SIGUIENTE]

Libre == [op |-> "NINGUNA", quien |-> NADIE, ped |-> NADIE, ven |-> NADIE,
          ocupante |-> NADIE, intento |-> 0]

\* leida: the window that liberar read and is about to free, or NADIE.
Barridos ==
    [quedan : SUBSET (Ventanillas \X Personal),
     leida  : (Ventanillas \X Personal) \cup {NADIE}]

SinBarrido == [quedan |-> {}, leida |-> NADIE]

TypeOK ==
    /\ pedidos \in [Pedidos -> Filas]
    /\ fila \in Seq(Pedidos)
    /\ ventanillas \in [Ventanillas -> Ocupantes]
    /\ activo \in [Personal -> BOOLEAN]
    /\ peticiones \in [Peticiones -> Lecturas]
    /\ barrido \in Barridos

Init ==
    /\ pedidos = [p \in Pedidos |->
                    [estado |-> "TIENDA", cajero |-> NADIE, espera |-> FALSE, noCobrar |-> FALSE]]
    /\ fila = <<>>
    /\ ventanillas = [v \in Ventanillas |-> NADIE]
    /\ activo = [u \in Personal |-> FALSE]
    /\ peticiones = [r \in Peticiones |-> Libre]
    /\ barrido = SinBarrido

-----------------------------------------------------------------------------
(* The line.                                                               *)

EnFila(p)   == pedidos[p].estado = "PENDIENTE_PAGO" /\ pedidos[p].cajero = NADIE
NoCobrar(p) == pedidos[p].noCobrar

EsperandoValidacion(p) == pedidos[p].espera /\ NoCobrar(p)
Llamable(p)            == EnFila(p) /\ ~EsperandoValidacion(p)

\* The places of the line that can be called from a store, and who has the first.
LlamablesDe(t) == {i \in 1..Len(fila) : TiendaDePedido[fila[i]] = t /\ Llamable(fila[i])}
SiguienteDe(t) == fila[CHOOSE i \in LlamablesDe(t) : \A j \in LlamablesDe(t) : i <= j]

Sin(p) == SelectSeq(fila, LAMBDA q : q # p)

Atiende(u, p) == pedidos[p].estado = "PENDIENTE_PAGO" /\ pedidos[p].cajero = u

-----------------------------------------------------------------------------
(* Windows.                                                                *)

OpereEn(u, t)      == u \in Cajeros => TiendaDeCajero[u] = t
TieneVentanilla(u) == \E v \in Ventanillas : ventanillas[v] = u
TieneEn(u, t) ==
    \E v \in Ventanillas : ventanillas[v] = u /\ TiendaDeVentanilla[v] = t

\* EstacionGuard: it exempts an ADMIN.
ConEstacion(u) == u \in Admins \/ TieneVentanilla(u)

\* regresarPedidosALaFila: colaCajaDesdeAt stays as it is, and so does their
\* place.
Regresados(filas, u, t) ==
    [p \in Pedidos |->
        IF /\ filas[p].estado = "PENDIENTE_PAGO" /\ filas[p].cajero = u
           /\ TiendaDePedido[p] = t
        THEN [filas[p] EXCEPT !.cajero = NADIE]
        ELSE filas[p]]

-----------------------------------------------------------------------------
(* Requests.                                                               *)

En(r, op)   == peticiones[r].op = op
Sigue(r, l) == peticiones' = [peticiones EXCEPT ![r] = l]
Termina(r)  == Sigue(r, Libre)

Recibe(r, op, l) ==
    /\ op \in Operaciones
    /\ En(r, "NINGUNA")
    /\ Sigue(r, [l EXCEPT !.op = op])
    /\ UNCHANGED <<pedidos, fila, ventanillas, activo, barrido>>

\* A guard that fails, a 409, a rollback or the death of the process.
Abandona(r) ==
    /\ peticiones[r] # Libre
    /\ Termina(r)
    /\ UNCHANGED <<pedidos, fila, ventanillas, activo, barrido>>

Escribe(r, p, fila_p) ==
    /\ pedidos' = [pedidos EXCEPT ![p] = fila_p]
    /\ Termina(r)
    /\ UNCHANGED <<ventanillas, activo, barrido>>

-----------------------------------------------------------------------------
(* An order is taken, called and given back.                               *)

LeeTomar(r, u, p) ==
    /\ ConEstacion(u)
    /\ u \in Admins => TieneEn(u, TiendaDePedido[p])
    /\ OpereEn(u, TiendaDePedido[p])
    /\ Recibe(r, "TOMAR", [Libre EXCEPT !.quien = u, !.ped = p])

PuedeTomarDeOtro(u, p) == pedidos[p].estado = "PENDIENTE_PAGO"

\* tomarPedidoCajeroInterno: state and assignment are in the WHERE.
PuedeTomar(u, p) ==
    /\ pedidos[p].estado = "PENDIENTE_PAGO"
    /\ pedidos[p].cajero \in {NADIE, u}

Asigna(r, u, p) ==
    /\ PuedeTomar(u, p)
    /\ Escribe(r, p, [pedidos[p] EXCEPT !.cajero = u, !.espera = FALSE])
    /\ UNCHANGED fila

Toma(r) ==
    /\ En(r, "TOMAR")
    /\ Asigna(r, peticiones[r].quien, peticiones[r].ped)

\* llamarSiguiente looks for the first of the line that can be called...
LeeLlamar(r, u, t) ==
    /\ ConEstacion(u)
    /\ OpereEn(u, t)
    /\ TieneEn(u, t)
    /\ LlamablesDe(t) # {}
    /\ Recibe(r, "LLAMAR", [Libre EXCEPT !.quien = u, !.ped = SiguienteDe(t), !.intento = 1])

\* ... takes it...
Llama(r) ==
    /\ En(r, "LLAMAR")
    /\ Asigna(r, peticiones[r].quien, peticiones[r].ped)

\* ... and looks again when another cashier was faster (the store of the order
\* is the store it was asked for).
ReintentaLlamar(r) ==
    LET l == peticiones[r]
        t == TiendaDePedido[l.ped]
    IN  /\ En(r, "LLAMAR")
        /\ pedidos[l.ped].estado = "PENDIENTE_PAGO"
        /\ ~PuedeTomar(l.quien, l.ped)
        /\ l.intento < INTENTOS_LLAMAR_SIGUIENTE
        /\ LlamablesDe(t) # {}
        /\ Sigue(r, [l EXCEPT !.ped = SiguienteDe(t), !.intento = @ + 1])
        /\ UNCHANGED <<pedidos, fila, ventanillas, activo, barrido>>

\* liberarPedidoCajero, of the cashier, of an ADMIN, or of the manager of the
\* store (nobody of the till) who gets a stuck order out of its window: it
\* checks who has the order and writes by id.
LeeLiberar(r, u, p) ==
    /\ IF u = NADIE
       THEN pedidos[p].estado = "PENDIENTE_PAGO" /\ pedidos[p].cajero # NADIE
       ELSE ConEstacion(u) /\ (u \in Admins \/ pedidos[p].cajero = u)
    /\ Recibe(r, "LIBERAR", [Libre EXCEPT !.quien = u, !.ped = p])

Libera(r) ==
    LET p == peticiones[r].ped
    IN  /\ En(r, "LIBERAR")
        /\ Escribe(r, p, [pedidos[p] EXCEPT !.cajero = NADIE])
        /\ UNCHANGED fila

\* noSePresento and esperarValidacion: the cashier they read is in the WHERE.
LeeDejar(r, u, p, op) ==
    /\ ConEstacion(u)
    /\ u \in Admins \/ pedidos[p].cajero = u
    /\ pedidos[p].estado = "PENDIENTE_PAGO"
    /\ pedidos[p].cajero # NADIE
    /\ op = "ESPERAR_VALIDACION" => NoCobrar(p)
    /\ Recibe(r, op, [Libre EXCEPT !.quien = u, !.ped = p, !.ocupante = pedidos[p].cajero])

LoTieneQuienSeLeyo(r) == Atiende(peticiones[r].ocupante, peticiones[r].ped)

NoSePresento(r) ==
    LET p == peticiones[r].ped
    IN  /\ En(r, "NO_SE_PRESENTO")
        /\ LoTieneQuienSeLeyo(r)
        /\ Escribe(r, p, [pedidos[p] EXCEPT !.cajero = NADIE, !.espera = FALSE])
        /\ fila' = Append(Sin(p), p)

EsperaValidacion(r) ==
    LET p == peticiones[r].ped
    IN  /\ En(r, "ESPERAR_VALIDACION")
        /\ LoTieneQuienSeLeyo(r)
        /\ Escribe(r, p, [pedidos[p] EXCEPT !.cajero = NADIE, !.espera = TRUE])
        /\ UNCHANGED fila

-----------------------------------------------------------------------------
(* A window is chosen, taken over, given up and deleted.                   *)

LeeElegir(r, u, v, op) ==
    /\ ventanillas[v] # "BORRADA"
    /\ OpereEn(u, TiendaDeVentanilla[v])
    /\ op = "TOMAR_CONTROL" <=> ventanillas[v] \notin {NADIE, u}
    /\ Recibe(r, op, [Libre EXCEPT !.quien = u, !.ven = v, !.ocupante = ventanillas[v]])

\* The window of this user besides v; cajeroId is unique, so there is one.
Anteriores(u, v) == {w \in Ventanillas \ {v} : ventanillas[w] = u}

\* Changing windows within the store keeps the orders; leaving another store
\* does not.
TrasSoltarAnteriores(u, v) ==
    [p \in Pedidos |->
        IF \E w \in Anteriores(u, v) :
              /\ TiendaDeVentanilla[w] # TiendaDeVentanilla[v]
              /\ TiendaDePedido[p] = TiendaDeVentanilla[w]
              /\ Atiende(u, p)
        THEN [pedidos[p] EXCEPT !.cajero = NADIE]
        ELSE pedidos[p]]

Cambia(u, v, filas) ==
    /\ pedidos' = filas
    /\ ventanillas' = [w \in Ventanillas |->
                          IF w = v THEN u
                          ELSE IF w \in Anteriores(u, v) THEN NADIE ELSE ventanillas[w]]

Elige(r) ==
    LET l == peticiones[r]
    IN  /\ En(r, "ELEGIR")
        /\ \/ /\ l.ocupante = NADIE
              /\ ventanillas[l.ven] \in {NADIE, l.quien}
              /\ Cambia(l.quien, l.ven, TrasSoltarAnteriores(l.quien, l.ven))
           \/ /\ l.ocupante = l.quien       \* it was already theirs when it was read
              /\ pedidos' = TrasSoltarAnteriores(l.quien, l.ven)
              /\ ventanillas' = [w \in Ventanillas |->
                                    IF w \in Anteriores(l.quien, l.ven) THEN NADIE
                                    ELSE ventanillas[w]]
        /\ Termina(r)
        /\ UNCHANGED <<fila, activo, barrido>>

TomaControl(r) ==
    LET l == peticiones[r]
    IN  /\ En(r, "TOMAR_CONTROL")
        /\ ventanillas[l.ven] = l.ocupante
        /\ Cambia(l.quien, l.ven,
                  Regresados(TrasSoltarAnteriores(l.quien, l.ven), l.ocupante,
                             TiendaDeVentanilla[l.ven]))
        /\ Termina(r)
        /\ UNCHANGED <<fila, activo, barrido>>

SueltaSinRegresar(u, v) ==
    /\ ventanillas[v] # "BORRADA"
    /\ ventanillas' = [ventanillas EXCEPT ![v] = NADIE]
    /\ pedidos' = pedidos

\* liberar reads whose window it is and then frees it by id.
SueltaPorId(u, v) ==
    /\ ventanillas[v] # "BORRADA"
    /\ ventanillas' = [ventanillas EXCEPT ![v] = NADIE]
    /\ pedidos' = Regresados(pedidos, u, TiendaDeVentanilla[v])

LeeSoltar(r, u, v) ==
    /\ ventanillas[v] = u
    /\ Recibe(r, "SOLTAR", [Libre EXCEPT !.quien = u, !.ven = v])

Suelta(r) ==
    /\ En(r, "SOLTAR")
    /\ SueltaPorId(peticiones[r].quien, peticiones[r].ven)
    /\ Termina(r)
    /\ UNCHANGED <<fila, activo, barrido>>

LeeBorrar(r, v) ==
    /\ ventanillas[v] = NADIE
    /\ Recibe(r, "BORRAR", [Libre EXCEPT !.ven = v])

Borra(r) ==
    /\ En(r, "BORRAR")
    /\ ventanillas[peticiones[r].ven] # "BORRADA"
    /\ ventanillas' = [ventanillas EXCEPT ![peticiones[r].ven] = "BORRADA"]
    /\ Termina(r)
    /\ UNCHANGED <<pedidos, fila, activo, barrido>>

-----------------------------------------------------------------------------
(* Signs of life, and the worker that sweeps the windows without them.     *)

DaSenales(u) ==
    /\ activo' = [activo EXCEPT ![u] = TRUE]
    /\ UNCHANGED <<pedidos, fila, ventanillas, peticiones, barrido>>

DejaDeDarSenales(u) ==
    /\ activo' = [activo EXCEPT ![u] = FALSE]
    /\ UNCHANGED <<pedidos, fila, ventanillas, peticiones, barrido>>

InactivasDeCajeros ==
    {x \in Ventanillas \X Cajeros : ventanillas[x[1]] = x[2] /\ ~activo[x[2]]}

Inactivas == {x \in Ventanillas \X Personal : ventanillas[x[1]] = x[2] /\ ~activo[x[2]]}

EmpiezaBarrido ==
    /\ barrido = SinBarrido
    /\ Inactivas # {}
    /\ barrido' = [SinBarrido EXCEPT !.quedan = Inactivas]
    /\ UNCHANGED <<pedidos, fila, ventanillas, activo, peticiones>>

\* liberar looks again whether the window is still of that cashier.
LeeBarrido(x) ==
    /\ barrido.leida = NADIE
    /\ x \in barrido.quedan
    /\ barrido' = [quedan |-> barrido.quedan \ {x},
                   leida  |-> IF ventanillas[x[1]] = x[2] THEN x ELSE NADIE]
    /\ UNCHANGED <<pedidos, fila, ventanillas, activo, peticiones>>

Barre ==
    /\ barrido.leida # NADIE
    /\ SueltaPorId(barrido.leida[2], barrido.leida[1])
    /\ barrido' = [barrido EXCEPT !.leida = NADIE]
    /\ UNCHANGED <<fila, activo, peticiones>>

\* barrer catches every failure: what is left waits for the next turn.
BarridoFalla ==
    /\ barrido.leida # NADIE
    /\ ventanillas[barrido.leida[1]] = "BORRADA"
    /\ barrido' = SinBarrido
    /\ UNCHANGED <<pedidos, fila, ventanillas, activo, peticiones>>

-----------------------------------------------------------------------------
(* What the rest of the system does with an order that the till sees.      *)

EntraACaja(p) ==
    /\ pedidos[p].estado = "TIENDA"
    /\ pedidos' = [pedidos EXCEPT ![p].estado = "PENDIENTE_PAGO"]
    /\ fila' = Append(fila, p)
    /\ UNCHANGED <<ventanillas, activo, peticiones, barrido>>

\* marcarComoPagado clears the cashier, ejecutarCambio the mark; the transfer
\* is resolved either way.
SaleDeCaja(p) ==
    /\ pedidos[p].estado = "PENDIENTE_PAGO"
    /\ \E columna \in {"cajero", "espera"} :
          pedidos' = [pedidos EXCEPT ![p] =
              [estado   |-> "FUERA",
               cajero   |-> IF columna = "cajero" THEN NADIE ELSE @.cajero,
               espera   |-> columna # "espera" /\ @.espera,
               noCobrar |-> FALSE]]
    /\ fila' = Sin(p)
    /\ UNCHANGED <<ventanillas, activo, peticiones, barrido>>

\* A transfer begins, is verified or falls.
CambiaPago(p) ==
    /\ pedidos[p].estado = "PENDIENTE_PAGO"
    /\ p \in PorTransferencia
    /\ pedidos' = [pedidos EXCEPT ![p].noCobrar = ~@]
    /\ UNCHANGED <<fila, ventanillas, activo, peticiones, barrido>>

-----------------------------------------------------------------------------
(* What the screens show.                                                  *)

\* obtenerColaVentanilla and obtenerMisPedidosCajero: the console of the till.
ColaDeVentanilla(t) == SelectSeq(fila, LAMBDA p : TiendaDePedido[p] = t /\ EnFila(p))
MisPedidos(u, t)    == {p \in Pedidos : Atiende(u, p) /\ TiendaDePedido[p] = t}

\* obtenerMonitorCajero: a window lists the orders of its cashier while they
\* give signs of life, of whatever store; the rest of the wall is the line.
DetalleDeVentanilla(v) ==
    {p \in Pedidos : \E u \in Personal : ventanillas[v] = u /\ activo[u] /\ Atiende(u, p)}

EnLaPared(t) ==
    {p \in Pedidos :
        \/ \E i \in 1..Len(ColaDeVentanilla(t)) : ColaDeVentanilla(t)[i] = p
        \/ \E v \in Ventanillas : TiendaDeVentanilla[v] = t /\ p \in DetalleDeVentanilla(v)}

-----------------------------------------------------------------------------
DeCajero(r) ==
    \/ \E u \in Personal, p \in Pedidos :
          \/ LeeTomar(r, u, p)
          \/ \E op \in {"NO_SE_PRESENTO", "ESPERAR_VALIDACION"} : LeeDejar(r, u, p, op)
    \/ \E u \in Personal \cup {NADIE}, p \in Pedidos : LeeLiberar(r, u, p)
    \/ \E u \in Personal, t \in Tiendas : LeeLlamar(r, u, t)
    \/ Toma(r) \/ Llama(r) \/ ReintentaLlamar(r) \/ Libera(r)
    \/ NoSePresento(r) \/ EsperaValidacion(r)

DeVentanillas(r) ==
    \/ \E u \in Personal, v \in Ventanillas :
          \/ \E op \in {"ELEGIR", "TOMAR_CONTROL"} : LeeElegir(r, u, v, op)
          \/ LeeSoltar(r, u, v)
    \/ \E v \in Ventanillas : LeeBorrar(r, v)
    \/ Elige(r) \/ TomaControl(r) \/ Suelta(r) \/ Borra(r)

Trabajador == EmpiezaBarrido \/ (\E x \in barrido.quedan : LeeBarrido(x))
              \/ Barre \/ BarridoFalla

Externo ==
    \/ \E u \in Personal : DaSenales(u) \/ DejaDeDarSenales(u)
    \/ \E p \in Pedidos :
          EntraACaja(p) \/ SaleDeCaja(p) \/ CambiaPago(p)

Next ==
    \/ \E r \in Peticiones : DeCajero(r) \/ DeVentanillas(r) \/ Abandona(r)
    \/ Trabajador
    \/ Externo

\* The worker runs on a timer of its own; nobody else has to act.
Spec == Init /\ [][Next]_vars /\ WF_vars(Trabajador)

-----------------------------------------------------------------------------
(* Properties.                                                             *)

\* Whoever loses a window gives their orders back to the line
\* (regresarPedidosALaFila: "sus clientes no pueden quedarse asignados a
\* nadie"): an order being attended has its cashier at a window of its store.
AtendidoConVentanilla ==
    \A p \in Pedidos, u \in Personal : Atiende(u, p) => TieneEn(u, TiendaDePedido[p])

\* Who takes a customer out of the hands of u: u, an administrator, or whoever
\* moves u from a window; a liberar in flight writes by id, whoever has them now.
Pidio(r, u, p) ==
    LET l == peticiones[r]
    IN  /\ peticiones'[r] = Libre
        /\ \/ l.op = "LIBERAR" /\ l.ped = p
           \/ l.op \in {"NO_SE_PRESENTO", "ESPERAR_VALIDACION"} /\ l.ped = p
              /\ l.quien \in Admins \cup {u}
           \/ l.op \in {"ELEGIR", "TOMAR_CONTROL", "SOLTAR"} /\ l.quien = u
           \/ l.op = "TOMAR_CONTROL" /\ l.ocupante = u

LoBarren(u) ==
    /\ barrido.leida # NADIE /\ barrido.leida[2] = u
    /\ barrido'.leida = NADIE

\* Two cashiers never believe they have the same turn, and a request that comes
\* late does not send away the customer of another ("el segundo pisaba al
\* primero sin avisar", tomarPedidoCajeroInterno): a customer at the till leaves
\* a cashier only towards the line, and only by who may take them out.
ElClienteSigueConSuCajero ==
    [][\A p \in Pedidos, u \in Personal :
         (Atiende(u, p) /\ pedidos'[p].estado = "PENDIENTE_PAGO" /\ pedidos'[p].cajero # u)
            => /\ pedidos'[p].cajero = NADIE
               /\ LoBarren(u) \/ \E r \in Peticiones : Pidio(r, u, p)]_vars

=============================================================================
