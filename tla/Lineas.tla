------------------------------- MODULE Lineas -------------------------------
(***************************************************************************)
(* The lines of an order: how many pieces the customer takes, how many     *)
(* the warehouse found, how many somebody took out of the bag again, and   *)
(* what all of it costs.  Pure operators, no state: what an adjustment     *)
(* does to a line, what a proposal says and what applying it does.         *)
(*                                                                         *)
(* A line stands for its variant.  Names, images and the currency are left *)
(* out; a price is a small number.  The change of one product for another  *)
(* ('cambio'), which the calculator no longer writes, is left out too.     *)
(***************************************************************************)
EXTENDS Integers, FiniteSets, Functions

CONSTANTS
    Variantes,          \* the variants that an order may carry, one line each
    PrecioBase,         \* [Variantes -> Nat]: the price in the customer's list
    PrecioMayoreo,      \* [Variantes -> Nat]: the wholesale price
    SinPar,             \* lines older than the promotion: no frozen pair of prices
    PIEZAS_MAYOREO      \* from how many pieces the wholesale price applies

ASSUME PreciosAssumption ==
    /\ PrecioBase \in [Variantes -> Nat]
    /\ PrecioMayoreo \in [Variantes -> Nat]
    /\ SinPar \subseteq Variantes
    /\ PIEZAS_MAYOREO \in Nat
    /\ IsFiniteSet(Variantes)

EstadoSurtido == {"PENDIENTE", "COMPLETO", "PARCIAL", "NO_DISPONIBLE"}

\* ItemPedido.  cantidad: what the customer takes and pays; surtida: what the
\* warehouse found; retiradas: of those, what is out of the bag again; base:
\* the floor of what may be marked; pedida: what was asked for, immutable;
\* original: the order was placed with it.
Linea ==
    [cantidad : Nat, surtida : Nat, retiradas : Nat, base : Nat, pedida : Nat,
     estado : EstadoSurtido, cancelada : BOOLEAN, original : BOOLEAN, precio : Nat]

-----------------------------------------------------------------------------
\* The bag.

Resta(a, b) == IF a > b THEN a - b ELSE 0

PiezasEnLaBolsa(it) == Resta(it.surtida, it.retiradas)

PiezasFueraDeLaBolsa(it) ==
    IF it.cancelada THEN it.surtida ELSE Resta(it.surtida, it.cantidad)

PiezasPendientesDeRetiro(it) == Resta(PiezasFueraDeLaBolsa(it), it.retiradas)

-----------------------------------------------------------------------------
\* What may happen to one line.

DatosDeFaltaDeBodega(it) ==
    [it EXCEPT !.cancelada = TRUE, !.estado = "NO_DISPONIBLE", !.surtida = 0]

DatosDeRetiroPorDecision(it) == [it EXCEPT !.cancelada = TRUE]

SePuedeReponer(it) ==
    it.cancelada /\ it.estado = "NO_DISPONIBLE" /\ it.surtida = 0

DatosDeReposicion(it, n) ==
    [it EXCEPT !.cancelada = FALSE, !.estado = "PENDIENTE", !.surtida = 0,
               !.retiradas = 0, !.cantidad = n]

SubeLaCantidad(it, n) == n > PiezasEnLaBolsa(it)

PiezasSobrantes(it, n) == Resta(PiezasEnLaBolsa(it), n)

CalcularAjusteDeCantidad(it, n) ==
    IF SubeLaCantidad(it, n)
    THEN [it EXCEPT !.cantidad = n, !.estado = "PENDIENTE", !.surtida = PiezasEnLaBolsa(it),
                    !.retiradas = 0, !.base = PiezasEnLaBolsa(it)]
    ELSE [it EXCEPT !.cantidad = n, !.estado = "COMPLETO", !.base = 0]

\* A line created after the order was placed: nobody has seen it on the shelf.
ConstruirItemPedido(v, n) ==
    [cantidad |-> n, surtida |-> 0, retiradas |-> 0, base |-> 0, pedida |-> n,
     estado |-> "PENDIENTE", cancelada |-> FALSE, original |-> FALSE, precio |-> PrecioBase[v]]

-----------------------------------------------------------------------------
\* The lines of an order are a function of the variants that it carries.

Activas(ls) == {v \in DOMAIN ls : ~ls[v].cancelada}

PrecioConPromoVolumen(v, piezas) ==
    IF piezas < PIEZAS_MAYOREO \/ PrecioBase[v] < PrecioMayoreo[v]
    THEN PrecioBase[v]
    ELSE PrecioMayoreo[v]

AplicarPromoVolumen(ls) ==
    LET piezas == SumFunction([v \in Activas(ls) |-> ls[v].cantidad])
    IN  IF Activas(ls) \cap SinPar # {}
        THEN ls
        ELSE [v \in DOMAIN ls |->
                 IF v \in Activas(ls)
                 THEN [ls[v] EXCEPT !.precio = PrecioConPromoVolumen(v, piezas)]
                 ELSE ls[v]]

TotalDe(ls) == SumFunction([v \in Activas(ls) |-> ls[v].precio * ls[v].cantidad])

\* Closes a picking: what was not found leaves, what was found in part shrinks.
AplicarCambiosFisicos(ls) ==
    [v \in DOMAIN ls |->
        LET it == ls[v] IN
        IF it.cancelada THEN it
        ELSE IF it.estado = "NO_DISPONIBLE" \/ (it.estado = "PARCIAL" /\ it.surtida = 0)
        THEN DatosDeFaltaDeBodega(it)
        ELSE IF it.estado = "PARCIAL"
        THEN [it EXCEPT !.cantidad = it.surtida, !.estado = "COMPLETO"]
        ELSE it]

-----------------------------------------------------------------------------
\* The calculator.  An adjustment is a function from some variants to what is
\* wanted of each: [accion, n].

CantidadSinIntencion(it) ==
    CASE it.cancelada \/ it.estado = "NO_DISPONIBLE" -> 0
      [] ~it.cancelada /\ it.estado = "PARCIAL"      -> it.surtida
      [] OTHER                                       -> it.cantidad

IntencionValida(ls, int, v) ==
    CASE int[v].accion = "AGREGAR"  -> v \notin DOMAIN ls /\ int[v].n > 0
      [] int[v].accion = "REPONER"  -> v \in DOMAIN ls /\ SePuedeReponer(ls[v]) /\ int[v].n > 0
      [] int[v].accion = "CANTIDAD" -> v \in Activas(ls) /\ int[v].n > 0
      [] int[v].accion = "QUITAR"   -> v \in Activas(ls)

\* A CANTIDAD that the line already has decides nothing.
Decidida(ls, int, v) ==
    /\ v \in DOMAIN int
    /\ int[v].accion = "CANTIDAD" => int[v].n # CantidadSinIntencion(ls[v])

CantidadFinal(ls, int, v) ==
    IF v \in DOMAIN int
    THEN IF int[v].accion = "QUITAR" THEN 0 ELSE int[v].n
    ELSE CantidadSinIntencion(ls[v])

PrecioEfectivo(ls, v, piezas) ==
    IF v \in DOMAIN ls /\ v \in SinPar THEN ls[v].precio ELSE PrecioConPromoVolumen(v, piezas)

\* What the proposal says of one line.
TipoDeLinea(ls, int, v) ==
    IF v \in DOMAIN int /\ int[v].accion = "AGREGAR" THEN "agregado"
    ELSE IF v \in DOMAIN int /\ int[v].accion = "QUITAR" THEN "no-disponible"
    ELSE IF ~Decidida(ls, int, v) /\ ls[v].estado = "NO_DISPONIBLE" THEN "no-disponible"
    ELSE IF Decidida(ls, int, v) \/ CantidadFinal(ls, int, v) # ls[v].pedida THEN "parcial"
    ELSE "completo"

PiezasPorSurtirDe(ls, int, v) ==
    CASE v \notin DOMAIN ls      -> int[v].n
      [] v \in DOMAIN ls         -> Resta(CantidadFinal(ls, int, v), PiezasEnLaBolsa(ls[v]))

\* The snapshot that the customer reads, its total, and how many of its pieces
\* the warehouse has not seen yet.
CalcularAjuste(ls, int) ==
    LET cuentan == Activas(ls) \cup DOMAIN int
        piezas  == SumFunction([v \in cuentan |-> CantidadFinal(ls, int, v)])
    IN  [cambios   |-> [v \in cuentan |->
                          [tipo |-> TipoDeLinea(ls, int, v), n |-> CantidadFinal(ls, int, v)]],
         total     |-> SumFunction([v \in cuentan |->
                          CantidadFinal(ls, int, v) * PrecioEfectivo(ls, v, piezas)]),
         porSurtir |-> SumFunction([v \in cuentan |-> PiezasPorSurtirDe(ls, int, v)])]

-----------------------------------------------------------------------------
\* Applying a proposal of sales.  The lines that it does not name stay.

SeCancelaPorFalta(it) ==
    it.estado = "NO_DISPONIBLE" \/ (it.estado = "PARCIAL" /\ it.surtida = 0)

AplicarLinea(it, c) ==
    CASE c.tipo = "completo" ->
           IF it.cancelada THEN it
           ELSE IF SeCancelaPorFalta(it) THEN DatosDeFaltaDeBodega(it)
           ELSE IF it.estado = "PARCIAL"
           THEN [it EXCEPT !.cantidad = it.surtida, !.estado = "COMPLETO"]
           ELSE it
      [] c.tipo = "no-disponible" \/ (c.tipo = "parcial" /\ c.n = 0) ->
           DatosDeRetiroPorDecision(it)
      [] c.tipo = "parcial" /\ c.n > 0 ->
           IF SePuedeReponer(it) THEN DatosDeReposicion(it, c.n)
           ELSE CalcularAjusteDeCantidad(it, c.n)

AplicarPropuestaDeVentas(ls, cambios) ==
    AplicarPromoVolumen(
        [v \in DOMAIN ls \cup {w \in DOMAIN cambios : cambios[w].tipo = "agregado"} |->
            IF v \notin DOMAIN ls THEN ConstruirItemPedido(v, cambios[v].n)
            ELSE IF v \in DOMAIN cambios THEN AplicarLinea(ls[v], cambios[v])
            ELSE ls[v]])

\* Whether something that was in the bag has to come out of it.
HuboRetiro(ls, cambios) ==
    \E v \in DOMAIN ls \cap DOMAIN cambios :
        LET it == ls[v]
            c  == cambios[v]
        IN  PiezasEnLaBolsa(it) > 0 /\
            \/ c.tipo = "completo" /\ ~it.cancelada /\ SeCancelaPorFalta(it)
            \/ c.tipo = "no-disponible"
            \/ c.tipo = "parcial" /\ c.n < PiezasEnLaBolsa(it)

QuedanPendientes(ls) == \E v \in Activas(ls) : ls[v].estado # "COMPLETO"

-----------------------------------------------------------------------------
\* The adjustment at the counter.  Whoever attends takes out of the bag, there
\* and then, the pieces that are not wanted any more.

CambioValido(ls, c, v) ==
    CASE c[v].accion = "agregado"      -> v \notin DOMAIN ls
      [] c[v].accion = "parcial"       -> v \in DOMAIN ls /\ c[v].n > 0
      [] c[v].accion = "no-disponible" -> v \in DOMAIN ls
      [] c[v].accion = "reponer"       -> v \in DOMAIN ls /\ SePuedeReponer(ls[v]) /\ c[v].n > 0

Quitadas(it, c) ==
    CASE c.accion = "no-disponible" -> PiezasEnLaBolsa(it)
      [] c.accion = "parcial"       -> PiezasSobrantes(it, c.n)
      [] OTHER                    -> 0

AjustarSinContar(it, c) ==
    CASE c.accion = "no-disponible" -> DatosDeRetiroPorDecision(it)
      [] c.accion = "parcial"       -> CalcularAjusteDeCantidad(it, c.n)
      [] c.accion = "reponer"       -> DatosDeReposicion(it, c.n)

AjustarLinea(it, c) ==
    CASE c.accion = "no-disponible" ->
           [DatosDeRetiroPorDecision(it) EXCEPT !.retiradas = @ + Quitadas(it, c)]
      [] c.accion = "parcial" ->
           [CalcularAjusteDeCantidad(it, c.n) EXCEPT !.retiradas = @ + Quitadas(it, c)]
      [] c.accion = "reponer" -> DatosDeReposicion(it, c.n)

AplicarAjuste(ls, cambios) ==
    AplicarPromoVolumen(
        [v \in DOMAIN ls \cup DOMAIN cambios |->
            IF v \notin DOMAIN ls THEN ConstruirItemPedido(v, cambios[v].n)
            ELSE IF v \in DOMAIN cambios THEN AjustarLinea(ls[v], cambios[v])
            ELSE ls[v]])

AjusteNecesitaBodega(ls, cambios) ==
    \/ \E v \in DOMAIN cambios : cambios[v].accion \in {"agregado", "reponer"}
    \/ \E v \in Activas(ls) :
          IF v \notin DOMAIN cambios THEN ls[v].cantidad > PiezasEnLaBolsa(ls[v])
          ELSE cambios[v].accion = "parcial" /\ SubeLaCantidad(ls[v], cambios[v].n)
=============================================================================
