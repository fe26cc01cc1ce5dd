------------------------------- MODULE MCCaja -------------------------------
(* Instances of Caja for TLC.  The history variable solapo says whether two  *)
(* requests, or a request and the sweep, have ever overlapped; parte says    *)
(* which of two bounded instances a behaviour is of.                         *)
EXTENDS Caja

CONSTANTS p1, p2, v1, v2, v3, c1, c2, a1, t1, t2, r1, r2

VARIABLES solapo, parte

MCTiendaDePedido     == [p \in Pedidos |-> t1]
MCTiendaDeVentanilla == [v \in Ventanillas |-> IF v = v2 THEN t2 ELSE t1]
MCTiendaDeCajero     == [u \in Cajeros |-> t1]

EnVuelo == {r \in Peticiones : peticiones[r] # Libre}

Solapado ==
    \/ \E r, s \in EnVuelo : r # s
    \/ EnVuelo # {} /\ barrido # SinBarrido

MCInit == Init /\ solapo = FALSE
MCNext == Next /\ solapo' = (solapo \/ Solapado')
MCSpec == MCInit /\ [][MCNext]_<<vars, solapo>> /\ WF_<<vars, solapo>>(Trabajador /\ solapo' = (solapo \/ Solapado'))

\* Two parts.  In one, a cashier and an administrator with windows in two
\* stores, one request and the sweep; in the other, two cashiers at windows of
\* one store, with two requests and two customers in the line who do not pay
\* meanwhile, one of them with a transfer under way.
DosTiendas == MCInit /\ parte = "dos_tiendas"

DosCajeros ==
    /\ parte = "dos_cajeros"
    /\ pedidos = [p \in Pedidos |-> [estado   |-> "PENDIENTE_PAGO", cajero |-> NADIE,
                                     espera   |-> FALSE,
                                     noCobrar |-> p \in PorTransferencia]]
    /\ fila = <<p1, p2>>
    /\ ventanillas = [v \in Ventanillas |-> CASE v = v1 -> c1 [] v = v3 -> c2 [] OTHER -> NADIE]
    /\ activo = [u \in Personal |-> u \in Cajeros]
    /\ peticiones = [r \in Peticiones |-> Libre]
    /\ barrido = SinBarrido
    /\ solapo = FALSE

EnParte ==
    /\ parte = "dos_tiendas" =>
          /\ peticiones[r2] = Libre /\ ~activo[c2]
          /\ peticiones[r1].quien # c2 /\ peticiones[r1].ven # v3
    /\ parte = "dos_cajeros" =>
          /\ \A u \in Personal : activo[u] <=> u \in Cajeros
          /\ \A r \in Peticiones : peticiones[r].quien # a1 /\ peticiones[r].ven # v2
          /\ \A v \in Ventanillas : ventanillas[v] # "BORRADA"
          /\ \A p \in Pedidos : pedidos[p].estado # "FUERA"
          /\ \A p \in Pedidos : pedidos[p].noCobrar <=> p \in PorTransferencia

\* Once a request has overlapped with the sweep, only requests and sweeps follow.
Cota ==
    /\ EnParte'
    /\ parte = "dos_tiendas" /\ solapo => peticiones' # peticiones \/ barrido' # barrido

Marca == solapo' = (solapo \/ Solapado') /\ UNCHANGED parte

\* The bounds never hold the worker back.
ParteSpec ==
    /\ DosTiendas \/ DosCajeros
    /\ [][Next /\ Marca /\ Cota]_<<vars, solapo, parte>>
    /\ WF_<<vars, solapo, parte>>(Trabajador /\ Marca)

\* AtendidoConVentanilla, while no two actors have overlapped: whoever gives up,
\* loses or changes their window leaves no customer with nobody.
AtendidoConVentanillaSiNadieCoincide == ~solapo => AtendidoConVentanilla

\* The client who is sent to pay is always on the wall of the store, or comes
\* back to it: the TV of obtenerMonitorCajero shows the line and the windows
\* with an active cashier, and the sweep returns the orders of the others.
ElClienteVuelveALaPared ==
    \A p \in Pedidos :
        (pedidos[p].estado = "PENDIENTE_PAGO" /\ p \notin EnLaPared(TiendaDePedido[p]))
          ~> (pedidos[p].estado = "FUERA" \/ p \in EnLaPared(TiendaDePedido[p]) \/ solapo)
=============================================================================
