---------------------------- MODULE CicloPedido ----------------------------
(***************************************************************************)
(* What the store promises of an order, whoever handles it and in whatever *)
(* order the handlers interleave: it is prepared in the store, goes once   *)
(* to the till and with that to the ERP, is charged only from the till,    *)
(* and ends delivered or cancelled.  Nothing brings it back.               *)
(***************************************************************************)

VARIABLES
    fase,       \* where the order is
    enErp       \* the ERP will get it, or has it

vars == <<fase, enErp>>

Fases == {"Tienda", "Caja", "Pagado", "Enviado", "Entregado", "Cancelado"}
Vivas == Fases \ {"Entregado", "Cancelado"}

TypeOK == fase \in Fases /\ enErp \in BOOLEAN

Init == fase = "Tienda" /\ enErp = FALSE

\* The only step that hands the order to the ERP, and it happens once.
PasaACaja ==
    /\ fase = "Tienda" /\ ~enErp
    /\ fase' = "Caja" /\ enErp' = TRUE

\* The steps that take the order from the till to the customer.
Siguientes ==
    [Caja    |-> {"Pagado"},
     Pagado  |-> {"Enviado", "Entregado"},
     Enviado |-> {"Entregado"}]

Avanza ==
    /\ fase \in DOMAIN Siguientes
    /\ fase' \in Siguientes[fase]
    /\ UNCHANGED enErp

Cancela ==
    /\ fase \in Vivas
    /\ fase' = "Cancelado"
    /\ UNCHANGED enErp

Next == PasaACaja \/ Avanza \/ Cancela

Spec == Init /\ [][Next]_vars
=============================================================================
