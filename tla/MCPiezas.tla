------------------------------ MODULE MCPiezas ------------------------------
(* An instance of Piezas for TLC.  The history variable solapo says whether  *)
(* something has ever changed between the two steps of a request; that is    *)
(* explored for the orders with a alone (bound).  A proposal may name both   *)
(* lines, an adjustment at the counter MAX_CAMBIOS_DEL_AJUSTE (bound), and a *)
(* live order has at most MAX_FUERA pieces out of the bag (bound).           *)
EXTENDS Piezas

CONSTANTS
    a, b,           \* the variants: the wholesale price of b is not a better one
    MAX_CAMBIOS_DEL_AJUSTE, MAX_FUERA

PrecioDeLista   == [v \in Variantes |-> IF v = a THEN 3 ELSE 4]
PrecioDeMayoreo == [v \in Variantes |-> IF v = a THEN 2 ELSE 5]

VARIABLE solapo

varsMC == <<vars, solapo>>

MCInit == Init /\ solapo = FALSE

MCNext ==
    /\ Next
    /\ solapo' = (solapo \/ (peticion # Libre /\ peticion' = peticion))
    /\ solapo' => DOMAIN lineas' = {a}
    /\ Cardinality(DOMAIN peticion'.cambios) <= MAX_CAMBIOS_DEL_AJUSTE
    /\ estado' # "CANCELADO" => fuera'[a] + fuera'[b] <= MAX_FUERA

MCSpec == MCInit /\ [][MCNext]_varsMC

-----------------------------------------------------------------------------
\* NadaQuedaSinDueno, while nothing has changed under a request: confirming a
\* list writes by id over the pieces that were merged into it meanwhile.
NadaQuedaSinDuenoEnOrden == ~solapo => NadaQuedaSinDueno

\* SeCobraLoSurtido, while nothing has changed under a request: an adjustment
\* decides before its transaction that it does not need the warehouse.
SeCobraLoSurtidoEnOrden == ~solapo => SeCobraLoSurtido
=============================================================================
