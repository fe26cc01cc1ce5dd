------------------------------ MODULE MCPedido ------------------------------
(* An instance of Vistas for TLC.  The history variable solapes counts how     *)
(* many times a request has begun while another one was in flight, up to      *)
(* MAX_SOLAPES (bound); from the first one on the order has at most           *)
(* MAX_PROPUESTAS_CON_SOLAPE proposals (bound).                               *)
EXTENDS Vistas, Naturals, TLC

CONSTANTS b1, b2, r1, r2, i1, i2, MAX_SOLAPES, MAX_PROPUESTAS_CON_SOLAPE

Simetria == Permutations({b1, b2}) \cup Permutations({r1, r2}) \cup Permutations({i1, i2})

VARIABLE solapes

varsMC == <<vars, solapes>>

solapo == solapes > 0

MCInit == Init /\ solapes = 0

EnCurso == {r \in Peticiones : peticiones[r] # Libre}

SeSolapan == EnCurso # {} /\ ~(EnCurso' \subseteq EnCurso)

MCNext ==
    /\ Next
    /\ solapes' = IF SeSolapan THEN solapes + 1 ELSE solapes
    /\ solapes' <= MAX_SOLAPES
    /\ solapo' => Cardinality({i \in IdPropuesta : propuestas'[i] # NoExiste})
                     <= MAX_PROPUESTAS_CON_SOLAPE

MCSpec == MCInit /\ [][MCNext]_varsMC

-----------------------------------------------------------------------------
(* Two promises that hold while no two requests have overlapped: a handler  *)
(* that another one interrupts decides on lines and proposals that are no   *)
(* longer those.                                                            *)

\* EntregaSinPendientes: nothing goes to the customer, nor to the table, with
\* lines that the warehouse has not looked at, whatever sequence of picking,
\* proposals and adjustments led there.
EntregaSinPendientesEnOrden == ~solapo => EntregaSinPendientes

\* TodoPedidoSeVe: every live order is in the list of some console, and in the
\* control tower.
TodoPedidoSeVeEnOrden == ~solapo => TodoPedidoSeVe
=============================================================================
