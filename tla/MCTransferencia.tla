-------------------------- MODULE MCTransferencia --------------------------
(* An instance of VistasPagos for TLC.  The history variable solapo says      *)
(* whether two requests have ever been in flight at once; from then on the    *)
(* order has at most MAX_PAGOS_CON_SOLAPE payments (bound).                   *)
EXTENDS VistasPagos, TLC

CONSTANTS r1, r2, i1, i2, i3, MAX_PAGOS_CON_SOLAPE

Simetria == Permutations({r1, r2}) \cup Permutations({i1, i2, i3})

VARIABLE solapo

varsMC == <<vars, solapo>>

\* Two requests are in flight.
Coinciden ==
    \E r, s \in Peticiones : r # s /\ peticiones[r] # Libre /\ peticiones[s] # Libre

MCInit == Init /\ solapo = FALSE

MCNext ==
    /\ Next
    /\ solapo' = (solapo \/ Coinciden')
    /\ solapo' => Cardinality({i \in IdPago : pagos'[i] # SinEmitir}) <= MAX_PAGOS_CON_SOLAPE

MCSpec == MCInit /\ [][MCNext]_varsMC

-----------------------------------------------------------------------------
\* CanceladoSinDineroAplicado, while no two requests have overlapped: the
\* cancellation of a charged order gives back every transfer applied to it.
CanceladoSinDineroAplicadoEnOrden == ~solapo => CanceladoSinDineroAplicado
=============================================================================
