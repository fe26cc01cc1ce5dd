------------------------------- MODULE MCDtf -------------------------------
(* An instance of Dtf for TLC.  The history variable solapes counts how many  *)
(* times a request has begun while another one was in flight, or the process  *)
(* has died between two writes of one, up to MAX_SOLAPES (bound); from the    *)
(* first one on the order has at most MAX_TRABAJOS_CON_SOLAPE jobs (bound).   *)
(* Both jobs together receive MAX_ARCHIVOS files (bound).                     *)
EXTENDS Dtf, FiniteSets, TLC

CONSTANTS t1, t2, r1, r2, MAX_SOLAPES, MAX_TRABAJOS_CON_SOLAPE, MAX_ARCHIVOS

Simetria == Permutations({t1, t2}) \cup Permutations({r1, r2})

VARIABLE solapes

varsMC == <<vars, solapes>>

solapo == solapes > 0

MCInit == Init /\ solapes = 0

Empieza(r) == peticiones[r] = Libre /\ \E q \in Peticiones \ {r} : peticiones[q] # Libre

MCNext ==
    /\ \/ /\ \E t \in Trabajos : Analiza(t)
          /\ UNCHANGED solapes
       \/ \E r \in Peticiones :
             /\ DelCliente(r) \/ DeLaImpresion(r) \/ DeLaOrden(r)
             /\ solapes' = IF Empieza(r) THEN solapes + 1 ELSE solapes
       \/ \E r \in Peticiones :
             /\ Abandona(r)
             /\ solapes' = IF peticiones[r].paso \in Segundos THEN solapes + 1 ELSE solapes
    /\ solapes' <= MAX_SOLAPES
    /\ trabajos'[t1].version + trabajos'[t2].version <= MAX_ARCHIVOS
    /\ solapo' => Cardinality({t \in Trabajos : trabajos'[t] # SinCrear})
                     <= MAX_TRABAJOS_CON_SOLAPE

MCSpec == MCInit /\ [][MCNext]_varsMC

-----------------------------------------------------------------------------
(* Three promises that hold while no two requests have overlapped and none  *)
(* has died halfway.                                                        *)

\* ImprimeLoAprobado: only the file that was approved is printed, however many
\* uploads, corrections and reprints there were.
ImprimeLoAprobadoEnOrden == ~solapo => ImprimeLoAprobado

\* EnDtfEsperaAlgo: an order waits in EN_DTF only for something that can still
\* be printed.
EnDtfEsperaAlgoEnOrden == ~solapo => EnDtfEsperaAlgo

\* The gate of dtf-pedido.service: no order is presented to the customer with
\* jobs left to print.
NadieEntraConDtfPendienteEnOrden ==
    [][~solapo' /\ pedido'.estado # pedido.estado /\ pedido'.estado \in Presentables
          => Pendientes = {}]_varsMC
=============================================================================
