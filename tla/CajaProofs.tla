----------------------------- MODULE CajaProofs -----------------------------
(***************************************************************************)
(* Proofs about the till, for any number of orders, windows, cashiers and  *)
(* requests, with the sweep and every interleaving.                        *)
(*                                                                         *)
(* ElClienteSigueConSuCajero is a property of steps: each of them takes an *)
(* order that nobody has, or that the same cashier has already, or gives   *)
(* it back for who may do so.  What a step writes is only known if the     *)
(* rows are rows, the cashier of a request is one and who asks that a      *)
(* customer be left is who has them, or an administrator: that is Tipos,   *)
(* the inductive invariant.                                                *)
(*                                                                         *)
(* That whoever attends sits at a window of the store is of one actor at a *)
(* time (MCSpec): what each read of its window is still so when it writes. *)
(* It needs that a cashier only sits in their store (Sentados, which holds *)
(* with every overlap), because tomar only looks whether they have one.    *)
(***************************************************************************)
EXTENDS MCCaja, WellFoundedInduction, NaturalsInduction, TLAPS

Quien == Personal \cup {NADIE}

\* A request, as far as this needs it.
ConQuien(l) ==
    /\ "quien" \in DOMAIN l /\ l.quien \in Quien
    /\ l.op \in {"NO_SE_PRESENTO", "ESPERAR_VALIDACION"} =>
          l.quien \in Admins \cup {l.ocupante}

Tipos ==
    /\ pedidos \in [Pedidos -> Filas]
    /\ DOMAIN peticiones = Peticiones
    /\ \A r \in Peticiones : ConQuien(peticiones[r])

\* What ElClienteSigueConSuCajero says of one step.
Respeta == \A p \in Pedidos, u \in Personal :
    (Atiende(u, p) /\ pedidos'[p].estado = "PENDIENTE_PAGO" /\ pedidos'[p].cajero # u)
       => /\ pedidos'[p].cajero = NADIE
          /\ LoBarren(u) \/ \E r \in Peticiones : Pidio(r, u, p)

\* A row is left as it was, or taken from u and given to nobody.
DejaSolo(u, antes, despues) ==
    \/ despues.cajero = antes.cajero
    \/ despues.cajero = NADIE /\ antes.cajero = u

-----------------------------------------------------------------------------
(* The steps of which the invariant has to know only one variable.         *)

\* A step that writes a request keeps the requests well formed.
LEMMA SigueConQuien ==
    ASSUME Tipos, NEW r \in Peticiones, NEW l, ConQuien(l), Sigue(r, l)
    PROVE  /\ DOMAIN peticiones' = Peticiones
           /\ \A s \in Peticiones : ConQuien(peticiones'[s])
  BY DEF Sigue, Tipos

\* A request that ends leaves a free place.
LEMMA TerminaConQuien ==
    ASSUME Tipos, NEW r \in Peticiones, Termina(r)
    PROVE  /\ DOMAIN peticiones' = Peticiones
           /\ \A s \in Peticiones : ConQuien(peticiones'[s])
<1>1. ConQuien(Libre)
  BY DEF ConQuien, Libre, Quien
<1>2. QED
  BY <1>1, SigueConQuien DEF Termina

\* A read stores who asks, and changes no order.
LEMMA LecturaInocua ==
    ASSUME Tipos, NEW r \in Peticiones, NEW op, NEW l, ConQuien([l EXCEPT !.op = op]),
           Recibe(r, op, l)
    PROVE  Tipos' /\ Respeta
<1> DEFINE m == [l EXCEPT !.op = op]
<1>1. ConQuien(m)
  OBVIOUS
<1>2. Sigue(r, m) /\ pedidos' = pedidos
  BY DEF Recibe
<1>3. /\ DOMAIN peticiones' = Peticiones
      /\ \A s \in Peticiones : ConQuien(peticiones'[s])
  BY <1>1, <1>2, SigueConQuien
<1>4. QED
  BY <1>2, <1>3 DEF Tipos, Respeta, Atiende

\* An order given back to the line is a row still.
LEMMA FilaSuelta ==
    ASSUME NEW f \in Filas
    PROVE  /\ [f EXCEPT !.cajero = NADIE] \in Filas
           /\ [f EXCEPT !.cajero = NADIE].cajero = NADIE
  BY DEF Filas

\* regresarPedidosALaFila.
LEMMA RegresadosSueltan ==
    ASSUME NEW filas \in [Pedidos -> Filas], NEW u, NEW t
    PROVE  /\ Regresados(filas, u, t) \in [Pedidos -> Filas]
           /\ \A p \in Pedidos : DejaSolo(u, filas[p], Regresados(filas, u, t)[p])
  BY FilaSuelta DEF Regresados, DejaSolo

\* The orders that a cashier leaves behind on moving to another store.
LEMMA AnterioresSueltan ==
    ASSUME Tipos, NEW u, NEW v
    PROVE  /\ TrasSoltarAnteriores(u, v) \in [Pedidos -> Filas]
           /\ \A p \in Pedidos :
                 DejaSolo(u, pedidos[p], TrasSoltarAnteriores(u, v)[p])
  BY FilaSuelta DEF TrasSoltarAnteriores, Tipos, Atiende, DejaSolo

-----------------------------------------------------------------------------
(* The handlers.                                                           *)

\* A row is written over the one that was there: it stays with who attends it,
\* or goes back to the line for who may ask.
LEMMA EscribeUna ==
    ASSUME Tipos, NEW r \in Peticiones, NEW p, NEW f, Escribe(r, p, f),
           p \in Pedidos => f \in Filas,
           \A u \in Personal : p \in Pedidos /\ Atiende(u, p) /\ f.cajero # u
                                => f.cajero = NADIE /\ Pidio(r, u, p)
    PROVE  Tipos' /\ Respeta
<1>1. pedidos' = [pedidos EXCEPT ![p] = f] /\ Termina(r)
  BY DEF Escribe
<1>2. /\ DOMAIN peticiones' = Peticiones
      /\ \A s \in Peticiones : ConQuien(peticiones'[s])
  BY <1>1, TerminaConQuien
<1>3. pedidos' \in [Pedidos -> Filas]
  BY <1>1 DEF Tipos
<1>4. \A q \in Pedidos : pedidos'[q] = IF q = p THEN f ELSE pedidos[q]
  BY <1>1 DEF Tipos
<1>5. Respeta
  BY <1>4 DEF Respeta, Atiende
<1>6. QED
  BY <1>2, <1>3, <1>5 DEF Tipos

\* The place of the request that ends is free.
LEMMA QuedaLibre ==
    ASSUME Tipos, NEW r \in Peticiones, Termina(r)
    PROVE  peticiones'[r] = Libre
  BY DEF Tipos, Termina, Sigue

\* tomarPedidoCajeroInterno, for whoever asked.
LEMMA AsignaBien ==
    ASSUME Tipos, NEW r \in Peticiones, NEW p, Asigna(r, peticiones[r].quien, p)
    PROVE  Tipos' /\ Respeta
<1> DEFINE u == peticiones[r].quien
           f == [pedidos[p] EXCEPT !.cajero = u, !.espera = FALSE]
<1>1. Escribe(r, p, f) /\ pedidos[p].cajero \in {NADIE, u}
  BY DEF Asigna, PuedeTomar
<1>2. u \in Quien
  BY DEF Tipos, ConQuien
<1>3. ASSUME p \in Pedidos PROVE f \in Filas /\ f.cajero = u
  <2>1. pedidos[p] \in Filas
    BY <1>3 DEF Tipos
  <2>2. QED
    BY <2>1, <1>2 DEF Filas, Quien
<1> HIDE DEF f
<1>4. \A x \in Personal : p \in Pedidos /\ Atiende(x, p) => f.cajero = x
  BY <1>1, <1>3, PersonalAssumption DEF Atiende
<1>5. QED
  BY <1>1, <1>3, <1>4, EscribeUna

\* liberarPedidoCajero, noSePresento and esperarValidacion.
LEMMA DejaBien ==
    ASSUME Tipos, NEW r \in Peticiones, Libera(r) \/ NoSePresento(r) \/ EsperaValidacion(r)
    PROVE  Tipos' /\ Respeta
<1> DEFINE l == peticiones[r]
           p == l.ped
<1>1. PICK f : /\ Escribe(r, p, f)
               /\ \/ f = [pedidos[p] EXCEPT !.cajero = NADIE]
                  \/ \E b \in BOOLEAN : f = [pedidos[p] EXCEPT !.cajero = NADIE, !.espera = b]
  BY DEF Libera, NoSePresento, EsperaValidacion
<1>2. ASSUME p \in Pedidos PROVE f \in Filas /\ f.cajero = NADIE
  <2>1. pedidos[p] \in Filas
    BY <1>2 DEF Tipos
  <2>2. QED
    BY <2>1, <1>1 DEF Filas
<1>3. peticiones'[r] = Libre
  BY <1>1, QuedaLibre DEF Escribe
<1>4. \/ l.op = "LIBERAR"
      \/ /\ l.op \in {"NO_SE_PRESENTO", "ESPERAR_VALIDACION"}
         /\ Atiende(l.ocupante, p)
         /\ l.quien \in Admins \cup {l.ocupante}
  BY DEF Libera, NoSePresento, EsperaValidacion, En, LoTieneQuienSeLeyo, Tipos, ConQuien
<1>5. ASSUME NEW u \in Personal, Atiende(u, p) PROVE Pidio(r, u, p)
  BY <1>3, <1>4, <1>5 DEF Pidio, Atiende
<1> HIDE DEF p
<1>6. QED
  BY <1>1, <1>2, <1>5, EscribeUna

\* elegir and elegirConForzar: one window is taken and the others are given up;
\* who loses customers is who asked, or who was sitting there.
LEMMA VentanillasBien ==
    ASSUME Tipos, NEW r \in Peticiones, Elige(r) \/ TomaControl(r)
    PROVE  Tipos' /\ Respeta
<1> DEFINE l == peticiones[r]
<1>1. /\ DOMAIN peticiones' = Peticiones
      /\ \A s \in Peticiones : ConQuien(peticiones'[s])
      /\ peticiones'[r] = Libre
  BY TerminaConQuien, QuedaLibre DEF Elige, TomaControl
<1>2. CASE Elige(r)
  <2>1. pedidos' = TrasSoltarAnteriores(l.quien, l.ven) /\ l.op = "ELEGIR"
    BY <1>2 DEF Elige, Cambia, En
  <2>2. /\ pedidos' \in [Pedidos -> Filas]
        /\ \A p \in Pedidos : DejaSolo(l.quien, pedidos[p], pedidos'[p])
    BY <2>1, AnterioresSueltan
  <2>3. Respeta
    BY <1>1, <2>1, <2>2 DEF Respeta, DejaSolo, Atiende, Pidio
  <2>4. QED
    BY <1>1, <2>2, <2>3 DEF Tipos
<1>3. CASE TomaControl(r)
  <2> DEFINE previas == TrasSoltarAnteriores(l.quien, l.ven)
             filas == Regresados(previas, l.ocupante, TiendaDeVentanilla[l.ven])
  <2>1. pedidos' = filas /\ l.op = "TOMAR_CONTROL"
    BY <1>3 DEF TomaControl, Cambia, En
  <2>2. /\ previas \in [Pedidos -> Filas]
        /\ \A p \in Pedidos : DejaSolo(l.quien, pedidos[p], previas[p])
    BY AnterioresSueltan
  <2>3. /\ filas \in [Pedidos -> Filas]
        /\ \A p \in Pedidos : DejaSolo(l.ocupante, previas[p], filas[p])
    BY <2>2, RegresadosSueltan
  <2> HIDE DEF previas, filas
  <2>4. ASSUME NEW p \in Pedidos, NEW u \in Personal, Atiende(u, p), filas[p].cajero # u
        PROVE  filas[p].cajero = NADIE /\ u \in {l.quien, l.ocupante}
    BY <2>2, <2>3, <2>4, PersonalAssumption DEF DejaSolo, Atiende
  <2>5. Respeta
    BY <1>1, <2>1, <2>4 DEF Respeta, Pidio
  <2>6. QED
    BY <1>1, <2>1, <2>3, <2>5 DEF Tipos
<1>4. QED
  BY <1>2, <1>3

\* liberar, of a cashier or of the sweep.
LEMMA SueltaBien ==
    ASSUME Tipos, NEW u, NEW v, SueltaPorId(u, v)
    PROVE  /\ pedidos' \in [Pedidos -> Filas]
           /\ \A p \in Pedidos : DejaSolo(u, pedidos[p], pedidos'[p])
  BY RegresadosSueltan DEF SueltaPorId, Tipos

\* Neither the orders nor the requests change.
LEMMA NadaCambia ==
    ASSUME Tipos, UNCHANGED <<pedidos, peticiones>>
    PROVE  Tipos' /\ Respeta
  BY DEF Tipos, Respeta, Atiende

\* A request that only moves on, or ends.
LEMMA SoloPeticion ==
    ASSUME Tipos, UNCHANGED pedidos, DOMAIN peticiones' = Peticiones,
           \A s \in Peticiones : ConQuien(peticiones'[s])
    PROVE  Tipos' /\ Respeta
  BY DEF Tipos, Respeta, Atiende

\* llamarSiguiente, after losing the order to another cashier.
LEMMA ReintentaBien ==
    ASSUME Tipos, NEW r \in Peticiones, ReintentaLlamar(r)
    PROVE  Tipos' /\ Respeta
<1> DEFINE l == peticiones[r]
           m == [l EXCEPT !.ped = SiguienteDe(TiendaDePedido[l.ped]),
                          !.intento = @ + 1]
<1>1. Sigue(r, m) /\ UNCHANGED pedidos
  BY DEF ReintentaLlamar
<1>2. ConQuien(l)
  BY DEF Tipos
<1>3. ConQuien(m)
  BY <1>2 DEF ConQuien
<1>4. QED
  BY <1>1, <1>3, SigueConQuien, SoloPeticion

\* What is read of the line, of an order or of a window.
LEMMA LecturasBien ==
    ASSUME Tipos, NEW r \in Peticiones,
           \/ \E u \in Personal, p \in Pedidos : LeeTomar(r, u, p)
           \/ \E u \in Personal \cup {NADIE}, p \in Pedidos : LeeLiberar(r, u, p)
           \/ \E u \in Personal, p \in Pedidos, op \in {"NO_SE_PRESENTO", "ESPERAR_VALIDACION"} :
                 LeeDejar(r, u, p, op)
           \/ \E u \in Personal, t \in Tiendas : LeeLlamar(r, u, t)
           \/ \E u \in Personal, v \in Ventanillas, op \in {"ELEGIR", "TOMAR_CONTROL"} :
                 LeeElegir(r, u, v, op)
           \/ \E u \in Personal, v \in Ventanillas : LeeSoltar(r, u, v)
           \/ \E v \in Ventanillas : LeeBorrar(r, v)
    PROVE  Tipos' /\ Respeta
<1>1. ASSUME NEW u \in Quien, NEW p \in Pedidos, LeeTomar(r, u, p) \/ LeeLiberar(r, u, p)
      PROVE  Tipos' /\ Respeta
  <2> DEFINE l == [Libre EXCEPT !.quien = u, !.ped = p]
  <2>1. Recibe(r, "TOMAR", l) \/ Recibe(r, "LIBERAR", l)
    BY <1>1 DEF LeeTomar, LeeLiberar
  <2>2. ConQuien([l EXCEPT !.op = "TOMAR"]) /\ ConQuien([l EXCEPT !.op = "LIBERAR"])
    BY DEF Libre, ConQuien, Quien
  <2>3. QED
    BY <2>1, <2>2, LecturaInocua
<1>2. ASSUME NEW u \in Personal, NEW p \in Pedidos, 
             NEW op \in {"NO_SE_PRESENTO", "ESPERAR_VALIDACION"}, LeeDejar(r, u, p, op)
      PROVE  Tipos' /\ Respeta
  <2> DEFINE l == [Libre EXCEPT !.quien = u, !.ped = p, !.ocupante = pedidos[p].cajero]
  <2>1. Recibe(r, op, l)
    BY <1>2 DEF LeeDejar
  <2>2. ConQuien([l EXCEPT !.op = op])
    BY <1>2 DEF Libre, ConQuien, Quien, LeeDejar
  <2>3. QED
    BY <2>1, <2>2, LecturaInocua
<1>3. ASSUME NEW u \in Personal, NEW t \in Tiendas, LeeLlamar(r, u, t)
      PROVE  Tipos' /\ Respeta
  <2> DEFINE l == [Libre EXCEPT !.quien = u, !.ped = SiguienteDe(t), !.intento = 1]
  <2>1. Recibe(r, "LLAMAR", l)
    BY <1>3 DEF LeeLlamar
  <2>2. ConQuien([l EXCEPT !.op = "LLAMAR"])
    BY DEF Libre, ConQuien, Quien
  <2>3. QED
    BY <2>1, <2>2, LecturaInocua
<1>4. ASSUME NEW u \in Personal, NEW v \in Ventanillas, 
             NEW op \in {"ELEGIR", "TOMAR_CONTROL"}, LeeElegir(r, u, v, op)
      PROVE  Tipos' /\ Respeta
  <2> DEFINE l == [Libre EXCEPT !.quien = u, !.ven = v, !.ocupante = ventanillas[v]]
  <2>1. Recibe(r, op, l)
    BY <1>4 DEF LeeElegir
  <2>2. ConQuien([l EXCEPT !.op = op])
    BY DEF Libre, ConQuien, Quien
  <2>3. QED
    BY <2>1, <2>2, LecturaInocua
<1>5. ASSUME NEW u \in Personal, NEW v \in Ventanillas, LeeSoltar(r, u, v)
      PROVE  Tipos' /\ Respeta
  <2> DEFINE l == [Libre EXCEPT !.quien = u, !.ven = v]
  <2>1. Recibe(r, "SOLTAR", l)
    BY <1>5 DEF LeeSoltar
  <2>2. ConQuien([l EXCEPT !.op = "SOLTAR"])
    BY DEF Libre, ConQuien, Quien
  <2>3. QED
    BY <2>1, <2>2, LecturaInocua
<1>6. ASSUME NEW v \in Ventanillas, LeeBorrar(r, v)
      PROVE  Tipos' /\ Respeta
  <2> DEFINE l == [Libre EXCEPT !.ven = v]
  <2>1. Recibe(r, "BORRAR", l)
    BY <1>6 DEF LeeBorrar
  <2>2. ConQuien([l EXCEPT !.op = "BORRAR"])
    BY DEF Libre, ConQuien, Quien
  <2>3. QED
    BY <2>1, <2>2, LecturaInocua
<1>7. QED
  BY <1>1, <1>2, <1>3, <1>4, <1>5, <1>6 DEF Quien

-----------------------------------------------------------------------------
(* The specification.                                                      *)

\* Before anybody sits at a window.
LEMMA TiposAlEmpezar == Init => Tipos
  BY DEF Init, Tipos, Filas, EstadosPedido, Libre, ConQuien, Quien

\* One case per action.
LEMMA PasoBien ==
    ASSUME Tipos, [Next]_vars
    PROVE  Tipos' /\ Respeta
<1>1. ASSUME NEW r \in Peticiones, DeCajero(r) PROVE Tipos' /\ Respeta
  <2>1. CASE Toma(r) \/ Llama(r)
    BY <2>1, AsignaBien DEF Toma, Llama
  <2>2. CASE Libera(r) \/ NoSePresento(r) \/ EsperaValidacion(r)
    BY <2>2, DejaBien
  <2>3. CASE ReintentaLlamar(r)
    BY <2>3, ReintentaBien
  <2>4. QED
    BY <1>1, <2>1, <2>2, <2>3, LecturasBien DEF DeCajero
<1>2. ASSUME NEW r \in Peticiones, DeVentanillas(r) PROVE Tipos' /\ Respeta
  <2>1. CASE Elige(r) \/ TomaControl(r)
    BY <2>1, VentanillasBien
  <2>2. CASE Suelta(r)
    <3> DEFINE l == peticiones[r]
    <3>1. /\ pedidos' \in [Pedidos -> Filas]
          /\ \A p \in Pedidos : DejaSolo(l.quien, pedidos[p], pedidos'[p])
      BY <2>2, SueltaBien DEF Suelta
    <3>2. peticiones'[r] = Libre /\ l.op = "SOLTAR"
      BY <2>2, QuedaLibre DEF Suelta, En
    <3>3. Respeta
      BY <3>1, <3>2 DEF Respeta, DejaSolo, Atiende, Pidio
    <3>4. QED
      BY <2>2, <3>1, <3>3, TerminaConQuien DEF Suelta, Tipos
  <2>3. CASE Borra(r)
    BY <2>3, TerminaConQuien, SoloPeticion DEF Borra
  <2>4. QED
    BY <1>2, <2>1, <2>2, <2>3, LecturasBien DEF DeVentanillas
<1>3. ASSUME NEW r \in Peticiones, Abandona(r) PROVE Tipos' /\ Respeta
  BY <1>3, TerminaConQuien, SoloPeticion DEF Abandona
<1>4. CASE Trabajador
  <2>1. CASE Barre
    <3>1. /\ pedidos' \in [Pedidos -> Filas]
          /\ \A p \in Pedidos : DejaSolo(barrido.leida[2], pedidos[p], pedidos'[p])
      BY <2>1, SueltaBien DEF Barre
    <3>2. ASSUME NEW u, u = barrido.leida[2] PROVE LoBarren(u)
      BY <2>1, <3>2 DEF Barre, LoBarren
    <3>3. Respeta
      BY <3>1, <3>2 DEF Respeta, DejaSolo, Atiende
    <3>4. QED
      BY <2>1, <3>1, <3>3 DEF Barre, Tipos
  <2>2. CASE EmpiezaBarrido \/ BarridoFalla
    BY <2>2, NadaCambia DEF EmpiezaBarrido, BarridoFalla
  <2>3. CASE \E x \in barrido.quedan : LeeBarrido(x)
    BY <2>3, NadaCambia DEF LeeBarrido
  <2>4. QED
    BY <1>4, <2>1, <2>2, <2>3 DEF Trabajador
<1>5. CASE Externo
  <2>1. CASE \E u \in Personal : DaSenales(u) \/ DejaDeDarSenales(u)
    BY <2>1, NadaCambia DEF DaSenales, DejaDeDarSenales
  <2>2. ASSUME NEW p \in Pedidos, EntraACaja(p) PROVE Tipos' /\ Respeta
    BY <2>2 DEF EntraACaja, Tipos, Respeta, Atiende, Filas, EstadosPedido
  <2>3. ASSUME NEW p \in Pedidos, SaleDeCaja(p) PROVE Tipos' /\ Respeta
    <3>0. pedidos[p] \in Filas
      BY DEF Tipos
    <3>1. PICK f : /\ f \in Filas /\ f.estado = "FUERA"
                   /\ pedidos' = [pedidos EXCEPT ![p] = f]
      <4>1. PICK columna \in {"cajero", "espera"} :
               pedidos' = [pedidos EXCEPT ![p] =
                   [estado   |-> "FUERA",
                    cajero   |-> IF columna = "cajero" THEN NADIE ELSE pedidos[p].cajero,
                    espera   |-> columna # "espera" /\ pedidos[p].espera,
                    noCobrar |-> FALSE]]
        BY <2>3 DEF SaleDeCaja, Tipos
      <4> DEFINE g == [estado   |-> "FUERA",
                       cajero   |-> IF columna = "cajero" THEN NADIE ELSE pedidos[p].cajero,
                       espera   |-> columna # "espera" /\ pedidos[p].espera,
                       noCobrar |-> FALSE]
      <4>2. g \in Filas /\ g.estado = "FUERA"
        BY <3>0 DEF Filas, EstadosPedido
      <4>3. QED
        BY <4>1, <4>2
    <3>2. UNCHANGED peticiones
      BY <2>3 DEF SaleDeCaja
    <3>3. QED
      BY <3>1, <3>2 DEF Tipos, Respeta, Atiende
  <2>4. ASSUME NEW p \in Pedidos, CambiaPago(p) PROVE Tipos' /\ Respeta
    BY <2>4 DEF CambiaPago, Tipos, Respeta, Atiende, Filas
  <2>5. QED
    BY <1>5, <2>1, <2>2, <2>3, <2>4 DEF Externo
<1>6. CASE UNCHANGED vars
  BY <1>6, NadaCambia DEF vars
<1>7. QED
  BY <1>1, <1>2, <1>3, <1>4, <1>5, <1>6 DEF Next

\* The rows and the requests are what the schema says, however the steps of
\* the cashiers and of the worker interleave.
THEOREM TiposSiempre == Spec => []Tipos
<1>1. Tipos /\ [Next]_vars => Tipos'
  BY PasoBien
<1>2. QED
  BY TiposAlEmpezar, <1>1, PTL DEF Spec

\* A customer at the till leaves a cashier only towards the line, and only by
\* that cashier, by an administrator, by who moves the cashier from a window or
\* by a liberar, whatever the number of cashiers and of requests in flight: the
\* guards in the WHERE of tomarPedidoCajeroInterno, noSePresento and
\* esperarValidacion are enough.
THEOREM TurnoRespetado == Spec => ElClienteSigueConSuCajero
<1>1. Tipos /\ [Next]_vars =>
        [\A p \in Pedidos, u \in Personal :
            (Atiende(u, p) /\ pedidos'[p].estado = "PENDIENTE_PAGO" /\ pedidos'[p].cajero # u)
               => /\ pedidos'[p].cajero = NADIE
                  /\ LoBarren(u) \/ \E r \in Peticiones : Pidio(r, u, p)]_vars
  BY PasoBien DEF Respeta
<1>2. QED
  BY TiposSiempre, <1>1, PTL DEF Spec, ElClienteSigueConSuCajero

-----------------------------------------------------------------------------
(* Who attends is at a window: the part that holds with every overlap.     *)

\* A cashier sits in their store.
EnSuTienda == \A v \in Ventanillas : OpereEn(ventanillas[v], TiendaDeVentanilla[v])

\* A request about a window names one, and who wants it may sit there.
PideVentanilla(l) ==
    /\ l.op \in {"ELEGIR", "TOMAR_CONTROL", "SOLTAR", "BORRAR"} => l.ven \in Ventanillas
    /\ l.op \in {"ELEGIR", "TOMAR_CONTROL"} => OpereEn(l.quien, TiendaDeVentanilla[l.ven])

\* Nobody attends an order that has not come to the till.
SinEntrar == \A p \in Pedidos : pedidos[p].estado = "TIENDA" => pedidos[p].cajero = NADIE

Sentados ==
    /\ DOMAIN ventanillas = Ventanillas
    /\ barrido \in Barridos
    /\ EnSuTienda
    /\ SinEntrar
    /\ \A r \in Peticiones : PideVentanilla(peticiones[r])

-----------------------------------------------------------------------------
(* In order: what was read is still so.                                    *)

LeidoVale(l) ==
    /\ l.op \in {"TOMAR", "LLAMAR"} => TieneEn(l.quien, TiendaDePedido[l.ped])
    /\ l.op \in {"ELEGIR", "TOMAR_CONTROL"} => ventanillas[l.ven] = l.ocupante
    /\ l.op = "SOLTAR" => ventanillas[l.ven] = l.quien
    /\ l.op = "BORRAR" => ventanillas[l.ven] = NADIE

BarridoVale ==
    barrido.leida # NADIE =>
        /\ barrido.leida \in Ventanillas \X Personal
        /\ ventanillas[barrido.leida[1]] = barrido.leida[2]

EnOrden ==
    /\ ~Solapado
    /\ AtendidoConVentanilla
    /\ BarridoVale
    /\ \A r \in Peticiones : LeidoVale(peticiones[r])

MCInv == Tipos /\ Sentados /\ (~solapo => EnOrden)

\* The first of a line that is not empty is one of it, of the store that asked.
LEMMA ElPrimero ==
    ASSUME NEW t, LlamablesDe(t) # {}
    PROVE  TiendaDePedido[SiguienteDe(t)] = t
<1>0. LlamablesDe(t) \subseteq Nat
  BY DEF LlamablesDe
<1> DEFINE L == LlamablesDe(t)
<1> HIDE DEF L
<1>1. PICK i \in L : \A j \in L : ~(j < i)
  <2>1. PICK i \in L : \A j \in L : ~(<<j, i>> \in OpToRel(<, Nat))
    BY <1>0, NatLessThanWellFounded, WFMin DEF L
  <2>2. L \subseteq Nat
    BY <1>0 DEF L
  <2>3. QED
    BY <2>1, <2>2 DEF OpToRel
<1>2. \A j \in L : i <= j
  BY <1>0, <1>1 DEF L
<1> USE DEF L
<1>3. \E k \in LlamablesDe(t) : SiguienteDe(t) = fila[k]
  BY <1>2 DEF SiguienteDe
<1>4. QED
  BY <1>3 DEF LlamablesDe

\* A request that is read: it is alone, and nothing has moved.
LEMMA LeeSolo ==
    ASSUME Tipos, NEW r \in Peticiones, NEW op, NEW l, "op" \in DOMAIN l, Recibe(r, op, l)
    PROVE  /\ peticiones'[r] = [l EXCEPT !.op = op]
           /\ \A s \in Peticiones \ {r} : peticiones'[s] = peticiones[s]
           /\ UNCHANGED <<pedidos, fila, ventanillas, activo, barrido>>
  BY DEF Recibe, Sigue, Tipos

\* The rows and the windows stay, and one request says something else.
LEMMA SigueSentado ==
    ASSUME Tipos, Sentados, NEW r \in Peticiones, NEW l, Sigue(r, l), PideVentanilla(l),
           UNCHANGED <<ventanillas, barrido>>, SinEntrar'
    PROVE  Sentados'
  BY DEF Tipos, Sentados, Sigue, EnSuTienda, PideVentanilla, OpereEn

LEMMA LibreNoPide == PideVentanilla(Libre) /\ LeidoVale(Libre) /\ LeidoVale(Libre)'
  BY DEF Libre, PideVentanilla, LeidoVale

\* The rows change and the windows and the sweep do not: one request goes on.
LEMMA SigueOrden ==
    ASSUME Tipos, EnOrden, NEW r \in Peticiones, NEW l, Sigue(r, l), ~Solapado',
           UNCHANGED <<ventanillas, barrido>>, LeidoVale(l), AtendidoConVentanilla'
    PROVE  EnOrden'
  BY DEF Tipos, EnOrden, Sigue, LeidoVale, BarridoVale, TieneEn

\* Whoever was attending was at a window of the store, and windows stay.
LEMMA SiguenAtendidos ==
    ASSUME AtendidoConVentanilla, UNCHANGED ventanillas,
           \A p \in Pedidos, u \in Personal :
              Atiende(u, p)' => Atiende(u, p) \/ TieneEn(u, TiendaDePedido[p])
    PROVE  AtendidoConVentanilla'
  BY DEF AtendidoConVentanilla, TieneEn

\* While a request works, no other one is in flight and the sweep rests.
LEMMA Sola ==
    ASSUME EnOrden, NEW r \in Peticiones, peticiones[r].op # "NINGUNA"
    PROVE  /\ \A s \in Peticiones \ {r} : peticiones[s] = Libre
           /\ barrido = SinBarrido
           /\ LeidoVale(peticiones[r])
  BY DEF EnOrden, Solapado, EnVuelo, Libre

\* What a step owes to both halves of the invariant.
Bien == Sentados' /\ (EnOrden /\ ~Solapado' => EnOrden')

\* A read.
LEMMA LecturaBien ==
    ASSUME Tipos, Sentados, NEW r \in Peticiones, NEW op, NEW l, Recibe(r, op, l),
           PideVentanilla([l EXCEPT !.op = op]),
           EnOrden => LeidoVale([l EXCEPT !.op = op])
    PROVE  Bien
<1> DEFINE m == [l EXCEPT !.op = op]
<1>1. Sigue(r, m) /\ UNCHANGED <<pedidos, ventanillas, barrido>>
  BY DEF Recibe
<1>2. SinEntrar'
  BY <1>1 DEF Sentados, SinEntrar
<1>3. EnOrden => AtendidoConVentanilla'
  BY <1>1, SiguenAtendidos DEF EnOrden, Atiende
<1> HIDE DEF m
<1>4. PideVentanilla(m) /\ (EnOrden => LeidoVale(m))
  BY DEF m
<1>5. QED
  BY <1>1, <1>2, <1>3, <1>4, SigueSentado, SigueOrden DEF Bien

\* A write of one order.
LEMMA EscribeBien ==
    ASSUME Tipos, Sentados, NEW r \in Peticiones, NEW p, NEW f, Escribe(r, p, f),
           p \in Pedidos =>
              /\ f.estado = pedidos[p].estado
              /\ \/ f.cajero = NADIE
                 \/ /\ f.estado = "PENDIENTE_PAGO"
                    /\ EnOrden => TieneEn(f.cajero, TiendaDePedido[p])
    PROVE  Bien
<1>1. /\ pedidos' = [pedidos EXCEPT ![p] = f]
      /\ Sigue(r, Libre)
      /\ UNCHANGED <<ventanillas, activo, barrido>>
  BY DEF Escribe, Termina
<1>2. \A q \in Pedidos : pedidos'[q] = IF q = p THEN f ELSE pedidos[q]
  BY <1>1 DEF Tipos
<1>3. SinEntrar'
  BY <1>2 DEF Sentados, SinEntrar
<1>4. EnOrden => AtendidoConVentanilla'
  BY <1>1, <1>2, SiguenAtendidos, PersonalAssumption DEF EnOrden, Atiende
<1>5. QED
  BY <1>1, <1>3, <1>4, LibreNoPide, SigueSentado, SigueOrden DEF Bien

\* tomarPedidoCajeroInterno.
LEMMA AsignaSentado ==
    ASSUME Tipos, Sentados, NEW r \in Peticiones, Toma(r) \/ Llama(r)
    PROVE  Bien
<1> DEFINE u == peticiones[r].quien
           p == peticiones[r].ped
           f == [pedidos[p] EXCEPT !.cajero = u, !.espera = FALSE]
<1>1. /\ Escribe(r, p, f)
      /\ pedidos[p].estado = "PENDIENTE_PAGO"
      /\ peticiones[r].op \in {"TOMAR", "LLAMAR"}
  BY DEF Toma, Llama, Asigna, PuedeTomar, En
<1>2. p \in Pedidos => f.estado = pedidos[p].estado /\ f.cajero = u
  BY DEF Tipos, Filas
<1>3. EnOrden => TieneEn(u, TiendaDePedido[p])
  BY <1>1 DEF EnOrden, LeidoVale
<1> HIDE DEF f, p, u
<1>4. QED
  BY <1>1, <1>2, <1>3, EscribeBien

\* liberarPedidoCajero, noSePresento and esperarValidacion.
LEMMA DejaSentado ==
    ASSUME Tipos, Sentados, NEW r \in Peticiones,
           Libera(r) \/ NoSePresento(r) \/ EsperaValidacion(r)
    PROVE  Bien
<1> DEFINE p == peticiones[r].ped
<1>1. \E f : /\ Escribe(r, p, f)
             /\ \/ f = [pedidos[p] EXCEPT !.cajero = NADIE]
                \/ \E b \in BOOLEAN : f = [pedidos[p] EXCEPT !.cajero = NADIE, !.espera = b]
  BY DEF Libera, NoSePresento, EsperaValidacion
<1>2. PICK f : /\ Escribe(r, p, f)
               /\ \/ f = [pedidos[p] EXCEPT !.cajero = NADIE]
                  \/ \E b \in BOOLEAN : f = [pedidos[p] EXCEPT !.cajero = NADIE, !.espera = b]
  BY <1>1
<1>3. p \in Pedidos => f.estado = pedidos[p].estado /\ f.cajero = NADIE
  BY <1>2 DEF Tipos, Filas
<1> HIDE DEF p
<1>4. QED
  BY <1>2, <1>3, EscribeBien

\* llamarSiguiente, after losing the order: the next one is of the same store.
LEMMA ReintentaSentado ==
    ASSUME Tipos, Sentados, NEW r \in Peticiones, ReintentaLlamar(r)
    PROVE  Bien
<1> DEFINE l == peticiones[r]
           t == TiendaDePedido[l.ped]
           m == [l EXCEPT !.ped = SiguienteDe(t), !.intento = @ + 1]
<1>1. /\ Sigue(r, m) /\ UNCHANGED <<pedidos, ventanillas, barrido>>
      /\ LlamablesDe(t) # {} /\ l.op = "LLAMAR"
  BY DEF ReintentaLlamar, En
<1>2. SinEntrar'
  BY <1>1 DEF Sentados, SinEntrar
<1>3. EnOrden => AtendidoConVentanilla'
  BY <1>1, SiguenAtendidos DEF EnOrden, Atiende
<1>4. TiendaDePedido[SiguienteDe(t)] = t
  BY <1>1, ElPrimero
<1>5. m.op = "LLAMAR" /\ m.quien = l.quien /\ (m.ped = SiguienteDe(t) \/ m.ped = l.ped)
  BY <1>1
<1>6. PideVentanilla(m)
  BY <1>5 DEF PideVentanilla
<1>7. EnOrden => TieneEn(l.quien, t)
  BY <1>1 DEF EnOrden, LeidoVale
<1>8. EnOrden => LeidoVale(m)
  BY <1>4, <1>5, <1>7 DEF LeidoVale
<1> HIDE DEF m
<1>9. QED
  BY <1>1, <1>2, <1>3, <1>6, <1>8, SigueSentado, SigueOrden DEF Bien

-----------------------------------------------------------------------------
(* Windows change hands.                                                   *)

\* Nobody joins the till by being given back to the line.
LEMMA SinEntrarSigue ==
    ASSUME SinEntrar,
           \A p \in Pedidos : /\ pedidos'[p].estado = pedidos[p].estado
                              /\ pedidos'[p].cajero \in {pedidos[p].cajero, NADIE}
    PROVE  SinEntrar'
  BY DEF SinEntrar

\* A request ends, and whoever sits is in their store.
LEMMA AcabaSentado ==
    ASSUME Tipos, Sentados, NEW r \in Peticiones, Termina(r), UNCHANGED barrido,
           DOMAIN ventanillas' = Ventanillas, EnSuTienda', SinEntrar'
    PROVE  Sentados'
  BY LibreNoPide DEF Tipos, Sentados, Termina, Sigue, PideVentanilla, OpereEn

\* The only request in flight ends.
LEMMA AcabaSola ==
    ASSUME Tipos, EnOrden, NEW r \in Peticiones, peticiones[r].op # "NINGUNA", Termina(r),
           UNCHANGED barrido, ~Solapado', AtendidoConVentanilla'
    PROVE  EnOrden'
<1>1. \A s \in Peticiones : peticiones'[s] = Libre
  BY Sola DEF Tipos, Termina, Sigue
<1>2. barrido' = SinBarrido
  BY Sola
<1>3. BarridoVale'
  BY <1>2 DEF BarridoVale, SinBarrido
<1>4. QED
  BY <1>1, <1>3, LibreNoPide DEF EnOrden

\* What is left of a row when its cashier moves to v.
LEMMA TrasMoverse ==
    ASSUME Tipos, NEW u, NEW v, NEW p \in Pedidos
    PROVE  LET f == TrasSoltarAnteriores(u, v)[p] IN
           /\ f \in Filas
           /\ f.estado = pedidos[p].estado
           /\ f.cajero \in {pedidos[p].cajero, NADIE}
           /\ (\E w \in Anteriores(u, v) : /\ TiendaDeVentanilla[w] # TiendaDeVentanilla[v]
                                           /\ TiendaDePedido[p] = TiendaDeVentanilla[w]
                                           /\ Atiende(u, p)) => f.cajero = NADIE
<1>1. pedidos[p] \in Filas
  BY DEF Tipos
<1>2. QED
  BY <1>1 DEF TrasSoltarAnteriores, Filas

\* What is left of a row when the orders of u in a store go back to the line.
LEMMA TrasRegresar ==
    ASSUME NEW filas \in [Pedidos -> Filas], NEW u, NEW t, NEW p \in Pedidos
    PROVE  LET f == Regresados(filas, u, t)[p] IN
           /\ f.estado = filas[p].estado
           /\ f.cajero \in {filas[p].cajero, NADIE}
           /\ (filas[p].estado = "PENDIENTE_PAGO" /\ filas[p].cajero = u /\ TiendaDePedido[p] = t)
                 => f.cajero = NADIE
<1>1. filas[p] \in Filas
  OBVIOUS
<1>2. QED
  BY <1>1 DEF Regresados, Filas

\* u sits at v and leaves the other windows: nobody is left with nobody if what
\* u had in other stores, and what the one who was there had in this, went back.
LEMMA CambiaAtendidos ==
    ASSUME Tipos, AtendidoConVentanilla, NEW u, NEW v \in Ventanillas,
           \A w \in Ventanillas :
              ventanillas'[w] = IF w = v THEN u
                                ELSE IF w \in Anteriores(u, v) THEN NADIE ELSE ventanillas[w],
           \A p \in Pedidos, x \in Personal : Atiende(x, p)' =>
              /\ Atiende(x, p)
              /\ TrasSoltarAnteriores(u, v)[p].cajero = x
              /\ x # u => ~(ventanillas[v] = x /\ TiendaDePedido[p] = TiendaDeVentanilla[v])
    PROVE  AtendidoConVentanilla'
<1> SUFFICES ASSUME NEW p \in Pedidos, NEW x \in Personal, Atiende(x, p)'
             PROVE  TieneEn(x, TiendaDePedido[p])'
  BY DEF AtendidoConVentanilla
<1>1. Atiende(x, p) /\ x # NADIE
  BY PersonalAssumption
<1>2. PICK w \in Ventanillas : ventanillas[w] = x /\ TiendaDeVentanilla[w] = TiendaDePedido[p]
  BY <1>1 DEF AtendidoConVentanilla, TieneEn
<1>3. CASE x = u
  <2>1. w # v => TiendaDeVentanilla[w] = TiendaDeVentanilla[v]
    BY <1>1, <1>2, <1>3, TrasMoverse DEF Anteriores
  <2>2. ventanillas'[v] = x /\ TiendaDeVentanilla[v] = TiendaDePedido[p]
    BY <1>2, <1>3, <2>1
  <2>3. QED
    BY <2>2 DEF TieneEn
<1>4. CASE x # u
  <2>1. w # v
    BY <1>2, <1>4
  <2>2. ventanillas'[w] = x
    BY <1>2, <1>4, <2>1 DEF Anteriores
  <2>3. QED
    BY <1>2, <2>2 DEF TieneEn
<1>5. QED
  BY <1>3, <1>4

\* Whoever sits is in their store still.
LEMMA EnSuTiendaSigue ==
    ASSUME EnSuTienda, NEW u, NEW v, OpereEn(u, TiendaDeVentanilla[v]),
           \A w \in Ventanillas :
              \/ ventanillas'[w] \in {ventanillas[w], NADIE, "BORRADA"}
              \/ w = v /\ ventanillas'[w] = u
    PROVE  EnSuTienda'
  BY PersonalAssumption DEF EnSuTienda, OpereEn, Personal

\* elegir.
LEMMA EligeBien ==
    ASSUME Tipos, Sentados, NEW r \in Peticiones, Elige(r)
    PROVE  Bien
<1> DEFINE l == peticiones[r]
           u == l.quien
           v == l.ven
<1>1. l.op = "ELEGIR" /\ v \in Ventanillas /\ OpereEn(u, TiendaDeVentanilla[v])
  BY DEF Elige, En, Sentados, PideVentanilla
<1>2. /\ pedidos' = TrasSoltarAnteriores(u, v)
      /\ Termina(r) /\ UNCHANGED barrido
      /\ \/ /\ l.ocupante = NADIE
            /\ ventanillas[v] \in {NADIE, u}
            /\ ventanillas' = [w \in Ventanillas |->
                                  IF w = v THEN u
                                  ELSE IF w \in Anteriores(u, v) THEN NADIE ELSE ventanillas[w]]
         \/ /\ l.ocupante = u
            /\ ventanillas' = [w \in Ventanillas |->
                                  IF w \in Anteriores(u, v) THEN NADIE ELSE ventanillas[w]]
  BY DEF Elige, Cambia
<1>3. SinEntrar'
  BY <1>2, TrasMoverse, SinEntrarSigue DEF Sentados
<1>4. DOMAIN ventanillas' = Ventanillas
  BY <1>2
<1> HIDE DEF u, v
<1>5. EnSuTienda'
  BY <1>1, <1>2, EnSuTiendaSigue DEF Sentados
<1>6. ASSUME EnOrden PROVE AtendidoConVentanilla'
  <2>1. ventanillas[v] = l.ocupante
    BY <1>1, <1>6 DEF EnOrden, LeidoVale, v
  <2>2. \A w \in Ventanillas :
           ventanillas'[w] = IF w = v THEN u
                             ELSE IF w \in Anteriores(u, v) THEN NADIE ELSE ventanillas[w]
    BY <1>1, <1>2, <2>1 DEF Anteriores
  <2>3. ASSUME NEW p \in Pedidos, NEW x \in Personal, Atiende(x, p)'
        PROVE  /\ Atiende(x, p)
               /\ TrasSoltarAnteriores(u, v)[p].cajero = x
               /\ x # u => ~(ventanillas[v] = x /\ TiendaDePedido[p] = TiendaDeVentanilla[v])
    BY <1>2, <2>1, <2>3, TrasMoverse, PersonalAssumption DEF Atiende
  <2>4. QED
    BY <1>1, <1>6, <2>2, <2>3, CambiaAtendidos DEF EnOrden
<1>7. QED
  BY <1>1, <1>2, <1>3, <1>4, <1>5, <1>6, AcabaSentado, AcabaSola DEF Bien

\* elegirConForzar.
LEMMA TomaControlBien ==
    ASSUME Tipos, Sentados, NEW r \in Peticiones, TomaControl(r)
    PROVE  Bien
<1> DEFINE l == peticiones[r]
           u == l.quien
           v == l.ven
           previas == TrasSoltarAnteriores(u, v)
<1>1. l.op = "TOMAR_CONTROL" /\ v \in Ventanillas /\ OpereEn(u, TiendaDeVentanilla[v])
  BY DEF TomaControl, En, Sentados, PideVentanilla
<1>2. /\ pedidos' = Regresados(previas, l.ocupante, TiendaDeVentanilla[v])
      /\ Termina(r) /\ UNCHANGED barrido
      /\ ventanillas[v] = l.ocupante
      /\ ventanillas' = [w \in Ventanillas |->
                            IF w = v THEN u
                            ELSE IF w \in Anteriores(u, v) THEN NADIE ELSE ventanillas[w]]
  BY DEF TomaControl, Cambia
<1> HIDE DEF u, v
<1>3. previas \in [Pedidos -> Filas]
  BY AnterioresSueltan
<1>4. ASSUME NEW p \in Pedidos
      PROVE  /\ pedidos'[p].estado = pedidos[p].estado
             /\ previas[p].estado = pedidos[p].estado
             /\ previas[p].cajero \in {pedidos[p].cajero, NADIE}
             /\ pedidos'[p].cajero \in {previas[p].cajero, NADIE}
             /\ (previas[p].estado = "PENDIENTE_PAGO" /\ previas[p].cajero = l.ocupante
                 /\ TiendaDePedido[p] = TiendaDeVentanilla[v]) => pedidos'[p].cajero = NADIE
  <2>1. /\ previas[p].estado = pedidos[p].estado
        /\ previas[p].cajero \in {pedidos[p].cajero, NADIE}
    BY TrasMoverse
  <2> HIDE DEF previas
  <2>2. QED
    BY <1>2, <1>3, <2>1, TrasRegresar
<1>5. SinEntrar'
  BY <1>4, SinEntrarSigue DEF Sentados
<1>6. DOMAIN ventanillas' = Ventanillas
  BY <1>2
<1>7. EnSuTienda'
  BY <1>1, <1>2, EnSuTiendaSigue DEF Sentados
<1>8. ASSUME EnOrden PROVE AtendidoConVentanilla'
  <2>1. ASSUME NEW p \in Pedidos, NEW x \in Personal, Atiende(x, p)'
        PROVE  /\ Atiende(x, p)
               /\ previas[p].cajero = x
               /\ x # u => ~(ventanillas[v] = x /\ TiendaDePedido[p] = TiendaDeVentanilla[v])
    <3> HIDE DEF previas
    <3>1. QED
      BY <1>2, <1>4, <2>1, PersonalAssumption DEF Atiende
  <2>2. QED
    BY <1>1, <1>2, <1>8, <2>1, CambiaAtendidos DEF EnOrden
<1>9. QED
  BY <1>1, <1>2, <1>5, <1>6, <1>7, <1>8, AcabaSentado, AcabaSola DEF Bien

\* liberar: whoever loses the window loses what they were attending there.
LEMMA SueltaPorIdBien ==
    ASSUME Tipos, Sentados, NEW u, NEW v \in Ventanillas, SueltaPorId(u, v)
    PROVE  /\ DOMAIN ventanillas' = Ventanillas
           /\ EnSuTienda'
           /\ SinEntrar'
           /\ AtendidoConVentanilla /\ ventanillas[v] = u => AtendidoConVentanilla'
<1> DEFINE t == TiendaDeVentanilla[v]
<1>1. /\ ventanillas' = [ventanillas EXCEPT ![v] = NADIE]
      /\ pedidos' = Regresados(pedidos, u, t)
  BY DEF SueltaPorId
<1>2. DOMAIN ventanillas' = Ventanillas
  BY <1>1 DEF Sentados
<1>3. \A w \in Ventanillas : ventanillas'[w] = IF w = v THEN NADIE ELSE ventanillas[w]
  BY <1>1 DEF Sentados
<1>4. OpereEn(NADIE, t)
  BY PersonalAssumption DEF OpereEn, Personal
<1>5. EnSuTienda'
  BY <1>3, <1>4, EnSuTiendaSigue DEF Sentados
<1>6. ASSUME NEW p \in Pedidos
      PROVE  /\ pedidos'[p].estado = pedidos[p].estado
             /\ pedidos'[p].cajero \in {pedidos[p].cajero, NADIE}
             /\ (pedidos[p].estado = "PENDIENTE_PAGO" /\ pedidos[p].cajero = u
                 /\ TiendaDePedido[p] = t) => pedidos'[p].cajero = NADIE
  BY <1>1, TrasRegresar DEF Tipos
<1>7. SinEntrar'
  BY <1>6, SinEntrarSigue DEF Sentados
<1>8. ASSUME AtendidoConVentanilla, ventanillas[v] = u,
             NEW p \in Pedidos, NEW x \in Personal, Atiende(x, p)'
      PROVE  TieneEn(x, TiendaDePedido[p])'
  <2>1. Atiende(x, p) /\ ~(x = u /\ TiendaDePedido[p] = t)
    BY <1>6, <1>8, PersonalAssumption DEF Atiende
  <2>2. PICK w \in Ventanillas : ventanillas[w] = x /\ TiendaDeVentanilla[w] = TiendaDePedido[p]
    BY <1>8, <2>1 DEF AtendidoConVentanilla, TieneEn
  <2>3. ventanillas'[w] = x
    BY <1>3, <1>8, <2>1, <2>2
  <2>4. QED
    BY <2>2, <2>3 DEF TieneEn
<1>9. QED
  BY <1>2, <1>5, <1>7, <1>8 DEF AtendidoConVentanilla

LEMMA SueltaSentado ==
    ASSUME Tipos, Sentados, NEW r \in Peticiones, Suelta(r)
    PROVE  Bien
<1> DEFINE u == peticiones[r].quien
           v == peticiones[r].ven
<1>1. /\ SueltaPorId(u, v) /\ Termina(r) /\ UNCHANGED barrido
      /\ peticiones[r].op = "SOLTAR"
  BY DEF Suelta, En
<1>2. v \in Ventanillas
  BY <1>1 DEF Sentados, PideVentanilla
<1>3. EnOrden => ventanillas[v] = u /\ AtendidoConVentanilla
  BY <1>1 DEF EnOrden, LeidoVale
<1>4. QED
  BY <1>1, <1>2, <1>3, SueltaPorIdBien, AcabaSentado, AcabaSola DEF Bien

LEMMA BorraSentado ==
    ASSUME Tipos, Sentados, NEW r \in Peticiones, Borra(r)
    PROVE  Bien
<1> DEFINE v == peticiones[r].ven
<1>1. /\ ventanillas' = [ventanillas EXCEPT ![v] = "BORRADA"]
      /\ Termina(r) /\ UNCHANGED <<pedidos, barrido>>
      /\ peticiones[r].op = "BORRAR"
  BY DEF Borra, En
<1>2. \A w \in Ventanillas : ventanillas'[w] \in {ventanillas[w], "BORRADA"}
                             /\ (w # v => ventanillas'[w] = ventanillas[w])
  BY <1>1 DEF Sentados
<1>3. EnSuTienda' /\ SinEntrar' /\ DOMAIN ventanillas' = Ventanillas
  <2>1. OpereEn(NADIE, TiendaDeVentanilla[v])
    BY PersonalAssumption DEF OpereEn, Personal
  <2>2. EnSuTienda'
    BY <1>2, <2>1, EnSuTiendaSigue DEF Sentados
  <2>3. QED
    BY <1>1, <2>2 DEF Sentados, SinEntrar
<1>4. ASSUME EnOrden PROVE AtendidoConVentanilla'
  <2>1. ventanillas[v] = NADIE
    BY <1>1, <1>4 DEF EnOrden, LeidoVale
  <2>2. QED
    BY <1>1, <1>2, <1>4, <2>1, PersonalAssumption
       DEF EnOrden, AtendidoConVentanilla, Atiende, TieneEn
<1>5. QED
  BY <1>1, <1>3, <1>4, AcabaSentado, AcabaSola DEF Bien

-----------------------------------------------------------------------------
(* Every step.                                                             *)

\* Windows, rows and sweep stay, the requests too.
LEMMA NadaSeMueve ==
    ASSUME Tipos, Sentados, UNCHANGED <<ventanillas, peticiones>>, barrido' \in Barridos,
           SinEntrar', EnOrden => AtendidoConVentanilla' /\ BarridoVale'
    PROVE  Bien
  BY DEF Bien, Sentados, EnOrden, EnSuTienda, LeidoVale, TieneEn

LEMMA LecturasSentadas ==
    ASSUME Tipos, Sentados, NEW r \in Peticiones,
           \/ \E u \in Personal, p \in Pedidos : LeeTomar(r, u, p)
           \/ \E u \in Personal \cup {NADIE}, p \in Pedidos : LeeLiberar(r, u, p)
           \/ \E u \in Personal, p \in Pedidos, op \in {"NO_SE_PRESENTO", "ESPERAR_VALIDACION"} :
                 LeeDejar(r, u, p, op)
           \/ \E u \in Personal, t \in Tiendas : LeeLlamar(r, u, t)
           \/ \E u \in Personal, v \in Ventanillas, op \in {"ELEGIR", "TOMAR_CONTROL"} :
                 LeeElegir(r, u, v, op)
           \/ \E u \in Personal, v \in Ventanillas : LeeSoltar(r, u, v)
           \/ \E v \in Ventanillas : LeeBorrar(r, v)
    PROVE  Bien
<1>1. ASSUME NEW u \in Personal, NEW p \in Pedidos, LeeTomar(r, u, p) PROVE Bien
  <2> DEFINE l == [Libre EXCEPT !.quien = u, !.ped = p]
             m == [l EXCEPT !.op = "TOMAR"]
  <2>1. m.op = "TOMAR" /\ m.quien = u /\ m.ped = p
    BY DEF Libre
  \* A cashier is at some window, and all of theirs are of their store.
  <2>2. TieneEn(u, TiendaDePedido[p])
    BY <1>1 DEF LeeTomar, ConEstacion, TieneVentanilla, TieneEn, OpereEn, Sentados, EnSuTienda,
                Personal
  <2>3. PideVentanilla(m) /\ LeidoVale(m)
    BY <2>1, <2>2 DEF PideVentanilla, LeidoVale
  <2>4. QED
    BY <1>1, <2>3, LecturaBien DEF LeeTomar
<1>2. ASSUME NEW u, NEW p \in Pedidos, LeeLiberar(r, u, p) PROVE Bien
  <2> DEFINE l == [Libre EXCEPT !.quien = u, !.ped = p]
             m == [l EXCEPT !.op = "LIBERAR"]
  <2>1. m.op = "LIBERAR"
    BY DEF Libre
  <2>2. PideVentanilla(m) /\ LeidoVale(m)
    BY <2>1 DEF PideVentanilla, LeidoVale
  <2>3. QED
    BY <1>2, <2>2, LecturaBien DEF LeeLiberar
<1>3. ASSUME NEW u \in Personal, NEW p \in Pedidos,
             NEW op \in {"NO_SE_PRESENTO", "ESPERAR_VALIDACION"}, LeeDejar(r, u, p, op)
      PROVE  Bien
  <2> DEFINE l == [Libre EXCEPT !.quien = u, !.ped = p, !.ocupante = pedidos[p].cajero]
             m == [l EXCEPT !.op = op]
  <2>1. m.op = op
    BY DEF Libre
  <2>2. PideVentanilla(m) /\ LeidoVale(m)
    BY <2>1 DEF PideVentanilla, LeidoVale
  <2>3. QED
    BY <1>3, <2>2, LecturaBien DEF LeeDejar
<1>4. ASSUME NEW u \in Personal, NEW t \in Tiendas, LeeLlamar(r, u, t) PROVE Bien
  <2> DEFINE l == [Libre EXCEPT !.quien = u, !.ped = SiguienteDe(t), !.intento = 1]
             m == [l EXCEPT !.op = "LLAMAR"]
  <2>1. m.op = "LLAMAR" /\ m.quien = u /\ m.ped = SiguienteDe(t)
    BY DEF Libre
  <2>2. TieneEn(u, t) /\ TiendaDePedido[SiguienteDe(t)] = t
    BY <1>4, ElPrimero DEF LeeLlamar
  <2>3. PideVentanilla(m) /\ LeidoVale(m)
    BY <2>1, <2>2 DEF PideVentanilla, LeidoVale
  <2>4. QED
    BY <1>4, <2>3, LecturaBien DEF LeeLlamar
<1>5. ASSUME NEW u \in Personal, NEW v \in Ventanillas,
             NEW op \in {"ELEGIR", "TOMAR_CONTROL"}, LeeElegir(r, u, v, op)
      PROVE  Bien
  <2> DEFINE l == [Libre EXCEPT !.quien = u, !.ven = v, !.ocupante = ventanillas[v]]
             m == [l EXCEPT !.op = op]
  <2>1. m.op = op /\ m.quien = u /\ m.ven = v /\ m.ocupante = ventanillas[v]
    BY DEF Libre
  <2>2. PideVentanilla(m) /\ LeidoVale(m)
    BY <1>5, <2>1 DEF PideVentanilla, LeidoVale, LeeElegir
  <2>3. QED
    BY <1>5, <2>2, LecturaBien DEF LeeElegir
<1>6. ASSUME NEW u \in Personal, NEW v \in Ventanillas, LeeSoltar(r, u, v) PROVE Bien
  <2> DEFINE l == [Libre EXCEPT !.quien = u, !.ven = v]
             m == [l EXCEPT !.op = "SOLTAR"]
  <2>1. m.op = "SOLTAR" /\ m.quien = u /\ m.ven = v
    BY DEF Libre
  <2>2. PideVentanilla(m) /\ LeidoVale(m)
    BY <1>6, <2>1 DEF PideVentanilla, LeidoVale, LeeSoltar
  <2>3. QED
    BY <1>6, <2>2, LecturaBien DEF LeeSoltar
<1>7. ASSUME NEW v \in Ventanillas, LeeBorrar(r, v) PROVE Bien
  <2> DEFINE l == [Libre EXCEPT !.ven = v]
             m == [l EXCEPT !.op = "BORRAR"]
  <2>1. m.op = "BORRAR" /\ m.ven = v
    BY DEF Libre
  <2>2. PideVentanilla(m) /\ LeidoVale(m)
    BY <1>7, <2>1 DEF PideVentanilla, LeidoVale, LeeBorrar
  <2>3. QED
    BY <1>7, <2>2, LecturaBien DEF LeeBorrar
<1>8. QED
  BY <1>1, <1>2, <1>3, <1>4, <1>5, <1>6, <1>7

\* The sweep frees the window of whom it read, because nobody else is at work.
LEMMA BarreBien ==
    ASSUME Tipos, Sentados, Barre
    PROVE  Bien
<1> DEFINE x == barrido.leida
<1>1. /\ x # NADIE
      /\ SueltaPorId(x[2], x[1])
      /\ barrido' = [barrido EXCEPT !.leida = NADIE]
      /\ UNCHANGED peticiones
  BY DEF Barre
<1>2. x \in Ventanillas \X Personal /\ barrido' \in Barridos /\ barrido'.leida = NADIE
  BY <1>1 DEF Sentados, Barridos
<1>3. x[1] \in Ventanillas
  BY <1>2
<1>4. Sentados'
  BY <1>1, <1>2, <1>3, SueltaPorIdBien DEF Sentados
<1>5. ASSUME EnOrden, ~Solapado' PROVE EnOrden'
  <2>1. \A r \in Peticiones : peticiones[r] = Libre
    BY <1>1, <1>5 DEF EnOrden, Solapado, EnVuelo, SinBarrido
  <2>2. \A r \in Peticiones : LeidoVale(peticiones[r])'
    BY <1>1, <2>1, LibreNoPide
  <2>3. AtendidoConVentanilla'
    BY <1>1, <1>3, <1>5, SueltaPorIdBien DEF EnOrden, BarridoVale
  <2>4. BarridoVale'
    BY <1>2 DEF BarridoVale
  <2>5. QED
    BY <1>5, <2>2, <2>3, <2>4 DEF EnOrden
<1>6. QED
  BY <1>4, <1>5 DEF Bien

\* One case per action.
LEMMA PasoSentado ==
    ASSUME Tipos, Sentados, [Next]_vars
    PROVE  Bien
<1>1. ASSUME NEW r \in Peticiones, DeCajero(r) PROVE Bien
  <2>1. CASE Toma(r) \/ Llama(r)
    BY <2>1, AsignaSentado
  <2>2. CASE Libera(r) \/ NoSePresento(r) \/ EsperaValidacion(r)
    BY <2>2, DejaSentado
  <2>3. CASE ReintentaLlamar(r)
    BY <2>3, ReintentaSentado
  <2>4. QED
    BY <1>1, <2>1, <2>2, <2>3, LecturasSentadas DEF DeCajero
<1>2. ASSUME NEW r \in Peticiones, DeVentanillas(r) PROVE Bien
  BY <1>2, EligeBien, TomaControlBien, SueltaSentado, BorraSentado, LecturasSentadas
     DEF DeVentanillas
<1>3. ASSUME NEW r \in Peticiones, Abandona(r) PROVE Bien
  <2>1. Sigue(r, Libre) /\ UNCHANGED <<pedidos, ventanillas, barrido>>
    BY <1>3 DEF Abandona, Termina
  <2>2. SinEntrar'
    BY <2>1 DEF Sentados, SinEntrar
  <2>3. EnOrden => AtendidoConVentanilla'
    BY <2>1, SiguenAtendidos DEF EnOrden, Atiende
  <2>4. QED
    BY <2>1, <2>2, <2>3, LibreNoPide, SigueSentado, SigueOrden DEF Bien
<1>4. CASE Trabajador
  <2>1. CASE Barre
    BY <2>1, BarreBien
  <2>2. CASE EmpiezaBarrido \/ BarridoFalla \/ \E x \in barrido.quedan : LeeBarrido(x)
    <3>1. /\ UNCHANGED <<pedidos, ventanillas, peticiones>>
          /\ barrido' \in Barridos
          /\ BarridoVale'
      <4>1. CASE EmpiezaBarrido
        BY <4>1 DEF EmpiezaBarrido, SinBarrido, Barridos, Inactivas, BarridoVale
      <4>2. CASE BarridoFalla
        BY <4>2 DEF BarridoFalla, SinBarrido, Barridos, BarridoVale
      <4>3. ASSUME NEW x \in barrido.quedan, LeeBarrido(x)
            PROVE  /\ barrido' \in Barridos
                   /\ BarridoVale'
        BY <4>3 DEF LeeBarrido, Sentados, Barridos, BarridoVale
      <4>4. QED
        BY <2>2, <4>1, <4>2, <4>3 DEF EmpiezaBarrido, BarridoFalla, LeeBarrido
    <3>2. SinEntrar'
      BY <3>1 DEF Sentados, SinEntrar
    <3>3. EnOrden => AtendidoConVentanilla'
      BY <3>1, SiguenAtendidos DEF EnOrden, Atiende
    <3>4. QED
      BY <3>1, <3>2, <3>3, NadaSeMueve
  <2>3. QED
    BY <1>4, <2>1, <2>2 DEF Trabajador
<1>5. CASE Externo
  <2>1. CASE \E u \in Personal : DaSenales(u) \/ DejaDeDarSenales(u)
    <3>1. UNCHANGED <<pedidos, ventanillas, peticiones, barrido>>
      BY <2>1 DEF DaSenales, DejaDeDarSenales
    <3>2. SinEntrar'
      BY <3>1 DEF Sentados, SinEntrar
    <3>3. EnOrden => AtendidoConVentanilla' /\ BarridoVale'
      BY <3>1, SiguenAtendidos DEF EnOrden, Atiende, BarridoVale
    <3>4. QED
      BY <3>1, <3>2, <3>3, NadaSeMueve DEF Sentados
  <2>2. ASSUME NEW p \in Pedidos, EntraACaja(p) \/ SaleDeCaja(p) \/ CambiaPago(p) PROVE Bien
    <3>1. /\ UNCHANGED <<ventanillas, peticiones, barrido>>
          /\ \A q \in Pedidos : q # p => pedidos'[q] = pedidos[q]
      BY <2>2 DEF EntraACaja, SaleDeCaja, CambiaPago, Tipos
    <3>2. /\ pedidos'[p].cajero \in {pedidos[p].cajero, NADIE}
          /\ pedidos'[p].estado # "TIENDA"
          /\ \/ pedidos'[p].estado = "FUERA"
             \/ pedidos[p].estado = "TIENDA" /\ pedidos'[p].cajero = pedidos[p].cajero
             \/ pedidos'[p].estado = pedidos[p].estado
      <4>1. pedidos[p] \in Filas
        BY DEF Tipos
      <4>2. QED
        BY <2>2, <4>1 DEF EntraACaja, SaleDeCaja, CambiaPago, Tipos, Filas
    <3>3. SinEntrar'
      BY <3>1, <3>2 DEF Sentados, SinEntrar
    <3>4. EnOrden => AtendidoConVentanilla'
      BY <3>1, <3>2, SiguenAtendidos, PersonalAssumption DEF EnOrden, Atiende, Sentados, SinEntrar
    <3>5. EnOrden => BarridoVale'
      BY <3>1 DEF EnOrden, BarridoVale
    <3>6. QED
      BY <3>1, <3>3, <3>4, <3>5, NadaSeMueve DEF Sentados
  <2>3. QED
    BY <1>5, <2>1, <2>2 DEF Externo
<1>6. CASE UNCHANGED vars
  <2>1. UNCHANGED <<pedidos, ventanillas, peticiones, barrido>>
    BY <1>6 DEF vars
  <2>2. SinEntrar'
    BY <2>1 DEF Sentados, SinEntrar
  <2>3. EnOrden => AtendidoConVentanilla' /\ BarridoVale'
    BY <2>1, SiguenAtendidos DEF EnOrden, Atiende, BarridoVale
  <2>4. QED
    BY <2>1, <2>2, <2>3, NadaSeMueve DEF Sentados
<1>7. QED
  BY <1>1, <1>2, <1>3, <1>4, <1>5, <1>6 DEF Next

\* Nobody sits, nobody asks and nothing is swept.
LEMMA SentadosAlEmpezar == MCInit => MCInv
<1> SUFFICES ASSUME MCInit PROVE MCInv
  OBVIOUS
<1>1. Tipos
  BY TiposAlEmpezar DEF MCInit
<1>2. Sentados
  BY PersonalAssumption, LibreNoPide
     DEF MCInit, Init, Sentados, EnSuTienda, SinEntrar, SinBarrido, Barridos, OpereEn, Personal
<1>3. EnOrden
  BY PersonalAssumption, LibreNoPide
     DEF MCInit, Init, EnOrden, Solapado, EnVuelo, SinBarrido, AtendidoConVentanilla, Atiende,
         BarridoVale
<1>4. QED
  BY <1>1, <1>2, <1>3 DEF MCInv

\* A cashier is only ever at a window of their store, whoever overlaps: the
\* store is checked when the window is read and it never changes.
THEOREM CadaQuienEnSuTienda == Spec => []EnSuTienda
<1>1. Init => Tipos /\ Sentados
  BY TiposAlEmpezar, PersonalAssumption, LibreNoPide
     DEF Init, Sentados, EnSuTienda, SinEntrar, SinBarrido, Barridos, OpereEn, Personal
<1>2. Tipos /\ Sentados /\ [Next]_vars => (Tipos /\ Sentados)'
  BY PasoBien, PasoSentado DEF Bien
<1>3. Sentados => EnSuTienda
  BY DEF Sentados
<1>4. QED
  BY <1>1, <1>2, <1>3, PTL DEF Spec

\* The invariant of one request at a time: what it read of its window and of
\* its user is still so when it writes, and so is what the sweep read.
THEOREM InvarianciaEnOrden == MCSpec => []MCInv
<1>1. MCInv /\ [MCNext]_<<vars, solapo>> => MCInv'
  <2> SUFFICES ASSUME MCInv, [MCNext]_<<vars, solapo>> PROVE MCInv'
    OBVIOUS
  <2>1. [Next]_vars
    BY DEF MCNext
  <2>2. Tipos' /\ Bien
    BY <2>1, PasoBien, PasoSentado DEF MCInv
  <2>3. CASE MCNext
    BY <2>2, <2>3 DEF MCNext, MCInv, Bien
  <2>4. CASE UNCHANGED <<vars, solapo>>
    <3>1. ~Solapado => ~Solapado'
      BY <2>4 DEF vars, Solapado, EnVuelo
    <3>2. QED
      BY <2>2, <2>4, <3>1 DEF MCInv, Bien, EnOrden
  <2>5. QED
    BY <2>3, <2>4
<1>2. QED
  BY SentadosAlEmpezar, <1>1, PTL DEF MCSpec

\* While no two actors overlap, no customer is assigned to a cashier without a
\* window in the store: whoever gives one up, loses it, moves or is swept away
\* gives their orders back, for any number of them.
THEOREM NadieSinVentanilla == MCSpec => []AtendidoConVentanillaSiNadieCoincide
<1>1. MCInv => AtendidoConVentanillaSiNadieCoincide
  BY DEF MCInv, EnOrden, AtendidoConVentanillaSiNadieCoincide
<1>2. QED
  BY InvarianciaEnOrden, <1>1, PTL
=============================================================================
