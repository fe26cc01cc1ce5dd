---------------------------- MODULE PiezasProofs ----------------------------
(***************************************************************************)
(* Proofs about the pieces of an order, for any number of lines, prices    *)
(* and pieces.                                                             *)
(*                                                                         *)
(* LaBolsaCuadra needs to know of each line that nothing was taken out of  *)
(* the bag that the line still counts on (Sana): it is what makes raising, *)
(* lowering, cancelling and restoring a line, in any order, keep count of  *)
(* the pieces; that a bag with more than the customer takes is opened      *)
(* follows from it.  LaPropuestaSeCumple needs that the lines have not     *)
(* moved since the proposal was calculated (Fiel), and that two sums of    *)
(* the same amounts are equal, which is proved by induction on finite      *)
(* sets.  Both hold with everything that may happen between the two steps  *)
(* of a request.                                                           *)
(*                                                                         *)
(* The last two, the list and what is charged, are of MCSpec and hold      *)
(* while nothing has changed under a request (EnOrden).                    *)
(***************************************************************************)
EXTENDS MCPiezas, FiniteSetTheorems, TLAPS

\* What every operator of Lineas assumes of a line and leaves true of it.
Sana(it) ==
    /\ it \in Linea
    /\ it.retiradas <= PiezasFueraDeLaBolsa(it)
    /\ it.estado = "NO_DISPONIBLE" => it.surtida = 0
    /\ it.estado = "PARCIAL" /\ ~it.cancelada => it.surtida <= it.cantidad

Sanas(ls) ==
    /\ DOMAIN ls \subseteq Variantes
    /\ ls = [v \in DOMAIN ls |-> ls[v]]
    /\ \A v \in DOMAIN ls : Sana(ls[v])

\* The pieces in the bag according to some lines.
EnBolsaSegun(ls) ==
    [v \in Variantes |-> IF v \in DOMAIN ls THEN PiezasEnLaBolsa(ls[v]) ELSE 0]

TiposDeCambio == {"agregado", "completo", "parcial", "no-disponible"}

\* A proposal of sales adds exactly the lines that the order does not have.
PropuestaVigente ==
    Pendiente("VENTAS") =>
        /\ DOMAIN propuesta.cambios \subseteq Variantes
        /\ \A v \in DOMAIN propuesta.cambios :
              /\ propuesta.cambios[v].tipo \in TiposDeCambio
              /\ propuesta.cambios[v].n \in Nat
              /\ propuesta.cambios[v].tipo = "agregado" <=> v \notin DOMAIN lineas

AccionesDeItem == {"agregado", "parcial", "reponer", "no-disponible"}

PeticionBien(p) ==
    p.op = "AJUSTAR" =>
        /\ DOMAIN p.cambios \subseteq Variantes
        /\ \A v \in DOMAIN p.cambios : p.cambios[v].accion \in AccionesDeItem /\ p.cambios[v].n \in Nat
        /\ p.destino \in {"EN_REVISION", "REVISADO"}

IInv ==
    /\ Sanas(lineas)
    /\ LaBolsaCuadra
    /\ PropuestaVigente
    /\ PeticionBien(peticion)

-----------------------------------------------------------------------------
(* One line.                                                               *)

\* The fields of a line that count pieces are naturals.
LEMMA Cuentan ==
    ASSUME NEW it \in Linea
    PROVE  /\ it.cantidad \in Nat /\ it.surtida \in Nat /\ it.retiradas \in Nat
           /\ it.cancelada \in BOOLEAN
  BY DEF Linea

\* A sound line has its pieces, and the subtraction loses nothing.
LEMMA PiezasDeLinea ==
    ASSUME NEW it, Sana(it)
    PROVE  /\ PiezasEnLaBolsa(it) \in Nat
           /\ PiezasEnLaBolsa(it) = it.surtida - it.retiradas
           /\ it.retiradas <= it.surtida
           /\ PiezasFueraDeLaBolsa(it) \in Nat
           /\ PiezasPendientesDeRetiro(it) \in Nat
           /\ PiezasPendientesDeRetiro(it) <= PiezasEnLaBolsa(it)
  BY Cuentan DEF Sana, PiezasEnLaBolsa, PiezasFueraDeLaBolsa, PiezasPendientesDeRetiro, Resta

\* The price of a line says nothing of its pieces.
LEMMA PrecioAparte ==
    ASSUME NEW it, Sana(it), NEW n \in Nat
    PROVE  /\ Sana([it EXCEPT !.precio = n])
           /\ PiezasEnLaBolsa([it EXCEPT !.precio = n]) = PiezasEnLaBolsa(it)
<1> DEFINE m == [it EXCEPT !.precio = n]
<1>1. /\ m \in Linea
      /\ m.cantidad = it.cantidad /\ m.surtida = it.surtida /\ m.retiradas = it.retiradas
      /\ m.estado = it.estado /\ m.cancelada = it.cancelada
  BY DEF Sana, Linea
<1> HIDE DEF m
<1>2. Sana(m) /\ PiezasEnLaBolsa(m) = PiezasEnLaBolsa(it)
  BY <1>1 DEF Sana, PiezasEnLaBolsa, PiezasFueraDeLaBolsa
<1>3. QED
  BY <1>2 DEF m

\* ajuste-cantidad.util: whatever quantity is asked for, no piece of the bag
\* is lost or invented.
LEMMA AjusteConserva ==
    ASSUME NEW it, Sana(it), NEW n \in Nat
    PROVE  /\ Sana(CalcularAjusteDeCantidad(it, n))
           /\ PiezasEnLaBolsa(CalcularAjusteDeCantidad(it, n)) = PiezasEnLaBolsa(it)
<1> DEFINE m == CalcularAjusteDeCantidad(it, n)
           q == PiezasEnLaBolsa(it)
<1>1. q \in Nat /\ q = it.surtida - it.retiradas /\ it.retiradas <= it.surtida
  BY PiezasDeLinea
<1>2. it \in Linea
  BY DEF Sana
<1> HIDE DEF q
<1>3. CASE n > q
  <2>1. m = [it EXCEPT !.cantidad = n, !.estado = "PENDIENTE", !.surtida = q,
                       !.retiradas = 0, !.base = q]
    BY <1>3 DEF CalcularAjusteDeCantidad, SubeLaCantidad, q
  <2> HIDE DEF m
  <2>2. m \in Linea
    BY <2>1, <1>1, <1>2 DEF Linea, EstadoSurtido
  <2>3. /\ m \in Linea /\ m.surtida = q /\ m.retiradas = 0 /\ m.estado = "PENDIENTE"
    BY <2>1, <2>2, <1>2 DEF Linea
  <2>4. Sana(m) /\ PiezasEnLaBolsa(m) = q
    BY <2>3, <1>1, Cuentan DEF Sana, PiezasEnLaBolsa, PiezasFueraDeLaBolsa, Resta
  <2>5. QED
    BY <2>4 DEF m, q
<1>4. CASE ~(n > q)
  <2>1. m = [it EXCEPT !.cantidad = n, !.estado = "COMPLETO", !.base = 0]
    BY <1>4 DEF CalcularAjusteDeCantidad, SubeLaCantidad, q
  <2> HIDE DEF m
  <2>2. /\ m \in Linea /\ m.surtida = it.surtida /\ m.retiradas = it.retiradas
        /\ m.estado = "COMPLETO" /\ m.cantidad = n
    BY <2>1, <1>2 DEF Linea, EstadoSurtido
  <2>3. Sana(m) /\ PiezasEnLaBolsa(m) = q
    BY <2>2, <1>1, <1>2, <1>4, Cuentan
       DEF Sana, PiezasEnLaBolsa, PiezasFueraDeLaBolsa, Resta
  <2>4. QED
    BY <2>3 DEF m, q
<1>5. QED
  BY <1>3, <1>4

\* cancelacion-linea.util: a cancelled line keeps what is in the bag.
LEMMA RetiroConserva ==
    ASSUME NEW it, Sana(it)
    PROVE  /\ Sana(DatosDeRetiroPorDecision(it))
           /\ PiezasEnLaBolsa(DatosDeRetiroPorDecision(it)) = PiezasEnLaBolsa(it)
<1> DEFINE m == DatosDeRetiroPorDecision(it)
<1>1. /\ m \in Linea /\ m.surtida = it.surtida /\ m.retiradas = it.retiradas
      /\ m.estado = it.estado /\ m.cancelada
  BY DEF DatosDeRetiroPorDecision, Sana, Linea
<1> HIDE DEF m
<1>2. Sana(m) /\ PiezasEnLaBolsa(m) = PiezasEnLaBolsa(it)
  BY <1>1, PiezasDeLinea DEF Sana, PiezasEnLaBolsa, PiezasFueraDeLaBolsa
<1>3. QED
  BY <1>2 DEF m

\* Only a line without pieces is cancelled for lack of them.
LEMMA FaltaConserva ==
    ASSUME NEW it, Sana(it), SeCancelaPorFalta(it)
    PROVE  /\ Sana(DatosDeFaltaDeBodega(it))
           /\ PiezasEnLaBolsa(DatosDeFaltaDeBodega(it)) = PiezasEnLaBolsa(it)
<1> DEFINE m == DatosDeFaltaDeBodega(it)
<1>1. /\ m \in Linea /\ m.surtida = 0 /\ m.retiradas = it.retiradas
      /\ m.estado = "NO_DISPONIBLE" /\ m.cancelada
  BY DEF DatosDeFaltaDeBodega, Sana, Linea, EstadoSurtido
<1>2. it.surtida = 0
  BY DEF SeCancelaPorFalta, Sana
<1> HIDE DEF m
<1>3. it.retiradas = 0
  BY <1>2, PiezasDeLinea, Cuentan DEF Sana
<1>4. Sana(m) /\ PiezasEnLaBolsa(m) = PiezasEnLaBolsa(it)
  BY <1>1, <1>2, <1>3 DEF Sana, PiezasEnLaBolsa, PiezasFueraDeLaBolsa
<1>5. QED
  BY <1>4 DEF m

\* A line is put back only when it has nothing in the bag.
LEMMA ReposicionConserva ==
    ASSUME NEW it, Sana(it), SePuedeReponer(it), NEW n \in Nat
    PROVE  /\ Sana(DatosDeReposicion(it, n))
           /\ PiezasEnLaBolsa(DatosDeReposicion(it, n)) = PiezasEnLaBolsa(it)
<1> DEFINE m == DatosDeReposicion(it, n)
<1>1. /\ m \in Linea /\ m.surtida = 0 /\ m.retiradas = 0 /\ m.estado = "PENDIENTE"
  BY DEF DatosDeReposicion, Sana, Linea, EstadoSurtido
<1>2. it.surtida = 0
  BY DEF SePuedeReponer
<1> HIDE DEF m
<1>3. it.retiradas = 0
  BY <1>2, PiezasDeLinea, Cuentan DEF Sana
<1>4. Sana(m) /\ PiezasEnLaBolsa(m) = PiezasEnLaBolsa(it)
  BY <1>1, <1>2, <1>3, Cuentan DEF Sana, PiezasEnLaBolsa, PiezasFueraDeLaBolsa, Resta
<1>5. QED
  BY <1>4 DEF m

\* A partial line is charged for what was found.
LEMMA ParcialConserva ==
    ASSUME NEW it, Sana(it), it.estado = "PARCIAL", ~it.cancelada
    PROVE  LET m == [it EXCEPT !.cantidad = it.surtida, !.estado = "COMPLETO"]
           IN  Sana(m) /\ PiezasEnLaBolsa(m) = PiezasEnLaBolsa(it)
<1> DEFINE m == [it EXCEPT !.cantidad = it.surtida, !.estado = "COMPLETO"]
<1>1. /\ m \in Linea /\ m.surtida = it.surtida /\ m.retiradas = it.retiradas
      /\ m.estado = "COMPLETO" /\ ~m.cancelada
  BY DEF Sana, Linea, EstadoSurtido
<1> HIDE DEF m
<1>2. it.retiradas = 0
  BY Cuentan DEF Sana, PiezasFueraDeLaBolsa, Resta
<1>3. Sana(m) /\ PiezasEnLaBolsa(m) = PiezasEnLaBolsa(it)
  BY <1>1, <1>2, Cuentan DEF Sana, PiezasEnLaBolsa, PiezasFueraDeLaBolsa, Resta
<1>4. QED
  BY <1>3 DEF m

\* A proposal of sales: taking pieces out of the bag is left to the warehouse.
LEMMA LineaAplicada ==
    ASSUME NEW it, Sana(it), NEW c, c.tipo \in TiposDeCambio, c.tipo # "agregado", c.n \in Nat
    PROVE  /\ Sana(AplicarLinea(it, c))
           /\ PiezasEnLaBolsa(AplicarLinea(it, c)) = PiezasEnLaBolsa(it)
<1>1. CASE c.tipo = "completo"
  BY <1>1, FaltaConserva, ParcialConserva DEF AplicarLinea
<1>2. CASE c.tipo = "no-disponible" \/ (c.tipo = "parcial" /\ c.n = 0)
  <2>1. AplicarLinea(it, c) = DatosDeRetiroPorDecision(it)
    BY <1>2 DEF AplicarLinea
  <2>2. QED
    BY <2>1, RetiroConserva
<1>3. CASE c.tipo = "parcial" /\ c.n > 0
  <2>1. AplicarLinea(it, c) = IF SePuedeReponer(it) THEN DatosDeReposicion(it, c.n)
                              ELSE CalcularAjusteDeCantidad(it, c.n)
    BY <1>3 DEF AplicarLinea
  <2>2. QED
    BY <2>1, ReposicionConserva, AjusteConserva
<1>4. QED
  BY <1>1, <1>2, <1>3 DEF TiposDeCambio

\* The adjustment at the counter: what leaves the bag is what it counts.
LEMMA LineaAjustada ==
    ASSUME NEW it, Sana(it), NEW c, c.accion \in AccionesDeItem, c.accion # "agregado",
           c.n \in Nat, c.accion = "reponer" => SePuedeReponer(it)
    PROVE  /\ Sana(AjustarLinea(it, c))
           /\ Quitadas(it, c) \in Nat
           /\ PiezasEnLaBolsa(AjustarLinea(it, c)) = Resta(PiezasEnLaBolsa(it), Quitadas(it, c))
<1>1. CASE c.accion = "no-disponible"
  <2> DEFINE m == DatosDeRetiroPorDecision(it)
             k == [m EXCEPT !.retiradas = @ + PiezasEnLaBolsa(it)]
  <2>1. AjustarLinea(it, c) = k /\ Quitadas(it, c) = PiezasEnLaBolsa(it)
    BY <1>1 DEF AjustarLinea, Quitadas
  <2>2. PiezasEnLaBolsa(it) \in Nat /\ it \in Linea
    BY PiezasDeLinea DEF Sana
  <2>3. m \in Linea /\ m.surtida = it.surtida /\ m.cancelada /\ m.estado = it.estado
        /\ m.retiradas = it.retiradas
    BY <2>2 DEF DatosDeRetiroPorDecision, Linea
  <2> HIDE DEF m
  <2>4. /\ k \in Linea /\ k.surtida = it.surtida /\ k.cancelada /\ k.estado = it.estado
        /\ k.retiradas = it.retiradas + PiezasEnLaBolsa(it)
    BY <2>2, <2>3 DEF Linea
  <2> HIDE DEF k
  <2>5. k.retiradas = k.surtida
    BY <2>2, <2>4, PiezasDeLinea, Cuentan
  <2>6. Sana(k) /\ PiezasEnLaBolsa(k) = 0
    BY <2>4, <2>5, Cuentan DEF Sana, PiezasEnLaBolsa, PiezasFueraDeLaBolsa, Resta
  <2>7. Resta(PiezasEnLaBolsa(it), PiezasEnLaBolsa(it)) = 0
    BY <2>2 DEF Resta
  <2>8. QED
    BY <2>1, <2>2, <2>6, <2>7
<1>2. CASE c.accion = "parcial"
  <2> DEFINE n == c.n
             m == CalcularAjusteDeCantidad(it, n)
             q == PiezasSobrantes(it, n)
             k == [m EXCEPT !.retiradas = @ + q]
  <2>1. AjustarLinea(it, c) = k /\ Quitadas(it, c) = q
    BY <1>2 DEF AjustarLinea, Quitadas
  <2>2. Sana(m) /\ PiezasEnLaBolsa(m) = PiezasEnLaBolsa(it)
    BY AjusteConserva
  <2>3. q \in Nat /\ PiezasEnLaBolsa(it) \in Nat
    BY PiezasDeLinea DEF PiezasSobrantes, Resta
  <2>4. m.cantidad = n
    BY DEF CalcularAjusteDeCantidad, Sana, Linea
  <2>5. q # 0 => m.estado = "COMPLETO"
    BY <2>3 DEF CalcularAjusteDeCantidad, Sana, Linea, SubeLaCantidad, PiezasSobrantes, Resta
  <2> HIDE DEF m
  <2>6. /\ k \in Linea /\ k.surtida = m.surtida /\ k.cancelada = m.cancelada
        /\ k.estado = m.estado /\ k.cantidad = m.cantidad /\ k.retiradas = m.retiradas + q
    BY <2>2, <2>3 DEF Sana, Linea
  <2> HIDE DEF k
  <2>7. PiezasEnLaBolsa(m) = m.surtida - m.retiradas /\ m.retiradas <= m.surtida
    BY <2>2, PiezasDeLinea
  <2>8. CASE q = 0
    <3>1. k.retiradas = m.retiradas
      BY <2>2, <2>6, <2>8, Cuentan DEF Sana
    <3>2. Sana(k) /\ PiezasEnLaBolsa(k) = PiezasEnLaBolsa(it)
      BY <3>1, <2>2, <2>6 DEF Sana, PiezasEnLaBolsa, PiezasFueraDeLaBolsa
    <3>3. Resta(PiezasEnLaBolsa(it), q) = PiezasEnLaBolsa(it)
      BY <2>3, <2>8 DEF Resta
    <3>4. QED
      BY <2>1, <2>3, <3>2, <3>3
  <2>9. CASE q # 0
    <3>1. q = PiezasEnLaBolsa(it) - n /\ n <= PiezasEnLaBolsa(it)
      BY <2>3, <2>9 DEF PiezasSobrantes, Resta
    <3>2. k.retiradas = k.surtida - n /\ n <= k.surtida
      BY <3>1, <2>2, <2>6, <2>7, Cuentan DEF Sana
    <3>3. Sana(k) /\ PiezasEnLaBolsa(k) = n
      BY <3>2, <2>4, <2>5, <2>6, <2>9, Cuentan
         DEF Sana, PiezasEnLaBolsa, PiezasFueraDeLaBolsa, Resta
    <3>4. Resta(PiezasEnLaBolsa(it), q) = n
      BY <3>1, <2>3, <2>9 DEF Resta
    <3>5. QED
      BY <2>1, <2>3, <3>3, <3>4
  <2>10. QED
    BY <2>8, <2>9
<1>3. CASE c.accion = "reponer"
  <2>1. AjustarLinea(it, c) = DatosDeReposicion(it, c.n) /\ Quitadas(it, c) = 0
    BY <1>3 DEF AjustarLinea, Quitadas
  <2>2. QED
    BY <2>1, <1>3, ReposicionConserva, PiezasDeLinea DEF Resta
<1>4. QED
  BY <1>1, <1>2, <1>3 DEF AccionesDeItem

\* The checklist that closes a picking: the line forgets what it takes out.
LEMMA LineaRetirada ==
    ASSUME NEW it, Sana(it)
    PROVE  /\ Sana(Retirar(it))
           /\ PiezasEnLaBolsa(Retirar(it)) =
                 Resta(PiezasEnLaBolsa(it), PiezasPendientesDeRetiro(it))
<1> DEFINE m == Retirar(it)
           q == PiezasPendientesDeRetiro(it)
<1>1. /\ it \in Linea /\ q \in Nat
      /\ q = PiezasFueraDeLaBolsa(it) - it.retiradas
  BY PiezasDeLinea, Cuentan DEF Sana, PiezasPendientesDeRetiro, Resta
<1>2. m = [it EXCEPT !.retiradas = it.retiradas + q, !.base = 0]
  BY DEF Retirar
<1>3. it.retiradas + q = PiezasFueraDeLaBolsa(it) /\ PiezasFueraDeLaBolsa(it) \in Nat
  BY <1>1, PiezasDeLinea, Cuentan
<1> HIDE DEF m, q
<1>4. /\ m \in Linea /\ m.surtida = it.surtida /\ m.cancelada = it.cancelada
      /\ m.estado = it.estado /\ m.cantidad = it.cantidad
      /\ m.retiradas = PiezasFueraDeLaBolsa(it)
  BY <1>1, <1>2, <1>3 DEF Linea
<1>5. PiezasFueraDeLaBolsa(m) = PiezasFueraDeLaBolsa(it)
  BY <1>4 DEF PiezasFueraDeLaBolsa
<1>6. Sana(m)
  BY <1>3, <1>4, <1>5, Cuentan DEF Sana
<1>7. PiezasEnLaBolsa(m) = Resta(PiezasEnLaBolsa(it), q)
  <2>1. /\ PiezasEnLaBolsa(m) = it.surtida - PiezasFueraDeLaBolsa(it)
        /\ PiezasFueraDeLaBolsa(it) <= it.surtida
    BY <1>4, <1>6, PiezasDeLinea
  <2>2. PiezasEnLaBolsa(it) = it.surtida - it.retiradas
    BY PiezasDeLinea
  <2>3. QED
    BY <2>1, <2>2, <1>1, <1>3, Cuentan DEF Resta
<1>8. QED
  BY <1>6, <1>7 DEF m, q

\* A line that is added has nothing in the bag.
LEMMA LineaNueva ==
    ASSUME NEW v \in Variantes, NEW n \in Nat
    PROVE  /\ Sana(ConstruirItemPedido(v, n))
           /\ PiezasEnLaBolsa(ConstruirItemPedido(v, n)) = 0
  BY PreciosAssumption DEF ConstruirItemPedido, Sana, Linea, EstadoSurtido, PiezasEnLaBolsa,
         PiezasFueraDeLaBolsa, Resta

\* Marking: a piece found is a piece more in the bag.
LEMMA LineaMarcada ==
    ASSUME NEW it, Sana(it), NEW e \in EstadoSurtido, NEW n \in Nat,
           MarcaCoherente(e, n), SePuedeMarcar(it, n)
    PROVE  LET m == [it EXCEPT !.surtida = n, !.estado = e]
           IN  Sana(m) /\ PiezasEnLaBolsa(m) = PiezasEnLaBolsa(it) + n - it.surtida
<1> DEFINE m == [it EXCEPT !.surtida = n, !.estado = e]
<1>1. it \in Linea
  BY DEF Sana
<1>2. /\ m \in Linea /\ m.surtida = n /\ m.cancelada = it.cancelada
      /\ m.estado = e /\ m.cantidad = it.cantidad /\ m.retiradas = it.retiradas
  BY <1>1 DEF Linea
<1> HIDE DEF m
<1>3. ~it.cancelada /\ n <= it.cantidad /\ it.retiradas = 0
  BY <1>1, Cuentan, PiezasDeLinea DEF SePuedeMarcar, Sana, PiezasFueraDeLaBolsa, Resta
<1>4. Sana(m)
  BY <1>2, <1>3, Cuentan DEF MarcaCoherente, Sana, PiezasFueraDeLaBolsa, Resta
<1>5. PiezasEnLaBolsa(m) = n /\ PiezasEnLaBolsa(it) = it.surtida
  BY <1>1, <1>2, <1>3, <1>4, Cuentan, PiezasDeLinea
<1>6. PiezasEnLaBolsa(m) = PiezasEnLaBolsa(it) + n - it.surtida
  BY <1>1, <1>5, Cuentan
<1>7. QED
  BY <1>4, <1>6 DEF m

-----------------------------------------------------------------------------
(* Sums.  SumFunctionOnSet adds in the order that CHOOSE picks; what follows *)
(* says of every finite set that the order does not matter.                *)

\* The element that a fold takes next.
Sigue(s) == CHOOSE x \in s : TRUE

\* One step of the sum of f, over a function that has the sums of what is left.
UnPaso(f, g, s) == IF s = {} THEN 0 ELSE f[Sigue(s)] + g[s \ {Sigue(s)}]

\* g has the sums of f over every subset of S.
EsSuma(f, S, g) == g = [s \in SUBSET S |-> UnPaso(f, g, s)]

LEMMA SigueEsta ==
    ASSUME NEW s, s # {}
    PROVE  Sigue(s) \in s
  BY DEF Sigue

\* Induction over the subsets of a finite set: a set of counterexamples has a
\* smallest one.
LEMMA ElMasChico ==
    ASSUME NEW S, IsFiniteSet(S), NEW B, B \subseteq SUBSET S, B # {}
    PROVE  \E s \in B : \A t \in B : t \subseteq s => t = s
<1>1. FiniteSubsetsOf(S) = SUBSET S
  BY FS_FiniteSubsetsOfFinite
<1>2. IsWellFoundedOn(StrictSubsetOrdering(S), SUBSET S)
  BY <1>1, FS_StrictSubsetOrderingWellFounded
<1>3. PICK s \in B : \A t \in B : ~(<<t, s>> \in StrictSubsetOrdering(S))
  BY <1>2, WFMin
<1>4. ASSUME NEW t \in B, t \subseteq s PROVE t = s
  BY <1>3, <1>4 DEF StrictSubsetOrdering
<1>5. QED
  BY <1>4

\* The sums of the subsets with few elements, and of those with one more.
LEMMA HaySumaHasta ==
    ASSUME NEW f, NEW S, IsFiniteSet(S)
    PROVE  \A n \in Nat : \E g : \A s \in SUBSET S : Cardinality(s) <= n => g[s] = UnPaso(f, g, s)
<1> DEFINE Hasta(n, g) == \A s \in SUBSET S : Cardinality(s) <= n => g[s] = UnPaso(f, g, s)
           B == {n \in Nat : ~ \E g : Hasta(n, g)}
<1> SUFFICES ASSUME B # {} PROVE FALSE
  OBVIOUS
<1>1. PICK n \in B : \A m \in B : ~(m < n)
  <2>1. PICK n \in B : \A m \in B : ~(<<m, n>> \in OpToRel(<, Nat))
    BY NatLessThanWellFounded, WFMin
  <2>2. QED
    BY <2>1 DEF OpToRel
<1>2. \A s \in SUBSET S : IsFiniteSet(s) /\ Cardinality(s) \in Nat
  BY FS_Subset, FS_CardinalityType
<1>3. CASE n = 0
  <2> DEFINE g == [s \in SUBSET S |-> 0]
  <2>1. ASSUME NEW s \in SUBSET S, Cardinality(s) <= 0 PROVE g[s] = UnPaso(f, g, s)
    <3>1. s = {}
      BY <1>2, <2>1, FS_EmptySet
    <3>2. QED
      BY <3>1 DEF UnPaso
  <2> HIDE DEF g
  <2>2. Hasta(0, g)
    BY <2>1
  <2>3. QED
    BY <1>3, <2>2
<1>4. CASE n # 0
  <2>1. n - 1 \in Nat /\ n - 1 \notin B
    BY <1>1, <1>4
  <2>2. PICK g : Hasta(n - 1, g)
    BY <2>1
  <2> DEFINE h == [s \in SUBSET S |-> UnPaso(f, g, s)]
  <2>3. ASSUME NEW s \in SUBSET S, Cardinality(s) <= n PROVE h[s] = UnPaso(f, h, s)
    <3>1. CASE s = {}
      BY <3>1 DEF UnPaso
    <3>2. CASE s # {}
      <4> DEFINE r == s \ {Sigue(s)}
      <4>1. r \in SUBSET S /\ Cardinality(r) = Cardinality(s) - 1
        BY <3>2, <1>2, SigueEsta, FS_RemoveElement
      <4>2. Cardinality(r) <= n - 1
        BY <4>1, <1>2, <2>3
      <4>3. g[r] = UnPaso(f, g, r)
        BY <4>1, <4>2, <2>2
      <4>4. h[r] = g[r]
        BY <4>1, <4>3
      <4>5. h[s] = f[Sigue(s)] + g[r]
        BY <3>2 DEF UnPaso
      <4> HIDE DEF h
      <4>6. QED
        BY <3>2, <4>4, <4>5 DEF UnPaso
    <3>3. QED
      BY <3>1, <3>2
  <2> HIDE DEF h
  <2>4. Hasta(n, h)
    BY <2>3
  <2>5. QED
    BY <2>4
<1>5. QED
  BY <1>3, <1>4

\* A finite set has a sum.
LEMMA HaySuma ==
    ASSUME NEW f, NEW S, IsFiniteSet(S)
    PROVE  \E g : EsSuma(f, S, g)
<1>1. Cardinality(S) \in Nat
  BY FS_CardinalityType
<1>2. PICK g : \A s \in SUBSET S : Cardinality(s) <= Cardinality(S) => g[s] = UnPaso(f, g, s)
  BY <1>1, HaySumaHasta
<1>3. \A s \in SUBSET S : g[s] = UnPaso(f, g, s)
  BY <1>2, FS_Subset
<1> DEFINE h == [s \in SUBSET S |-> g[s]]
<1>4. ASSUME NEW s \in SUBSET S PROVE h[s] = UnPaso(f, h, s)
  <2>1. s \ {Sigue(s)} \in SUBSET S
    OBVIOUS
  <2>2. QED
    BY <1>3, <2>1 DEF UnPaso
<1>5. h = [s \in SUBSET S |-> h[s]]
  OBVIOUS
<1> HIDE DEF h
<1>6. h = [s \in SUBSET S |-> UnPaso(f, h, s)]
  BY <1>4, <1>5
<1>7. QED
  BY <1>6 DEF EsSuma

\* SumFunctionOnSet is that sum.
LEMMA LaSuma ==
    ASSUME NEW f, NEW S, IsFiniteSet(S)
    PROVE  \E g : EsSuma(f, S, g) /\ SumFunctionOnSet(f, S) = g[S]
<1> DEFINE it == CHOOSE iter : iter = [s \in SUBSET S |->
                     IF s = {} THEN 0
                     ELSE f[CHOOSE x \in s : TRUE] + iter[s \ {CHOOSE x \in s : TRUE}]]
<1>1. SumFunctionOnSet(f, S) = it[S]
  BY DEF SumFunctionOnSet, FoldFunctionOnSet, MapThenFoldSet
<1>2. \E iter : iter = [s \in SUBSET S |->
                     IF s = {} THEN 0
                     ELSE f[CHOOSE x \in s : TRUE] + iter[s \ {CHOOSE x \in s : TRUE}]]
  <2>1. PICK g : EsSuma(f, S, g)
    BY HaySuma
  <2>2. g = [s \in SUBSET S |->
               IF s = {} THEN 0
               ELSE f[CHOOSE x \in s : TRUE] + g[s \ {CHOOSE x \in s : TRUE}]]
    BY <2>1, Zenon DEF EsSuma, UnPaso, Sigue
  <2>3. QED
    BY <2>2, Zenon
<1>3. it = [s \in SUBSET S |->
              IF s = {} THEN 0
              ELSE f[CHOOSE x \in s : TRUE] + it[s \ {CHOOSE x \in s : TRUE}]]
  BY <1>2, Zenon
<1> HIDE DEF it
<1>4. EsSuma(f, S, it)
  BY <1>3, Zenon DEF EsSuma, UnPaso, Sigue
<1>5. QED
  BY <1>1, <1>4

\* The sum over a subset is the one the fold of the whole set has for it.
LEMMA SumaDeParte ==
    ASSUME NEW f, NEW S, IsFiniteSet(S), NEW g, EsSuma(f, S, g), NEW T \in SUBSET S
    PROVE  SumFunctionOnSet(f, T) = g[T]
<1>1. IsFiniteSet(T)
  BY FS_Subset
<1>2. PICK h : EsSuma(f, T, h) /\ SumFunctionOnSet(f, T) = h[T]
  BY <1>1, LaSuma
<1> DEFINE B == {s \in SUBSET T : h[s] # g[s]}
<1>3. ASSUME B # {} PROVE FALSE
  <2>0. B \subseteq SUBSET T
    OBVIOUS
  <2> HIDE DEF B
  <2>1. PICK s \in B : \A t \in B : t \subseteq s => t = s
    BY <2>0, <1>1, <1>3, ElMasChico
  <2> USE DEF B
  <2>2. h[s] = UnPaso(f, h, s) /\ g[s] = UnPaso(f, g, s)
    BY <1>2, <2>1 DEF EsSuma
  <2>3. CASE s = {}
    BY <2>1, <2>2, <2>3 DEF UnPaso
  <2>4. CASE s # {}
    <3>1. s \ {Sigue(s)} \in SUBSET T /\ s \ {Sigue(s)} # s /\ s \ {Sigue(s)} \subseteq s
      BY <2>1, <2>4, SigueEsta
    <3>2. h[s \ {Sigue(s)}] = g[s \ {Sigue(s)}]
      BY <2>1, <3>1
    <3>3. QED
      BY <2>1, <2>2, <2>4, <3>2 DEF UnPaso
  <2>5. QED
    BY <2>3, <2>4
<1>4. QED
  BY <1>2, <1>3

\* The sum of the empty set, and what the fold does with the rest.
LEMMA SumaPorPasos ==
    ASSUME NEW f, NEW S, IsFiniteSet(S)
    PROVE  SumFunctionOnSet(f, S) = IF S = {} THEN 0
                                    ELSE f[Sigue(S)] + SumFunctionOnSet(f, S \ {Sigue(S)})
<1>1. PICK g : EsSuma(f, S, g) /\ SumFunctionOnSet(f, S) = g[S]
  BY LaSuma
<1>2. g[S] = UnPaso(f, g, S)
  BY <1>1 DEF EsSuma
<1>3. SumFunctionOnSet(f, S \ {Sigue(S)}) = g[S \ {Sigue(S)}]
  BY <1>1, SumaDeParte
<1>4. QED
  BY <1>1, <1>2, <1>3 DEF UnPaso

\* A sum of naturals is a natural.
LEMMA SumaNatural ==
    ASSUME NEW f, NEW S, IsFiniteSet(S), \A x \in S : f[x] \in Nat
    PROVE  SumFunctionOnSet(f, S) \in Nat
<1> DEFINE B == {s \in SUBSET S : SumFunctionOnSet(f, s) \notin Nat}
<1>1. ASSUME B # {} PROVE FALSE
  <2>0. B \subseteq SUBSET S
    OBVIOUS
  <2> HIDE DEF B
  <2>1. PICK s \in B : \A t \in B : t \subseteq s => t = s
    BY <2>0, <1>1, ElMasChico
  <2> USE DEF B
  <2>2. IsFiniteSet(s)
    BY FS_Subset
  <2>3. s # {}
    <3>1. SumFunctionOnSet(f, {}) = 0
      BY FS_EmptySet, SumaPorPasos
    <3>2. 0 \in Nat /\ SumFunctionOnSet(f, s) \notin Nat
      BY <2>1
    <3>3. QED
      BY <3>1, <3>2, Zenon
  <2>4. s \ {Sigue(s)} \in SUBSET S /\ s \ {Sigue(s)} # s /\ Sigue(s) \in S
    BY <2>3, SigueEsta
  <2>5. SumFunctionOnSet(f, s \ {Sigue(s)}) \in Nat
    BY <2>1, <2>4
  <2>6. SumFunctionOnSet(f, s) = f[Sigue(s)] + SumFunctionOnSet(f, s \ {Sigue(s)})
    BY <2>2, <2>3, SumaPorPasos
  <2>7. QED
    BY <2>1, <2>4, <2>5, <2>6
<1>2. QED
  BY <1>1

\* Any of the elements may be added last.
LEMMA SumaSinUno ==
    ASSUME NEW f, NEW S, IsFiniteSet(S), \A x \in S : f[x] \in Nat, NEW e \in S
    PROVE  SumFunctionOnSet(f, S) = f[e] + SumFunctionOnSet(f, S \ {e})
<1> DEFINE suma == [s \in SUBSET S |-> SumFunctionOnSet(f, s)]
           B == {s \in SUBSET S : \E x \in s : suma[s] # f[x] + suma[s \ {x}]}
<1>0. \A s \in SUBSET S : suma[s] \in Nat
  BY FS_Subset, SumaNatural
<1>1. \A s \in SUBSET S : s # {} => suma[s] = f[Sigue(s)] + suma[s \ {Sigue(s)}]
  BY FS_Subset, SumaPorPasos
<1> HIDE DEF suma
<1>2. ASSUME B # {} PROVE FALSE
  <2>0. B \subseteq SUBSET S
    OBVIOUS
  <2> HIDE DEF B
  <2>1. PICK s \in B : \A t \in B : t \subseteq s => t = s
    BY <2>0, <1>2, ElMasChico
  <2> USE DEF B
  <2>2. PICK x \in s : suma[s] # f[x] + suma[s \ {x}]
    BY <2>1
  <2> DEFINE y == Sigue(s)
  <2>3. y \in s /\ suma[s] = f[y] + suma[s \ {y}]
    BY <1>1, <2>2, SigueEsta
  <2> HIDE DEF y
  <2>4. x # y
    BY <2>2, <2>3
  <2> DEFINE r == s \ {x, y}
  <2>5. /\ s \ {y} \in (SUBSET S) \ B /\ s \ {x} \in (SUBSET S) \ B /\ r \in SUBSET S
        /\ (s \ {y}) \ {x} = r /\ (s \ {x}) \ {y} = r
    BY <2>1, <2>2, <2>3, <2>4
  <2>6. suma[s \ {y}] = f[x] + suma[r]
    BY <2>2, <2>4, <2>5
  <2>7. suma[s \ {x}] = f[y] + suma[r]
    BY <2>3, <2>4, <2>5
  <2>8. f[x] \in Nat /\ f[y] \in Nat /\ suma[r] \in Nat
    BY <1>0, <2>1, <2>2, <2>3, <2>5
  <2>9. QED
    BY <2>2, <2>3, <2>6, <2>7, <2>8
<1>3. S \notin B
  BY <1>2
<1>4. suma[S] = f[e] + suma[S \ {e}]
  BY <1>3
<1>5. QED
  BY <1>4 DEF suma

\* Elements that count nothing do not count, and only the values matter.
LEMMA SumaSinCeros ==
    ASSUME NEW f, NEW g, NEW S, IsFiniteSet(S), NEW T \in SUBSET S,
           \A x \in S : f[x] \in Nat,
           \A x \in T : f[x] = g[x],
           \A x \in S \ T : f[x] = 0
    PROVE  SumFunctionOnSet(f, S) = SumFunctionOnSet(g, T)
<1> DEFINE sumaF == [s \in SUBSET S |-> SumFunctionOnSet(f, s)]
           sumaG == [s \in SUBSET T |-> SumFunctionOnSet(g, s)]
           B == {s \in SUBSET S : sumaF[s] # sumaG[s \cap T]}
<1>1. /\ \A s \in SUBSET S : \A x \in s : sumaF[s] = f[x] + sumaF[s \ {x}]
      /\ \A s \in SUBSET S : sumaF[s] \in Nat
      /\ sumaF[{}] = 0
  <2>1. ASSUME NEW s \in SUBSET S PROVE IsFiniteSet(s)
    BY FS_Subset
  <2>2. ASSUME NEW s \in SUBSET S, NEW x \in s PROVE sumaF[s] = f[x] + sumaF[s \ {x}]
    BY <2>1, SumaSinUno
  <2>3. ASSUME NEW s \in SUBSET S PROVE sumaF[s] \in Nat
    BY <2>1, SumaNatural
  <2>4. sumaF[{}] = 0
    BY <2>1, SumaPorPasos
  <2>5. QED
    BY <2>2, <2>3, <2>4
<1>2. /\ \A s \in SUBSET T : \A x \in s : sumaG[s] = g[x] + sumaG[s \ {x}]
      /\ sumaG[{}] = 0
  <2>1. ASSUME NEW s \in SUBSET T PROVE IsFiniteSet(s) /\ \A x \in s : g[x] \in Nat
    BY FS_Subset
  <2>2. ASSUME NEW s \in SUBSET T, NEW x \in s PROVE sumaG[s] = g[x] + sumaG[s \ {x}]
    BY <2>1, SumaSinUno
  <2>3. sumaG[{}] = 0
    BY <2>1, SumaPorPasos
  <2>4. QED
    BY <2>2, <2>3
<1> HIDE DEF sumaF, sumaG
<1>3. ASSUME B # {} PROVE FALSE
  <2>0. B \subseteq SUBSET S
    OBVIOUS
  <2> HIDE DEF B
  <2>1. PICK s \in B : \A t \in B : t \subseteq s => t = s
    BY <2>0, <1>3, ElMasChico
  <2> USE DEF B
  <2>2. PICK x \in s : TRUE
    <3>1. s # {}
      BY <1>1, <1>2, <2>1
    <3>2. QED
      BY <3>1
  <2>3. sumaF[s \ {x}] = sumaG[(s \ {x}) \cap T]
    BY <2>1, <2>2
  <2>4. sumaF[s] = f[x] + sumaF[s \ {x}] /\ sumaF[s \ {x}] \in Nat
    BY <1>1, <2>1, <2>2
  <2>5. CASE x \in T
    <3>1. (s \cap T) \ {x} = (s \ {x}) \cap T
      OBVIOUS
    <3>2. sumaG[s \cap T] = g[x] + sumaG[(s \cap T) \ {x}]
      BY <1>2, <2>2, <2>5
    <3>3. QED
      BY <2>1, <2>3, <2>4, <2>5, <3>1, <3>2
  <2>6. CASE x \notin T
    <3>1. s \cap T = (s \ {x}) \cap T
      BY <2>6
    <3>2. f[x] = 0
      BY <2>1, <2>2, <2>6
    <3>3. sumaF[s] = sumaF[s \ {x}]
      BY <2>4, <3>2
    <3>4. QED
      BY <2>1, <2>3, <3>1, <3>3
  <2>7. QED
    BY <2>5, <2>6
<1>4. S \cap T = T /\ S \notin B
  BY <1>3
<1>5. sumaF[S] = sumaG[T]
  BY <1>4
<1>6. QED
  BY <1>5 DEF sumaF, sumaG

-----------------------------------------------------------------------------
(* All the lines of an order.                                              *)

\* The promotion only moves prices.
LEMMA PromoConserva ==
    ASSUME NEW ls, Sanas(ls)
    PROVE  LET m == AplicarPromoVolumen(ls)
           IN  /\ Sanas(m)
               /\ DOMAIN m = DOMAIN ls
               /\ EnBolsaSegun(m) = EnBolsaSegun(ls)
<1>1. CASE Activas(ls) \cap SinPar # {}
  BY <1>1 DEF AplicarPromoVolumen
<1>2. CASE Activas(ls) \cap SinPar = {}
  <2> DEFINE piezas == SumFunction([v \in Activas(ls) |-> ls[v].cantidad])
             nueva(v) == IF v \in Activas(ls)
                         THEN [ls[v] EXCEPT !.precio = PrecioConPromoVolumen(v, piezas)]
                         ELSE ls[v]
  <2>1. AplicarPromoVolumen(ls) = [v \in DOMAIN ls |-> nueva(v)]
    BY <1>2 DEF AplicarPromoVolumen
  <2>2. ASSUME NEW v \in DOMAIN ls
        PROVE  Sana(nueva(v)) /\ PiezasEnLaBolsa(nueva(v)) = PiezasEnLaBolsa(ls[v])
    <3>1. PrecioConPromoVolumen(v, piezas) \in Nat
      BY PreciosAssumption DEF PrecioConPromoVolumen, Sanas
    <3>2. QED
      BY <3>1, PrecioAparte DEF Sanas
  <2> HIDE DEF nueva
  <2>3. QED
    BY <2>1, <2>2 DEF Sanas, EnBolsaSegun
<1>3. QED
  BY <1>1, <1>2

\* Closing a picking: what was not found leaves the order, not the bag.
LEMMA CambiosFisicosConservan ==
    ASSUME NEW ls, Sanas(ls)
    PROVE  LET m == AplicarCambiosFisicos(ls)
           IN  /\ Sanas(m)
               /\ DOMAIN m = DOMAIN ls
               /\ EnBolsaSegun(m) = EnBolsaSegun(ls)
<1> DEFINE m == AplicarCambiosFisicos(ls)
<1>1. DOMAIN m = DOMAIN ls /\ m = [v \in DOMAIN m |-> m[v]]
  BY DEF AplicarCambiosFisicos
<1>2. ASSUME NEW v \in DOMAIN ls
      PROVE  Sana(m[v]) /\ PiezasEnLaBolsa(m[v]) = PiezasEnLaBolsa(ls[v])
  <2> DEFINE it == ls[v]
  <2>1. Sana(it)
    BY DEF Sanas
  <2>2. \/ m[v] = it
        \/ SeCancelaPorFalta(it) /\ m[v] = DatosDeFaltaDeBodega(it)
        \/ /\ it.estado = "PARCIAL" /\ ~it.cancelada
           /\ m[v] = [it EXCEPT !.cantidad = it.surtida, !.estado = "COMPLETO"]
    BY DEF AplicarCambiosFisicos, SeCancelaPorFalta
  <2>3. QED
    BY <2>1, <2>2, FaltaConserva, ParcialConserva
<1> HIDE DEF m
<1>3. QED
  BY <1>1, <1>2 DEF Sanas, EnBolsaSegun, m

\* The lines of a proposal of sales, before the prices are set again.
LineasPropuestas(ls, cs) ==
    [v \in DOMAIN ls \cup {w \in DOMAIN cs : cs[w].tipo = "agregado"} |->
        IF v \notin DOMAIN ls THEN ConstruirItemPedido(v, cs[v].n)
        ELSE IF v \in DOMAIN cs THEN AplicarLinea(ls[v], cs[v])
        ELSE ls[v]]

\* aplicar-propuesta-ventas.util, over a proposal that is still of this order.
LEMMA PropuestaPorLineas ==
    ASSUME NEW ls, Sanas(ls), NEW cs, DOMAIN cs \subseteq Variantes,
           \A v \in DOMAIN cs :
              /\ cs[v].tipo \in TiposDeCambio
              /\ cs[v].n \in Nat
              /\ cs[v].tipo = "agregado" <=> v \notin DOMAIN ls
    PROVE  LET k == LineasPropuestas(ls, cs)
           IN  /\ Sanas(k)
               /\ EnBolsaSegun(k) = EnBolsaSegun(ls)
               /\ AplicarPropuestaDeVentas(ls, cs) = AplicarPromoVolumen(k)
<1> DEFINE k == LineasPropuestas(ls, cs)
<1>1. DOMAIN ls \subseteq DOMAIN k /\ DOMAIN k \subseteq Variantes /\ k = [v \in DOMAIN k |-> k[v]]
  BY DEF Sanas, LineasPropuestas
<1>2. ASSUME NEW v \in DOMAIN ls
      PROVE  Sana(k[v]) /\ PiezasEnLaBolsa(k[v]) = PiezasEnLaBolsa(ls[v])
  <2>1. k[v] = IF v \in DOMAIN cs THEN AplicarLinea(ls[v], cs[v]) ELSE ls[v]
    BY DEF LineasPropuestas
  <2>2. QED
    BY <2>1, LineaAplicada DEF Sanas
<1>3. ASSUME NEW v \in DOMAIN k, v \notin DOMAIN ls
      PROVE  Sana(k[v]) /\ PiezasEnLaBolsa(k[v]) = 0
  <2>1. k[v] = ConstruirItemPedido(v, cs[v].n) /\ v \in DOMAIN cs /\ v \in Variantes
    BY <1>3 DEF Sanas, LineasPropuestas
  <2>2. QED
    BY <2>1, LineaNueva
<1>4. AplicarPropuestaDeVentas(ls, cs) = AplicarPromoVolumen(k)
  BY DEF AplicarPropuestaDeVentas, LineasPropuestas
<1> HIDE DEF k
<1>5. Sanas(k)
  BY <1>1, <1>2, <1>3 DEF Sanas
<1>6. EnBolsaSegun(k) = EnBolsaSegun(ls)
  BY <1>1, <1>2, <1>3 DEF EnBolsaSegun
<1>7. QED
  BY <1>4, <1>5, <1>6 DEF k

LEMMA PropuestaConserva ==
    ASSUME NEW ls, Sanas(ls), NEW cs, DOMAIN cs \subseteq Variantes,
           \A v \in DOMAIN cs :
              /\ cs[v].tipo \in TiposDeCambio
              /\ cs[v].n \in Nat
              /\ cs[v].tipo = "agregado" <=> v \notin DOMAIN ls
    PROVE  LET m == AplicarPropuestaDeVentas(ls, cs)
           IN  Sanas(m) /\ EnBolsaSegun(m) = EnBolsaSegun(ls)
  BY PropuestaPorLineas, PromoConserva

\* An adjustment at the counter takes out of the bag what it says.
LEMMA AjusteDelPedido ==
    ASSUME NEW ls, Sanas(ls), NEW cs, DOMAIN cs \subseteq Variantes,
           \A v \in DOMAIN cs :
              /\ cs[v].accion \in AccionesDeItem
              /\ cs[v].n \in Nat
              /\ cs[v].accion = "agregado" <=> v \notin DOMAIN ls
              /\ cs[v].accion = "reponer" => SePuedeReponer(ls[v])
    PROVE  LET m == AplicarAjuste(ls, cs)
               quitadas == [v \in Variantes |-> IF v \in DOMAIN cs \cap DOMAIN ls
                                                THEN Quitadas(ls[v], cs[v]) ELSE 0]
           IN  Sanas(m) /\ EnBolsaSegun(m) = Menos(EnBolsaSegun(ls), quitadas)
<1> DEFINE k == [v \in DOMAIN ls \cup DOMAIN cs |->
                    IF v \notin DOMAIN ls THEN ConstruirItemPedido(v, cs[v].n)
                    ELSE IF v \in DOMAIN cs THEN AjustarLinea(ls[v], cs[v])
                    ELSE ls[v]]
           quitadas == [v \in Variantes |-> IF v \in DOMAIN cs \cap DOMAIN ls
                                            THEN Quitadas(ls[v], cs[v]) ELSE 0]
<1>1. DOMAIN ls \subseteq DOMAIN k /\ DOMAIN k \subseteq Variantes /\ k = [v \in DOMAIN k |-> k[v]]
  BY DEF Sanas
<1>2. ASSUME NEW v \in DOMAIN ls, v \in DOMAIN cs
      PROVE  /\ Sana(k[v])
             /\ PiezasEnLaBolsa(k[v]) = Resta(PiezasEnLaBolsa(ls[v]), quitadas[v])
  <2>1. /\ k[v] = AjustarLinea(ls[v], cs[v])
        /\ quitadas[v] = Quitadas(ls[v], cs[v])
    BY <1>2 DEF Sanas
  <2>2. QED
    BY <2>1, <1>2, LineaAjustada DEF Sanas
<1>3. ASSUME NEW v \in DOMAIN ls, v \notin DOMAIN cs
      PROVE  /\ Sana(k[v])
             /\ PiezasEnLaBolsa(k[v]) = Resta(PiezasEnLaBolsa(ls[v]), quitadas[v])
  <2>1. k[v] = ls[v] /\ quitadas[v] = 0 /\ Sana(ls[v])
    BY <1>3 DEF Sanas
  <2>2. QED
    BY <2>1, PiezasDeLinea DEF Resta
<1>4. ASSUME NEW v \in DOMAIN k, v \notin DOMAIN ls
      PROVE  Sana(k[v]) /\ PiezasEnLaBolsa(k[v]) = 0
  <2>1. k[v] = ConstruirItemPedido(v, cs[v].n) /\ v \in DOMAIN cs /\ v \in Variantes
    BY <1>4
  <2>2. QED
    BY <2>1, LineaNueva
<1>5. \A v \in Variantes \ DOMAIN ls : Resta(0, quitadas[v]) = 0
  BY DEF Resta
<1>6. AplicarAjuste(ls, cs) = AplicarPromoVolumen(k)
  BY DEF AplicarAjuste
<1> HIDE DEF k, quitadas
<1>7. Sanas(k)
  BY <1>1, <1>2, <1>3, <1>4 DEF Sanas
<1>8. EnBolsaSegun(k) = Menos(EnBolsaSegun(ls), quitadas)
  BY <1>1, <1>2, <1>3, <1>4, <1>5 DEF EnBolsaSegun, Menos
<1>9. QED
  BY <1>6, <1>7, <1>8, PromoConserva DEF quitadas

\* The checklist of all the lines.
LEMMA RetiradasConservan ==
    ASSUME NEW ls, Sanas(ls)
    PROVE  LET m == [v \in DOMAIN ls |-> Retirar(ls[v])]
               quitadas == [v \in Variantes |->
                              IF v \in DOMAIN ls THEN PiezasPendientesDeRetiro(ls[v]) ELSE 0]
           IN  /\ Sanas(m)
               /\ DOMAIN m = DOMAIN ls
               /\ EnBolsaSegun(m) = Menos(EnBolsaSegun(ls), quitadas)
<1> DEFINE m == [v \in DOMAIN ls |-> Retirar(ls[v])]
           quitadas == [v \in Variantes |->
                          IF v \in DOMAIN ls THEN PiezasPendientesDeRetiro(ls[v]) ELSE 0]
<1>1. DOMAIN m = DOMAIN ls /\ m = [v \in DOMAIN m |-> m[v]]
  OBVIOUS
<1>2. ASSUME NEW v \in DOMAIN ls
      PROVE  /\ Sana(m[v]) /\ v \in Variantes
             /\ PiezasEnLaBolsa(m[v]) = Resta(PiezasEnLaBolsa(ls[v]), quitadas[v])
  <2>1. /\ m[v] = Retirar(ls[v]) /\ Sana(ls[v]) /\ v \in Variantes
        /\ quitadas[v] = PiezasPendientesDeRetiro(ls[v])
    BY DEF Sanas
  <2>2. QED
    BY <2>1, LineaRetirada
<1>3. \A v \in Variantes \ DOMAIN ls : Resta(0, quitadas[v]) = 0
  BY DEF Resta
<1> HIDE DEF m, quitadas
<1>4. Sanas(m)
  BY <1>1, <1>2 DEF Sanas
<1>5. EnBolsaSegun(m) = Menos(EnBolsaSegun(ls), quitadas)
  BY <1>1, <1>2, <1>3 DEF EnBolsaSegun, Menos
<1>6. QED
  BY <1>1, <1>4, <1>5 DEF m, quitadas

-----------------------------------------------------------------------------
(* The operations.                                                         *)

LEMMA FilasDeLaBolsa == EnBolsaSegunFilas = EnBolsaSegun(lineas)
  BY DEF EnBolsaSegunFilas, PorVariante, EnBolsaSegun

\* An operation that writes lines and pieces, and leaves no proposal.
LEMMA EscribeLineas ==
    ASSUME IInv, Sanas(lineas'), bolsa' = EnBolsaSegun(lineas'), propuesta' = NADA,
           peticion' = peticion \/ peticion' = Libre
    PROVE  IInv'
<1>1. LaBolsaCuadra'
  BY DEF LaBolsaCuadra, EnBolsaSegunFilas, PorVariante, EnBolsaSegun
<1>2. PropuestaVigente'
  BY DEF PropuestaVigente, Pendiente
<1>3. PeticionBien(peticion')
  BY DEF IInv, PeticionBien, Libre
<1>4. QED
  BY <1>1, <1>2, <1>3 DEF IInv

\* An operation that moves the order and touches neither lines nor pieces.
LEMMA SoloMueve ==
    ASSUME IInv, UNCHANGED <<lineas, bolsa, peticion>>,
           estado # "CANCELADO" \/ estado' = "CANCELADO",
           propuesta' \in {NADA, propuesta}
    PROVE  IInv'
  BY DEF IInv, Sanas, LaBolsaCuadra, EnBolsaSegunFilas, PorVariante, PropuestaVigente, Pendiente

\* Every cancellation empties the bag.
LEMMA CancelaBien ==
    ASSUME IInv, NEW enManos, CancelarPedido(enManos)
    PROVE  IInv'
  BY DEF CancelarPedido, dinero, IInv, Sanas, LaBolsaCuadra, PropuestaVigente, Pendiente

\* What the request in flight reads or forgets.
LEMMA SoloLee ==
    ASSUME IInv, UNCHANGED <<estado, lineas, bolsa, propuesta>>, PeticionBien(peticion')
    PROVE  IInv'
  BY DEF IInv, Sanas, LaBolsaCuadra, EnBolsaSegunFilas, PorVariante, PropuestaVigente, Pendiente

\* A mark of the warehouse.
LEMMA MarcarItemBien ==
    ASSUME IInv, NEW v \in Variantes, NEW e \in EstadoSurtido, NEW n \in 0..MAX_PIEZAS,
           MarcarItem(v, e, n)
    PROVE  IInv'
<1> DEFINE m == [lineas[v] EXCEPT !.surtida = n, !.estado = e]
<1>1. /\ lineas' = [lineas EXCEPT ![v] = m]
      /\ bolsa' = [bolsa EXCEPT ![v] = @ + n - lineas[v].surtida]
      /\ v \in DOMAIN lineas /\ estado = "EN_REVISION"
      /\ UNCHANGED <<estado, propuesta, peticion>>
      /\ MarcaCoherente(e, n) /\ SePuedeMarcar(lineas[v], n)
  BY DEF MarcarItem, fila
<1>2. n \in Nat
  BY CotasAssumption
<1>3. Sana(m) /\ PiezasEnLaBolsa(m) = PiezasEnLaBolsa(lineas[v]) + n - lineas[v].surtida
  BY <1>1, <1>2, LineaMarcada DEF IInv, Sanas
<1> HIDE DEF m
<1>4. DOMAIN lineas' = DOMAIN lineas /\ Sanas(lineas')
  BY <1>1, <1>3 DEF IInv, Sanas
<1>5. bolsa = EnBolsaSegun(lineas)
  BY <1>1, FilasDeLaBolsa DEF IInv, LaBolsaCuadra
<1>6. bolsa' = EnBolsaSegun(lineas')
  <2>1. ASSUME NEW w \in Variantes PROVE bolsa'[w] = EnBolsaSegun(lineas')[w]
    <3>1. CASE w = v
      BY <3>1, <1>1, <1>3, <1>5 DEF EnBolsaSegun, IInv, Sanas
    <3>2. CASE w # v
      BY <3>2, <1>1, <1>5 DEF EnBolsaSegun, IInv, Sanas
    <3>3. QED
      BY <3>1, <3>2
  <2>2. bolsa' = [w \in Variantes |-> bolsa'[w]]
    BY <1>1, <1>5 DEF EnBolsaSegun
  <2>3. QED
    BY <2>1, <2>2 DEF EnBolsaSegun
<1>7. PropuestaVigente'
  BY <1>1, <1>4 DEF IInv, PropuestaVigente, Pendiente
<1>8. LaBolsaCuadra'
  BY <1>6 DEF LaBolsaCuadra, EnBolsaSegunFilas, PorVariante, EnBolsaSegun
<1>9. QED
  BY <1>1, <1>4, <1>7, <1>8 DEF IInv

\* The end of a picking: the checklist, and what was not found.
LEMMA ConfirmarSurtidoBien ==
    ASSUME IInv, NEW presente \in BOOLEAN, ConfirmarSurtido(presente)
    PROVE  IInv'
<1> DEFINE m == [v \in DOMAIN lineas |-> Retirar(lineas[v])]
           quitadas == [v \in Variantes |->
                          IF v \in DOMAIN lineas THEN PiezasPendientesDeRetiro(lineas[v]) ELSE 0]
<1>1. /\ Sanas(m) /\ DOMAIN m = DOMAIN lineas
      /\ EnBolsaSegun(m) = Menos(EnBolsaSegun(lineas), quitadas)
  BY RetiradasConservan DEF IInv
<1>2. bolsa' = Menos(bolsa, quitadas) /\ peticion' = peticion
  BY DEF ConfirmarSurtido, PorVariante
<1>3. bolsa = EnBolsaSegun(lineas)
  BY FilasDeLaBolsa DEF ConfirmarSurtido, IInv, LaBolsaCuadra
<1>4. bolsa' = EnBolsaSegun(m)
  BY <1>1, <1>2, <1>3
<1>5. CASE Faltantes = {}
  <2>1. lineas' = m /\ propuesta' = propuesta
    BY <1>5 DEF ConfirmarSurtido
  <2> HIDE DEF m
  <2>2. LaBolsaCuadra'
    BY <2>1, <1>4 DEF LaBolsaCuadra, EnBolsaSegunFilas, PorVariante, EnBolsaSegun
  <2>3. PropuestaVigente'
    BY <2>1, <1>1 DEF IInv, PropuestaVigente, Pendiente
  <2>4. QED
    BY <2>1, <2>2, <2>3, <1>1, <1>2 DEF IInv
<1>6. CASE Faltantes # {}
  <2>1. lineas' = AplicarPromoVolumen(AplicarCambiosFisicos(m)) /\ propuesta'.origen = "BODEGA"
    BY <1>6 DEF ConfirmarSurtido, Recalcula
  <2> HIDE DEF m
  <2>2. Sanas(lineas') /\ EnBolsaSegun(lineas') = EnBolsaSegun(m)
    BY <2>1, <1>1, CambiosFisicosConservan, PromoConserva
  <2>3. LaBolsaCuadra'
    BY <2>2, <1>4 DEF LaBolsaCuadra, EnBolsaSegunFilas, PorVariante, EnBolsaSegun
  <2>4. PropuestaVigente'
    BY <2>1 DEF PropuestaVigente, Pendiente
  <2>5. QED
    BY <2>2, <2>3, <2>4, <1>2 DEF IInv
<1>7. QED
  BY <1>5, <1>6

\* A shortage that the customer accepts.
LEMMA AprobarBodegaBien ==
    ASSUME IInv, AprobarPropuestaBodega
    PROVE  IInv'
<1> DEFINE m == AplicarCambiosFisicos(lineas)
<1>1. /\ lineas' = AplicarPromoVolumen(m)
      /\ bolsa' = bolsa /\ propuesta' = NADA /\ peticion' = peticion
      /\ estado # "CANCELADO"
  BY DEF AprobarPropuestaBodega, Recalcula, fisico
<1>2. Sanas(m) /\ EnBolsaSegun(m) = EnBolsaSegun(lineas)
  BY CambiosFisicosConservan DEF IInv
<1> HIDE DEF m
<1>3. Sanas(lineas') /\ EnBolsaSegun(lineas') = EnBolsaSegun(lineas)
  BY <1>1, <1>2, PromoConserva
<1>4. bolsa' = EnBolsaSegun(lineas')
  BY <1>1, <1>3, FilasDeLaBolsa DEF IInv, LaBolsaCuadra
<1>5. QED
  BY <1>1, <1>3, <1>4, EscribeLineas

\* A proposal of sales that the customer accepts.
LEMMA AprobarVentasBien ==
    ASSUME IInv, AprobarPropuestaVentas
    PROVE  IInv'
<1> DEFINE m == AplicarPropuestaDeVentas(lineas, propuesta.cambios)
<1>1. /\ lineas' = AplicarPromoVolumen(m)
      /\ bolsa' = bolsa /\ propuesta' = NADA /\ peticion' = peticion
      /\ estado # "CANCELADO" /\ Pendiente("VENTAS")
  BY DEF AprobarPropuestaVentas, Recalcula, fisico
<1>2. Sanas(m) /\ EnBolsaSegun(m) = EnBolsaSegun(lineas)
  BY <1>1, PropuestaConserva DEF IInv, PropuestaVigente
<1> HIDE DEF m
<1>3. Sanas(lineas') /\ EnBolsaSegun(lineas') = EnBolsaSegun(lineas)
  BY <1>1, <1>2, PromoConserva
<1>4. bolsa' = EnBolsaSegun(lineas')
  BY <1>1, <1>3, FilasDeLaBolsa DEF IInv, LaBolsaCuadra
<1>5. QED
  BY <1>1, <1>3, <1>4, EscribeLineas

\* What an adjustment asks for is of variants, and of pieces.
LEMMA LoQueSePide ==
    ASSUME NEW conPiezas, NEW quitar, NEW cs \in Ajustes(conPiezas, quitar)
    PROVE  /\ DOMAIN cs \subseteq Variantes
           /\ \A v \in DOMAIN cs : cs[v].accion \in conPiezas \cup {quitar} /\ cs[v].n \in Nat
<1>1. PICK S \in SUBSET Variantes :
         cs \in [S -> [accion : conPiezas, n : 1..MAX_PIEZAS] \cup [accion : {quitar}, n : {0}]]
  BY DEF Ajustes
<1>2. ASSUME NEW v \in S PROVE cs[v].accion \in conPiezas \cup {quitar} /\ cs[v].n \in Nat
  <2>1. cs[v] \in [accion : conPiezas, n : 1..MAX_PIEZAS] \/ cs[v] \in [accion : {quitar}, n : {0}]
    BY <1>1
  <2>2. QED
    BY <2>1, CotasAssumption
<1>3. QED
  BY <1>1, <1>2

\* The calculator: the lines that it adds are those that the order lacks.
LEMMA CalculaBien ==
    ASSUME Sanas(lineas), NEW int \in Intenciones,
           \A v \in DOMAIN int : IntencionValida(lineas, int, v)
    PROVE  LET cs == CalcularAjuste(lineas, int).cambios
           IN  /\ DOMAIN cs \subseteq Variantes
               /\ \A v \in DOMAIN cs :
                     /\ cs[v].tipo \in TiposDeCambio
                     /\ cs[v].n \in Nat
                     /\ cs[v].tipo = "agregado" <=> v \notin DOMAIN lineas
<1> DEFINE cuentan == Activas(lineas) \cup DOMAIN int
           cs == [v \in cuentan |->
                    [tipo |-> TipoDeLinea(lineas, int, v), n |-> CantidadFinal(lineas, int, v)]]
<1>1. CalcularAjuste(lineas, int).cambios = cs
  BY DEF CalcularAjuste
<1>2. /\ DOMAIN int \subseteq Variantes
      /\ \A v \in DOMAIN int : /\ int[v].accion \in {"AGREGAR", "REPONER", "CANTIDAD", "QUITAR"}
                               /\ int[v].n \in Nat
  BY LoQueSePide DEF Intenciones
<1>3. cuentan \subseteq Variantes
  BY <1>2 DEF Sanas, Activas
<1>4. ASSUME NEW v \in cuentan
      PROVE  /\ TipoDeLinea(lineas, int, v) \in TiposDeCambio
             /\ TipoDeLinea(lineas, int, v) = "agregado" <=> v \notin DOMAIN lineas
  <2>1. v \in DOMAIN int \/ v \in DOMAIN lineas
    BY DEF Activas
  <2>2. v \in DOMAIN int => (int[v].accion = "AGREGAR" <=> v \notin DOMAIN lineas)
    BY <1>2 DEF IntencionValida, Activas
  <2>3. QED
    BY <2>1, <2>2 DEF TipoDeLinea, TiposDeCambio
<1>5. ASSUME NEW v \in cuentan PROVE CantidadFinal(lineas, int, v) \in Nat
  <2>1. CASE v \in DOMAIN int
    BY <2>1, <1>2 DEF CantidadFinal
  <2>2. CASE v \notin DOMAIN int
    <3>1. v \in DOMAIN lineas
      BY <2>2 DEF Activas
    <3>2. CantidadSinIntencion(lineas[v]) \in Nat
      BY <3>1, Cuentan DEF CantidadSinIntencion, Sanas, Sana
    <3>3. QED
      BY <2>2, <3>2 DEF CantidadFinal
  <2>3. QED
    BY <2>1, <2>2
<1>6. QED
  BY <1>1, <1>3, <1>4, <1>5

\* A proposal is sent.
LEMMA EnviarPropuestaBien ==
    ASSUME IInv, NEW int \in Intenciones, EnviarPropuesta(int)
    PROVE  IInv'
<1>1. /\ UNCHANGED <<lineas, bolsa, peticion>>
      /\ estado # "CANCELADO"
      /\ propuesta'.cambios = CalcularAjuste(lineas, int).cambios
      /\ \A v \in DOMAIN int : IntencionValida(lineas, int, v)
  BY DEF EnviarPropuesta, dinero, fisico
<1>2. PropuestaVigente'
  BY <1>1, CalculaBien DEF IInv, PropuestaVigente
<1>3. LaBolsaCuadra'
  BY <1>1 DEF IInv, LaBolsaCuadra, EnBolsaSegunFilas, PorVariante
<1>4. QED
  BY <1>1, <1>2, <1>3 DEF IInv, Sanas

\* An adjustment is asked for.
LEMMA LeeAjustarBien ==
    ASSUME IInv, NEW cambios \in CambiosDeItem, LeeAjustar(cambios)
    PROVE  IInv'
<1>1. /\ DOMAIN cambios \subseteq Variantes
      /\ \A v \in DOMAIN cambios : cambios[v].accion \in AccionesDeItem /\ cambios[v].n \in Nat
  BY LoQueSePide DEF CambiosDeItem, AccionesDeItem
<1>2. /\ peticion'.cambios = cambios
      /\ peticion'.destino \in {"EN_REVISION", "REVISADO"}
      /\ UNCHANGED <<estado, lineas, bolsa, propuesta>>
  BY DEF LeeAjustar, Libre, fila, dinero, fisico
<1>3. QED
  BY <1>1, <1>2, SoloLee DEF PeticionBien

\* An adjustment is committed, over whatever the lines are by then.
LEMMA AjustarBien ==
    ASSUME IInv, Ajustar
    PROVE  IInv'
<1> DEFINE cs == peticion.cambios
           quitadas == [v \in Variantes |-> IF v \in DOMAIN cs \cap DOMAIN lineas
                                            THEN Quitadas(lineas[v], cs[v]) ELSE 0]
<1>1. /\ bolsa' = Menos(bolsa, quitadas) /\ propuesta' = NADA /\ peticion' = Libre
      /\ estado # "CANCELADO"
  BY DEF Ajustar, PuedeAjustar, Quitan
<1>2. bolsa = EnBolsaSegun(lineas)
  BY <1>1, FilasDeLaBolsa DEF IInv, LaBolsaCuadra
<1>3. CASE cs = SinCambios
  <2>1. lineas' = lineas
    BY <1>3 DEF Ajustar, dinero
  <2>2. \A v \in Variantes : quitadas[v] = 0
    BY <1>3 DEF SinCambios
  <2>3. \A v \in Variantes : EnBolsaSegun(lineas)[v] \in Nat
    BY PiezasDeLinea DEF EnBolsaSegun, IInv, Sanas
  <2> HIDE DEF quitadas
  <2>4. Menos(EnBolsaSegun(lineas), quitadas) = EnBolsaSegun(lineas)
    BY <2>2, <2>3 DEF Menos, Resta, EnBolsaSegun
  <2>5. QED
    BY <1>1, <1>2, <2>1, <2>4, EscribeLineas DEF IInv
<1>4. CASE cs # SinCambios
  <2>1. SeAplica(cs) /\ lineas' = AplicarPromoVolumen(AplicarAjuste(lineas, cs))
    BY <1>4 DEF Ajustar, Recalcula
  <2>2. Sanas(AplicarAjuste(lineas, cs))
        /\ EnBolsaSegun(AplicarAjuste(lineas, cs)) = Menos(EnBolsaSegun(lineas), quitadas)
    BY <2>1, AjusteDelPedido DEF SeAplica, IInv, PeticionBien, Ajustar
  <2>3. Sanas(lineas') /\ EnBolsaSegun(lineas') = EnBolsaSegun(AplicarAjuste(lineas, cs))
    BY <2>1, <2>2, PromoConserva
  <2>4. bolsa' = EnBolsaSegun(lineas')
    BY <1>1, <1>2, <2>2, <2>3
  <2>5. QED
    BY <1>1, <2>3, <2>4, EscribeLineas
<1>5. QED
  BY <1>3, <1>4

-----------------------------------------------------------------------------
(* The specification.                                                      *)

\* An order that was just placed has an empty bag.
LEMMA AlEmpezar == Init => IInv
<1> SUFFICES ASSUME Init PROVE IInv
  OBVIOUS
<1>1. PICK S \in SUBSET Variantes :
         lineas = AplicarPromoVolumen([v \in S |-> [ConstruirItemPedido(v, MAX_PIEZAS)
                                                       EXCEPT !.original = TRUE]])
  BY DEF Init
<1> DEFINE k == [v \in S |-> [ConstruirItemPedido(v, MAX_PIEZAS) EXCEPT !.original = TRUE]]
<1>2. MAX_PIEZAS \in Nat
  BY CotasAssumption
<1>3. ASSUME NEW v \in S PROVE Sana(k[v]) /\ PiezasEnLaBolsa(k[v]) = 0
  <2> DEFINE c == ConstruirItemPedido(v, MAX_PIEZAS)
             m == [c EXCEPT !.original = TRUE]
  <2>1. Sana(c) /\ PiezasEnLaBolsa(c) = 0
    BY <1>2, LineaNueva
  <2> HIDE DEF c
  <2>2. /\ m \in Linea
        /\ m.cantidad = c.cantidad /\ m.surtida = c.surtida /\ m.retiradas = c.retiradas
        /\ m.estado = c.estado /\ m.cancelada = c.cancelada
    BY <2>1 DEF Sana, Linea
  <2>3. k[v] = m
    BY DEF c
  <2> HIDE DEF m, k
  <2>4. Sana(m) /\ PiezasEnLaBolsa(m) = 0
    BY <2>1, <2>2 DEF Sana, PiezasEnLaBolsa, PiezasFueraDeLaBolsa
  <2>5. QED
    BY <2>3, <2>4
<1>4. DOMAIN k = S /\ k = [v \in DOMAIN k |-> k[v]]
  OBVIOUS
<1>5. lineas = AplicarPromoVolumen(k)
  BY <1>1
<1> HIDE DEF k
<1>6. Sanas(k) /\ EnBolsaSegun(k) = Ninguna
  BY <1>3, <1>4 DEF Sanas, EnBolsaSegun, Ninguna
<1>7. Sanas(lineas) /\ EnBolsaSegun(lineas) = Ninguna
  BY <1>5, <1>6, PromoConserva
<1>8. QED
  BY <1>7, FilasDeLaBolsa
     DEF Init, IInv, LaBolsaCuadra, PropuestaVigente, Pendiente, PeticionBien, Libre

\* One case per action.
LEMMA PasoBien ==
    ASSUME IInv, [Next]_vars
    PROVE  IInv'
<1>1. CASE DeBodega
  <2>1. CASE Tomar \/ Liberar
    BY <2>1, SoloMueve DEF Tomar, Liberar, dinero, fisico
  <2>2. CASE \E v \in Variantes, e \in EstadoSurtido, n \in 0..MAX_PIEZAS : MarcarItem(v, e, n)
    BY <2>2, MarcarItemBien
  <2>3. CASE \E presente \in BOOLEAN : ConfirmarSurtido(presente)
    BY <2>3, ConfirmarSurtidoBien
  <2>4. CASE LeeConfirmarRepuesto
    BY <2>4, SoloLee DEF LeeConfirmarRepuesto, PeticionBien, Libre, fila, dinero, fisico
  <2>5. CASE ConfirmarRepuesto
    BY <2>5, SoloLee DEF ConfirmarRepuesto, PeticionBien, Libre, fila, dinero
  <2>6. QED
    BY <1>1, <2>1, <2>2, <2>3, <2>4, <2>5 DEF DeBodega
<1>2. CASE DePropuesta
  <2>1. CASE RechazarPropuestaBodega \/ CancelarPorPropuesta
    BY <2>1, CancelaBien DEF RechazarPropuestaBodega, CancelarPorPropuesta
  <2>2. CASE ContactarAsesor \/ RechazarPropuestaVentas \/ DevolverABodega
    BY <2>2, SoloMueve DEF ContactarAsesor, RechazarPropuestaVentas, DevolverABodega, dinero, fisico
  <2>3. CASE \E int \in Intenciones : EnviarPropuesta(int)
    BY <2>3, EnviarPropuestaBien
  <2>4. QED
    BY <1>2, <2>1, <2>2, <2>3, AprobarBodegaBien, AprobarVentasBien DEF DePropuesta
<1>3. CASE DeMostrador
  <2>1. CASE LlegaElCliente \/ EnviarAPagar
    BY <2>1, SoloMueve DEF LlegaElCliente, EnviarAPagar, dinero, fisico
  <2>2. CASE \E cambios \in CambiosDeItem : LeeAjustar(cambios)
    BY <2>2, LeeAjustarBien
  <2>3. CASE AjusteRechazado
    BY <2>3, SoloLee DEF AjusteRechazado, PeticionBien, Libre, fila, dinero, fisico
  <2>4. CASE CancelarMostrador
    BY <2>4, CancelaBien DEF CancelarMostrador
  <2>5. QED
    BY <1>3, <2>1, <2>2, <2>3, <2>4, AjustarBien DEF DeMostrador
<1>4. CASE CancelarCliente
  BY <1>4, CancelaBien DEF CancelarCliente
<1>5. CASE UNCHANGED vars
  BY <1>5, SoloLee DEF vars, IInv
<1>6. QED
  BY <1>1, <1>2, <1>3, <1>4, <1>5 DEF Next

\* The inductive invariant: sound lines, a count that agrees, a proposal that
\* is still of the lines of the order.
THEOREM Invariancia == Spec => []IInv
<1>1. IInv /\ [Next]_vars => IInv'
  BY PasoBien
<1>2. QED
  BY AlEmpezar, <1>1, PTL DEF Spec

\* What the rows count is what the bag has, through every sequence of marks,
\* releases, proposals, adjustments and returns (ajuste-cantidad.util and
\* cancelacion-linea.util keep what was found apart from what was decided).
THEOREM BolsaCuadrada == Spec => []LaBolsaCuadra
<1>1. IInv => LaBolsaCuadra
  BY DEF IInv
<1>2. QED
  BY Invariancia, <1>1, PTL

-----------------------------------------------------------------------------
(* The bags with more than the customer takes.                             *)

\* A line with more in the bag than it takes shows on both screens.
LEMMA SobranteSeVe ==
    ASSUME NEW it, Sana(it),
           PiezasEnLaBolsa(it) > (IF it.cancelada THEN 0 ELSE it.cantidad)
    PROVE  TraeAjuste(it) /\ PideTrabajo(it)
<1>1. /\ PiezasEnLaBolsa(it) = it.surtida - it.retiradas
      /\ it.surtida \in Nat /\ it.retiradas \in Nat /\ it.cantidad \in Nat
      /\ it.cancelada \in BOOLEAN
  BY PiezasDeLinea, Cuentan DEF Sana
<1>2. CASE it.cancelada
  BY <1>1, <1>2 DEF TraeAjuste, PideTrabajo, PiezasPendientesDeRetiro, PiezasFueraDeLaBolsa, Resta
<1>3. CASE ~it.cancelada
  BY <1>1, <1>3 DEF TraeAjuste, PideTrabajo, PiezasPendientesDeRetiro, PiezasFueraDeLaBolsa, Resta
<1>4. QED
  BY <1>2, <1>3

\* A bag with more than the customer takes is announced, and never joins the
\* batch without a checklist, whatever was done to the lines before
\* (bodega.service, pedidoTraeAjuste and itemPideTrabajo).
THEOREM BolsaDeMasAbierta == Spec => []LaBolsaDeMasSeAbre
<1>1. IInv => LaBolsaDeMasSeAbre
  <2> SUFFICES ASSUME IInv, estado = "EN_REVISION", NEW v \in DOMAIN lineas, bolsa[v] > Lleva(v)
               PROVE  TraeAjuste(lineas[v]) /\ PideTrabajo(lineas[v])
    BY DEF LaBolsaDeMasSeAbre, EnLote, EnAvisoDeAjuste
  <2>1. Sana(lineas[v]) /\ v \in Variantes
    BY DEF IInv, Sanas
  <2>2. bolsa[v] = PiezasEnLaBolsa(lineas[v])
    BY <2>1 DEF IInv, LaBolsaCuadra, EnBolsaSegunFilas, PorVariante
  <2>3. QED
    BY <2>1, <2>2, SobranteSeVe DEF Lleva
<1>2. QED
  BY Invariancia, <1>1, PTL

-----------------------------------------------------------------------------
(* What a proposal says, and what approving it does.                       *)

\* The lines once the pending proposal is applied.
Tras(ls, p) ==
    IF p.origen = "VENTAS" THEN AplicarPropuestaDeVentas(ls, p.cambios)
    ELSE AplicarCambiosFisicos(ls)

\* The pieces that a proposal promises, and what they cost together.
PiezasDichas(cs) == SumFunction([v \in DOMAIN cs |-> cs[v].n])

TotalDicho(cs) ==
    SumFunction([v \in DOMAIN cs |-> cs[v].n * PrecioConPromoVolumen(v, PiezasDichas(cs))])

\* A proposal only waits while the order does.
PropuestaEnEspera == propuesta # NADA => estado \in {"ESPERANDO_APROBACION", "REVISADO"}

\* The lines have not moved since the proposal was calculated: approving it
\* still gives what it says.
Fiel(ls, p) ==
    /\ DOMAIN p.cambios \subseteq Variantes
    /\ Activas(ls) \subseteq DOMAIN p.cambios
    /\ \A v \in DOMAIN p.cambios : /\ p.cambios[v].n \in Nat
                                   /\ PiezasDe(Tras(ls, p), v) = p.cambios[v].n
    /\ SinPar = {} => p.total = TotalDicho(p.cambios)

PropuestaFiel == propuesta # NADA => Fiel(lineas, propuesta)

\* Two functions of the same values have the same sum, zeros apart.
LEMMA MismaSuma ==
    ASSUME NEW S, NEW T, IsFiniteSet(S), T \subseteq S, NEW f, NEW g,
           DOMAIN f = S, DOMAIN g = T,
           \A v \in S : f[v] \in Nat,
           \A v \in T : f[v] = g[v],
           \A v \in S \ T : f[v] = 0
    PROVE  SumFunction(f) = SumFunction(g)
  BY SumaSinCeros DEF SumFunction

\* The price of a variant is one of its two prices.
LEMMA PrecioNatural ==
    ASSUME NEW v \in Variantes, NEW n
    PROVE  PrecioConPromoVolumen(v, n) \in Nat
  BY PreciosAssumption DEF PrecioConPromoVolumen

LEMMA ProductoNatural ==
    ASSUME NEW m \in Nat, NEW n \in Nat
    PROVE  m * n \in Nat /\ m * n = n * m /\ (n = 0 => m * n = 0)
  OBVIOUS

\* The promotion leaves the pieces of each line alone.
LEMMA PromoPiezas ==
    ASSUME NEW ls, Sanas(ls)
    PROVE  LET m == AplicarPromoVolumen(ls)
           IN  /\ DOMAIN m = DOMAIN ls
               /\ Activas(m) = Activas(ls)
               /\ \A v \in DOMAIN ls :
                     /\ m[v].cantidad = ls[v].cantidad /\ m[v].cancelada = ls[v].cancelada
                     /\ m[v].surtida = ls[v].surtida /\ m[v].retiradas = ls[v].retiradas
                     /\ m[v].estado = ls[v].estado
               /\ \A v : PiezasDe(m, v) = PiezasDe(ls, v)
               /\ SinPar = {} => \A v \in Activas(ls) :
                     m[v].precio = PrecioConPromoVolumen(v,
                                      SumFunction([w \in Activas(ls) |-> ls[w].cantidad]))
<1> DEFINE m == AplicarPromoVolumen(ls)
           piezas == SumFunction([w \in Activas(ls) |-> ls[w].cantidad])
<1>1. CASE Activas(ls) \cap SinPar # {}
  BY <1>1 DEF AplicarPromoVolumen
<1>2. CASE Activas(ls) \cap SinPar = {}
  <2>1. m = [v \in DOMAIN ls |-> IF v \in Activas(ls)
                                 THEN [ls[v] EXCEPT !.precio = PrecioConPromoVolumen(v, piezas)]
                                 ELSE ls[v]]
    BY <1>2 DEF AplicarPromoVolumen
  <2> HIDE DEF m, piezas
  <2>2. ASSUME NEW v \in DOMAIN ls
        PROVE  /\ m[v].cantidad = ls[v].cantidad /\ m[v].cancelada = ls[v].cancelada
               /\ m[v].surtida = ls[v].surtida /\ m[v].retiradas = ls[v].retiradas
               /\ m[v].estado = ls[v].estado
               /\ v \in Activas(ls) => m[v].precio = PrecioConPromoVolumen(v, piezas)
    <3>1. ls[v] \in Linea
      BY DEF Sanas, Sana
    <3>2. QED
      BY <2>1, <3>1 DEF Linea
  <2>3. DOMAIN m = DOMAIN ls
    BY <2>1
  <2>4. Activas(m) = Activas(ls)
    BY <2>2, <2>3 DEF Activas
  <2>5. ASSUME NEW v PROVE PiezasDe(m, v) = PiezasDe(ls, v)
    BY <2>2, <2>4 DEF PiezasDe, Activas
  <2>6. \A v \in Activas(ls) : m[v].precio = PrecioConPromoVolumen(v, piezas)
    BY <2>2 DEF Activas
  <2>7. QED
    BY <2>2, <2>3, <2>4, <2>5, <2>6 DEF m, piezas
<1>3. QED
  BY <1>1, <1>2

\* What is charged for some lines is what a proposal of the same pieces says.
LEMMA TotalTrasAprobar ==
    ASSUME SinPar = {}, NEW ls, Sanas(ls), NEW cs, DOMAIN cs \subseteq Variantes,
           Activas(ls) \subseteq DOMAIN cs,
           \A v \in DOMAIN cs : cs[v].n \in Nat /\ PiezasDe(ls, v) = cs[v].n
    PROVE  TotalDe(AplicarPromoVolumen(ls)) = TotalDicho(cs)
<1> DEFINE m == AplicarPromoVolumen(ls)
           activas == Activas(ls)
           S == DOMAIN cs
           cantidades == [v \in activas |-> ls[v].cantidad]
           dichas == [v \in S |-> cs[v].n]
           piezas == SumFunction(cantidades)
           importes == [v \in activas |-> m[v].precio * m[v].cantidad]
           dichos == [v \in S |-> cs[v].n * PrecioConPromoVolumen(v, PiezasDichas(cs))]
<1>1. IsFiniteSet(S) /\ activas \subseteq S
  BY PreciosAssumption, FS_Subset
<1>2. \A v \in activas : v \in DOMAIN ls /\ v \in Variantes /\ ls[v].cantidad = cs[v].n
  BY DEF Activas, PiezasDe
<1>3. \A v \in S \ activas : cs[v].n = 0
  BY DEF PiezasDe
<1>4. SumFunction(dichas) = piezas
  <2> HIDE DEF activas
  <2>1. \A v \in S : dichas[v] \in Nat
    OBVIOUS
  <2>2. \A v \in activas : dichas[v] = cantidades[v]
    BY <1>1, <1>2
  <2>3. \A v \in S \ activas : dichas[v] = 0
    BY <1>3
  <2>4. DOMAIN dichas = S /\ DOMAIN cantidades = activas
    OBVIOUS
  <2> HIDE DEF dichas, cantidades, S
  <2>5. SumFunction(dichas) = SumFunction(cantidades)
    BY <1>1, <2>1, <2>2, <2>3, <2>4, MismaSuma
  <2>6. QED
    BY <2>5
<1>5. piezas = PiezasDichas(cs)
  BY <1>4 DEF PiezasDichas
<1>6. /\ Activas(m) = activas
      /\ \A v \in activas : m[v].cantidad = ls[v].cantidad
      /\ \A v \in activas : m[v].precio = PrecioConPromoVolumen(v, piezas)
  BY <1>2, PromoPiezas
<1>7. SumFunction(dichos) = SumFunction(importes)
  <2> HIDE DEF activas, piezas, m
  <2>1. ASSUME NEW v \in S PROVE dichos[v] \in Nat /\ (v \notin activas => dichos[v] = 0)
    <3>1. PrecioConPromoVolumen(v, PiezasDichas(cs)) \in Nat /\ cs[v].n \in Nat
      BY PrecioNatural
    <3> DEFINE p == PrecioConPromoVolumen(v, PiezasDichas(cs))
               n == cs[v].n
    <3>2. dichos[v] = n * p
      OBVIOUS
    <3>3. v \notin activas => n = 0
      BY <1>3
    <3> HIDE DEF p, n, dichos
    <3>4. n * p = p * n /\ p * n \in Nat /\ (n = 0 => p * n = 0)
      BY <3>1, ProductoNatural DEF p, n
    <3>5. QED
      BY <3>2, <3>3, <3>4
  <2>2. ASSUME NEW v \in activas PROVE dichos[v] = importes[v]
    <3>1. v \in S /\ cs[v].n \in Nat /\ v \in Variantes
      BY <1>1
    <3>2. m[v].precio = PrecioConPromoVolumen(v, PiezasDichas(cs)) /\ m[v].cantidad = cs[v].n
      BY <1>2, <1>5, <1>6
    <3> DEFINE p == PrecioConPromoVolumen(v, PiezasDichas(cs))
               n == cs[v].n
    <3>3. dichos[v] = n * p /\ importes[v] = p * n
      BY <3>1, <3>2
    <3>4. p \in Nat /\ n \in Nat
      BY <3>1, PrecioNatural
    <3> HIDE DEF p, n, dichos, importes
    <3>5. QED
      BY <3>3, <3>4, ProductoNatural
  <2>3. DOMAIN dichos = S /\ DOMAIN importes = activas
    OBVIOUS
  <2> HIDE DEF dichos, importes, S
  <2>4. QED
    BY <1>1, <2>1, <2>2, <2>3, MismaSuma
<1>8. TotalDe(m) = SumFunction(importes)
  BY <1>6 DEF TotalDe
<1>9. QED
  BY <1>7, <1>8 DEF TotalDicho

\* The calculator charges what its own snapshot says.
LEMMA TotalPropuesto ==
    ASSUME SinPar = {}, NEW ls, NEW int
    PROVE  LET c == CalcularAjuste(ls, int) IN c.total = TotalDicho(c.cambios)
<1> DEFINE cuentan == Activas(ls) \cup DOMAIN int
           cs == [v \in cuentan |->
                    [tipo |-> TipoDeLinea(ls, int, v), n |-> CantidadFinal(ls, int, v)]]
           piezas == SumFunction([v \in cuentan |-> CantidadFinal(ls, int, v)])
<1>1. /\ CalcularAjuste(ls, int).cambios = cs
      /\ CalcularAjuste(ls, int).total =
            SumFunction([v \in cuentan |-> CantidadFinal(ls, int, v) * PrecioEfectivo(ls, v, piezas)])
  BY DEF CalcularAjuste
<1>2. DOMAIN cs = cuentan /\ \A v \in cuentan : cs[v].n = CantidadFinal(ls, int, v)
  OBVIOUS
<1>3. \A v : PrecioEfectivo(ls, v, piezas) = PrecioConPromoVolumen(v, piezas)
  BY DEF PrecioEfectivo
<1> HIDE DEF cs, cuentan
<1>4. [v \in DOMAIN cs |-> cs[v].n] = [v \in cuentan |-> CantidadFinal(ls, int, v)]
  BY <1>2
<1>5. PiezasDichas(cs) = piezas
  BY <1>4 DEF PiezasDichas
<1> HIDE DEF piezas
<1>6. [v \in DOMAIN cs |-> cs[v].n * PrecioConPromoVolumen(v, PiezasDichas(cs))] =
      [v \in cuentan |-> CantidadFinal(ls, int, v) * PrecioEfectivo(ls, v, piezas)]
  BY <1>2, <1>3, <1>5
<1>7. QED
  BY <1>1, <1>6 DEF TotalDicho

\* What a line gives once a change is applied to it.
Da(it) == IF it.cancelada THEN 0 ELSE it.cantidad

\* calculadora-ajuste.util and aplicar-propuesta-ventas.util agree, line by
\* line: what is proposed of a line is what applying it leaves.
LEMMA LineaDicha ==
    ASSUME NEW ls, NEW int, NEW v \in DOMAIN ls, ls[v] \in Linea,
           v \in Activas(ls) \/ v \in DOMAIN int,
           v \in DOMAIN int => /\ int[v].accion \in {"AGREGAR", "REPONER", "CANTIDAD", "QUITAR"}
                               /\ int[v].n \in Nat
                               /\ IntencionValida(ls, int, v)
    PROVE  LET c == [tipo |-> TipoDeLinea(ls, int, v), n |-> CantidadFinal(ls, int, v)]
           IN  c.n \in Nat /\ Da(AplicarLinea(ls[v], c)) = c.n
<1> DEFINE it == ls[v]
           t == TipoDeLinea(ls, int, v)
           n == CantidadFinal(ls, int, v)
           c == [tipo |-> t, n |-> n]
           sin == CantidadSinIntencion(it)
           pide == IF v \in DOMAIN int THEN int[v].accion ELSE "NADA"
<1> SUFFICES n \in Nat /\ Da(AplicarLinea(it, c)) = n
  OBVIOUS
<1>1. /\ it.cantidad \in Nat /\ it.surtida \in Nat /\ it.cancelada \in BOOLEAN
      /\ it.estado \in EstadoSurtido
  BY DEF Linea
<1>2. sin \in Nat
  BY <1>1 DEF CantidadSinIntencion
<1>3. /\ sin = IF it.cancelada \/ it.estado = "NO_DISPONIBLE" THEN 0
               ELSE IF it.estado = "PARCIAL" THEN it.surtida ELSE it.cantidad
  BY <1>1 DEF CantidadSinIntencion
<1>4. /\ Da(DatosDeRetiroPorDecision(it)) = 0
      /\ Da(DatosDeFaltaDeBodega(it)) = 0
      /\ \A k \in Nat : Da(DatosDeReposicion(it, k)) = k
      /\ \A k \in Nat : ~it.cancelada => Da(CalcularAjusteDeCantidad(it, k)) = k
      /\ ~it.cancelada => Da([it EXCEPT !.cantidad = it.surtida, !.estado = "COMPLETO"]) = it.surtida
      /\ ~it.cancelada => Da(it) = it.cantidad
  BY DEF Da, Linea, DatosDeRetiroPorDecision, DatosDeFaltaDeBodega, DatosDeReposicion,
         CalcularAjusteDeCantidad
<1>5. v \notin DOMAIN int => ~it.cancelada
  BY DEF Activas
<1>6. v \in DOMAIN int <=> pide # "NADA"
  OBVIOUS
<1>7. v \in DOMAIN int =>
         /\ pide \in {"REPONER", "CANTIDAD", "QUITAR"}
         /\ pide = "REPONER" => SePuedeReponer(it) /\ n > 0
         /\ pide = "CANTIDAD" => ~it.cancelada /\ n > 0
         /\ pide = "QUITAR" => ~it.cancelada
         /\ pide # "QUITAR" => n = int[v].n
         /\ pide = "QUITAR" => n = 0
         /\ n \in Nat
  BY DEF IntencionValida, Activas, CantidadFinal
<1>8. v \notin DOMAIN int => n = sin
  BY DEF CantidadFinal
<1>9. n \in Nat
  BY <1>2, <1>7, <1>8
<1>10. /\ pide = "QUITAR" => t = "no-disponible"
       /\ pide = "REPONER" => t = "parcial"
       /\ pide = "CANTIDAD" /\ n # sin => t = "parcial"
       /\ pide \in {"NADA", "CANTIDAD"} /\ n = sin =>
             t = IF it.estado = "NO_DISPONIBLE" THEN "no-disponible"
                 ELSE IF n # it.pedida THEN "parcial" ELSE "completo"
  BY <1>7, <1>8 DEF TipoDeLinea, Decidida
<1> HIDE DEF t, n, it, sin, pide
<1>11. /\ t = "no-disponible" \/ (t = "parcial" /\ n = 0) =>
             AplicarLinea(it, c) = DatosDeRetiroPorDecision(it)
       /\ t = "parcial" /\ n > 0 =>
             AplicarLinea(it, c) = IF SePuedeReponer(it) THEN DatosDeReposicion(it, n)
                                   ELSE CalcularAjusteDeCantidad(it, n)
       /\ t = "completo" =>
             AplicarLinea(it, c) =
                IF it.cancelada THEN it
                ELSE IF SeCancelaPorFalta(it) THEN DatosDeFaltaDeBodega(it)
                ELSE IF it.estado = "PARCIAL"
                THEN [it EXCEPT !.cantidad = it.surtida, !.estado = "COMPLETO"]
                ELSE it
  BY DEF AplicarLinea
<1>12. CASE pide = "QUITAR"
  BY <1>4, <1>6, <1>7, <1>9, <1>10, <1>11, <1>12
<1>13. CASE pide = "REPONER"
  BY <1>4, <1>6, <1>7, <1>9, <1>10, <1>11, <1>13
<1>14. CASE pide = "CANTIDAD" /\ n # sin
  BY <1>4, <1>6, <1>7, <1>9, <1>10, <1>11, <1>14 DEF SePuedeReponer
<1>15. CASE pide \in {"NADA", "CANTIDAD"} /\ n = sin
  <2>1. ~it.cancelada
    BY <1>5, <1>6, <1>7, <1>15
  <2>2. CASE it.estado = "NO_DISPONIBLE"
    BY <1>3, <1>4, <1>10, <1>11, <1>15, <2>2
  <2>3. CASE it.estado # "NO_DISPONIBLE" /\ n # it.pedida
    BY <1>4, <1>6, <1>9, <1>10, <1>11, <1>15, <2>1, <2>3 DEF SePuedeReponer
  <2>4. CASE it.estado # "NO_DISPONIBLE" /\ n = it.pedida
    BY <1>1, <1>3, <1>4, <1>10, <1>11, <1>15, <2>1, <2>4 DEF SeCancelaPorFalta
  <2>5. QED
    BY <2>2, <2>3, <2>4
<1>16. pide \in {"NADA", "REPONER", "CANTIDAD", "QUITAR"}
  BY <1>6, <1>7
<1> HIDE DEF c
<1>17. QED
  BY <1>6, <1>8, <1>12, <1>13, <1>14, <1>15, <1>16

\* What enviarPropuesta writes is what approving it over the same lines gives.
LEMMA VentasFiel ==
    ASSUME Sanas(lineas), NEW int \in Intenciones,
           \A v \in DOMAIN int : IntencionValida(lineas, int, v),
           NEW p, p.origen = "VENTAS",
           p.cambios = CalcularAjuste(lineas, int).cambios,
           p.total = CalcularAjuste(lineas, int).total
    PROVE  Fiel(lineas, p)
<1> DEFINE cuentan == Activas(lineas) \cup DOMAIN int
           cs == [v \in cuentan |->
                    [tipo |-> TipoDeLinea(lineas, int, v), n |-> CantidadFinal(lineas, int, v)]]
           k == LineasPropuestas(lineas, cs)
<1>1. p.cambios = cs
  BY DEF CalcularAjuste
<1>2. /\ DOMAIN int \subseteq Variantes
      /\ \A v \in DOMAIN int : /\ int[v].accion \in {"AGREGAR", "REPONER", "CANTIDAD", "QUITAR"}
                               /\ int[v].n \in Nat
  BY LoQueSePide DEF Intenciones
<1>3. /\ DOMAIN cs \subseteq Variantes
      /\ \A v \in DOMAIN cs :
            /\ cs[v].tipo \in TiposDeCambio
            /\ cs[v].n \in Nat
            /\ cs[v].tipo = "agregado" <=> v \notin DOMAIN lineas
  <2> HIDE DEF cs
  <2>1. QED
    BY <1>1, CalculaBien
<1>4. /\ Sanas(k)
      /\ AplicarPropuestaDeVentas(lineas, cs) = AplicarPromoVolumen(k)
  BY <1>3, PropuestaPorLineas
<1>5. ASSUME NEW v \in DOMAIN cs PROVE PiezasDe(k, v) = cs[v].n
  <2>1. CASE v \in DOMAIN lineas
    <3> DEFINE c == [tipo |-> TipoDeLinea(lineas, int, v), n |-> CantidadFinal(lineas, int, v)]
    <3>1. cs[v] = c
      OBVIOUS
    <3>2. k[v] = AplicarLinea(lineas[v], cs[v]) /\ v \in DOMAIN k
      BY <2>1 DEF LineasPropuestas
    <3>3. lineas[v] \in Linea /\ (v \in Activas(lineas) \/ v \in DOMAIN int)
      BY <2>1 DEF Sanas, Sana
    <3>4. Da(AplicarLinea(lineas[v], c)) = c.n
      BY <1>2, <2>1, <3>3, LineaDicha
    <3> HIDE DEF c, cs, k
    <3>5. QED
      BY <3>1, <3>2, <3>4 DEF PiezasDe, Activas, Da
  <2>2. CASE v \notin DOMAIN lineas
    <3>1. cs[v].tipo = "agregado"
      BY <1>3, <2>2
    <3>2. k[v] = ConstruirItemPedido(v, cs[v].n) /\ v \in DOMAIN k
      BY <2>2, <3>1 DEF LineasPropuestas
    <3> HIDE DEF cs, k
    <3>3. ~k[v].cancelada /\ k[v].cantidad = cs[v].n
      BY <3>2 DEF ConstruirItemPedido
    <3>4. QED
      BY <3>2, <3>3 DEF PiezasDe, Activas
  <2>3. QED
    BY <2>1, <2>2
<1>6. Activas(lineas) \subseteq DOMAIN cs
  OBVIOUS
<1>7. SinPar = {} => p.total = TotalDicho(cs)
  <2>1. SinPar = {} => p.total = TotalDicho(p.cambios)
    BY TotalPropuesto
  <2> HIDE DEF cs
  <2>2. QED
    BY <1>1, <2>1
<1> HIDE DEF cs, k
<1>8. \A v \in DOMAIN cs : PiezasDe(Tras(lineas, p), v) = cs[v].n
  BY <1>1, <1>4, <1>5, PromoPiezas DEF Tras
<1>9. QED
  BY <1>1, <1>3, <1>6, <1>7, <1>8 DEF Fiel

\* What a shortage leaves of each line.
LEMMA FaltaDicha ==
    ASSUME NEW ls, Sanas(ls)
    PROVE  LET m == AplicarCambiosFisicos(ls)
           IN  /\ DOMAIN m = DOMAIN ls
               /\ Activas(m) \subseteq Activas(ls)
               /\ \A v \in Activas(ls) : PiezasDe(m, v) = CantidadSinIntencion(ls[v])
<1> DEFINE m == AplicarCambiosFisicos(ls)
<1>1. DOMAIN m = DOMAIN ls
  BY DEF AplicarCambiosFisicos
<1>2. ASSUME NEW v \in DOMAIN ls, ls[v].cancelada PROVE m[v].cancelada
  BY <1>2 DEF AplicarCambiosFisicos
<1>3. ASSUME NEW v \in Activas(ls) PROVE PiezasDe(m, v) = CantidadSinIntencion(ls[v])
  <2> DEFINE it == ls[v]
  <2>1. v \in DOMAIN ls /\ it \in Linea /\ ~it.cancelada
    BY DEF Activas, Sanas, Sana
  <2>2. m[v] = IF it.estado = "NO_DISPONIBLE" \/ (it.estado = "PARCIAL" /\ it.surtida = 0)
               THEN DatosDeFaltaDeBodega(it)
               ELSE IF it.estado = "PARCIAL"
               THEN [it EXCEPT !.cantidad = it.surtida, !.estado = "COMPLETO"]
               ELSE it
    BY <2>1 DEF AplicarCambiosFisicos
  <2> HIDE DEF m, it
  <2>3. Da(m[v]) = CantidadSinIntencion(it)
    <3>1. CASE it.estado = "NO_DISPONIBLE" \/ (it.estado = "PARCIAL" /\ it.surtida = 0)
      BY <2>1, <2>2, <3>1 DEF Da, DatosDeFaltaDeBodega, CantidadSinIntencion, Linea
    <3>2. CASE it.estado = "PARCIAL" /\ it.surtida # 0
      BY <2>1, <2>2, <3>2 DEF Da, CantidadSinIntencion, Linea
    <3>3. CASE it.estado \notin {"PARCIAL", "NO_DISPONIBLE"}
      BY <2>1, <2>2, <3>3 DEF Da, CantidadSinIntencion, Linea
    <3>4. QED
      BY <3>1, <3>2, <3>3
  <2>4. QED
    BY <1>1, <2>1, <2>3 DEF PiezasDe, Activas, Da, it
<1> HIDE DEF m
<1>4. Activas(m) \subseteq Activas(ls)
  BY <1>1, <1>2 DEF Activas
<1>5. QED
  BY <1>1, <1>3, <1>4 DEF m

\* What is charged of a line is what the bag has of it.
Exacta(it) == PiezasEnLaBolsa(it) = Da(it)

\* A line of a picking that is about to be closed: everything was looked at,
\* and what is complete is in the bag.
PorCerrar(it) ==
    ~it.cancelada => /\ it.estado # "PENDIENTE"
                     /\ it.estado = "COMPLETO" => PiezasEnLaBolsa(it) >= it.cantidad

\* What closing a picking makes of one line: the checklist, then the shortage.
Fisica(it) ==
    IF it.cancelada THEN it
    ELSE IF SeCancelaPorFalta(it) THEN DatosDeFaltaDeBodega(it)
    ELSE IF it.estado = "PARCIAL"
    THEN [it EXCEPT !.cantidad = it.surtida, !.estado = "COMPLETO"]
    ELSE it

LEMMA FisicasPorLinea ==
    ASSUME NEW ls
    PROVE  AplicarCambiosFisicos(ls) = [v \in DOMAIN ls |-> Fisica(ls[v])]
  BY DEF AplicarCambiosFisicos, Fisica, SeCancelaPorFalta

\* The checklist moves nothing but the pieces taken out.
LEMMA RetirarSoloRetira ==
    ASSUME NEW it, Sana(it)
    PROVE  LET m == Retirar(it)
           IN  /\ m.cantidad = it.cantidad /\ m.surtida = it.surtida
               /\ m.cancelada = it.cancelada /\ m.estado = it.estado
               /\ m.retiradas = PiezasFueraDeLaBolsa(it)
<1>1. /\ it \in Linea
      /\ it.retiradas + PiezasPendientesDeRetiro(it) = PiezasFueraDeLaBolsa(it)
  BY PiezasDeLinea, Cuentan DEF Sana, PiezasPendientesDeRetiro, Resta
<1>2. QED
  BY <1>1 DEF Retirar, Linea

\* A line that is complete, or not of the order any more, is exact after the
\* checklist.
LEMMA RetiradaExacta ==
    ASSUME NEW it, Sana(it), PorCerrar(it), it.cancelada \/ it.estado = "COMPLETO"
    PROVE  Exacta(Retirar(it))
<1> DEFINE m == Retirar(it)
<1>1. /\ it.surtida \in Nat /\ it.retiradas \in Nat /\ it.cantidad \in Nat
      /\ it.cancelada \in BOOLEAN
      /\ PiezasEnLaBolsa(it) = it.surtida - it.retiradas
  BY PiezasDeLinea, Cuentan DEF Sana
<1>2. /\ m.cantidad = it.cantidad /\ m.surtida = it.surtida
      /\ m.cancelada = it.cancelada /\ m.retiradas = PiezasFueraDeLaBolsa(it)
  BY RetirarSoloRetira
<1> SUFFICES Exacta(m)
  OBVIOUS
<1> HIDE DEF m
<1>3. CASE it.cancelada
  BY <1>1, <1>2, <1>3 DEF Exacta, Da, PiezasEnLaBolsa, PiezasFueraDeLaBolsa, Resta
<1>4. CASE ~it.cancelada
  <2>1. it.surtida >= it.cantidad
    BY <1>1, <1>4 DEF PorCerrar
  <2>2. QED
    BY <1>1, <1>2, <1>4, <2>1 DEF Exacta, Da, PiezasEnLaBolsa, PiezasFueraDeLaBolsa, Resta
<1>5. QED
  BY <1>3, <1>4

\* Every line is exact, and complete if it is still of the order, once the
\* checklist and the shortage are applied.
LEMMA LineaCerrada ==
    ASSUME NEW it, Sana(it), PorCerrar(it)
    PROVE  LET k == Fisica(Retirar(it))
           IN  /\ Exacta(k)
               /\ it.cancelada => k.cancelada
               /\ ~k.cancelada => k.estado = "COMPLETO"
               /\ Da(k) = CantidadSinIntencion(it)
<1> DEFINE m == Retirar(it)
           k == Fisica(m)
<1>1. /\ m.cantidad = it.cantidad /\ m.surtida = it.surtida
      /\ m.cancelada = it.cancelada /\ m.estado = it.estado
      /\ m.retiradas = PiezasFueraDeLaBolsa(it)
  BY RetirarSoloRetira
<1>2. Sana(m)
  BY LineaRetirada
<1>3. /\ m \in Linea /\ it.surtida \in Nat /\ it.cantidad \in Nat /\ it.cancelada \in BOOLEAN
      /\ it.estado \in EstadoSurtido
  BY <1>1, <1>2 DEF Sana, Linea
<1>4. m.cancelada \/ m.estado = "COMPLETO" => Exacta(m)
  BY <1>1, RetiradaExacta
<1> HIDE DEF m
<1>5. CASE it.cancelada
  <2>1. k = m
    BY <1>1, <1>5 DEF Fisica
  <2>2. QED
    BY <1>1, <1>3, <1>4, <1>5, <2>1 DEF Da, CantidadSinIntencion, m
<1>6. CASE ~it.cancelada /\ it.estado = "COMPLETO"
  <2>1. k = m
    BY <1>1, <1>6 DEF Fisica, SeCancelaPorFalta
  <2>2. QED
    BY <1>1, <1>3, <1>4, <1>6, <2>1 DEF Da, CantidadSinIntencion, m
<1>7. CASE ~it.cancelada /\ it.estado \in {"PARCIAL", "NO_DISPONIBLE"}
  <2>1. m.retiradas = 0
    <3>1. it.surtida <= it.cantidad
      BY <1>3, <1>7 DEF Sana
    <3>2. QED
      BY <1>1, <1>3, <1>7, <3>1 DEF PiezasFueraDeLaBolsa, Resta
  <2>2. CASE SeCancelaPorFalta(m)
    <3>1. k = DatosDeFaltaDeBodega(m)
      BY <1>1, <1>7, <2>2 DEF Fisica
    <3>2. k.cancelada /\ k.surtida = 0 /\ k.retiradas = 0
      BY <1>3, <2>1, <3>1 DEF DatosDeFaltaDeBodega, Linea
    <3>3. CantidadSinIntencion(it) = 0
      BY <1>1, <1>3, <1>7, <2>2 DEF CantidadSinIntencion, SeCancelaPorFalta
    <3> HIDE DEF k
    <3>4. Exacta(k) /\ Da(k) = 0
      BY <3>2 DEF Exacta, Da, PiezasEnLaBolsa, Resta
    <3>5. QED
      BY <1>7, <3>2, <3>3, <3>4 DEF k, m
  <2>3. CASE ~SeCancelaPorFalta(m)
    <3>1. k = [m EXCEPT !.cantidad = m.surtida, !.estado = "COMPLETO"] /\ it.estado = "PARCIAL"
      BY <1>1, <1>7, <2>3 DEF Fisica, SeCancelaPorFalta
    <3>2. /\ ~k.cancelada /\ k.surtida = it.surtida /\ k.retiradas = 0
          /\ k.cantidad = it.surtida /\ k.estado = "COMPLETO"
      BY <1>1, <1>3, <1>7, <2>1, <3>1 DEF Linea
    <3>3. CantidadSinIntencion(it) = it.surtida
      BY <1>7, <3>1 DEF CantidadSinIntencion
    <3> HIDE DEF k
    <3>4. Exacta(k) /\ Da(k) = it.surtida
      BY <1>3, <3>2 DEF Exacta, Da, PiezasEnLaBolsa, Resta
    <3>5. QED
      BY <1>7, <3>2, <3>3, <3>4 DEF k, m
  <2>4. QED
    BY <2>2, <2>3
<1>8. QED
  BY <1>3, <1>5, <1>6, <1>7 DEF PorCerrar, EstadoSurtido

\* The lines that a picking leaves, whether something was missing or not.
LEMMA SurtidoCerrado ==
    ASSUME IInv, NEW presente, ConfirmarSurtido(presente)
    PROVE  /\ DOMAIN lineas' = DOMAIN lineas
           /\ \A v \in DOMAIN lineas :
                 /\ Exacta(lineas'[v])
                 /\ lineas[v].cancelada => lineas'[v].cancelada
                 /\ ~lineas'[v].cancelada => lineas'[v].estado = "COMPLETO"
                 /\ Da(lineas'[v]) = CantidadSinIntencion(lineas[v])
<1> DEFINE m == [v \in DOMAIN lineas |-> Retirar(lineas[v])]
           k == AplicarCambiosFisicos(m)
<1>1. /\ Surtido
      /\ Faltantes = {} => lineas' = m
      /\ Faltantes # {} => lineas' = AplicarPromoVolumen(k)
  BY DEF ConfirmarSurtido, Recalcula
<1>2. Sanas(lineas) /\ Sanas(m) /\ DOMAIN m = DOMAIN lineas
  BY RetiradasConservan DEF IInv
<1>3. k = [v \in DOMAIN m |-> Fisica(m[v])] /\ Sanas(k)
  BY <1>2, FisicasPorLinea, CambiosFisicosConservan
<1>4. ASSUME NEW v \in DOMAIN lineas PROVE Sana(lineas[v]) /\ PorCerrar(lineas[v])
  BY <1>1, <1>2 DEF Sanas, Surtido, PorCerrar, Activas
<1>5. ASSUME NEW v \in DOMAIN lineas
      PROVE  /\ m[v] = Retirar(lineas[v]) /\ k[v] = Fisica(Retirar(lineas[v]))
             /\ Exacta(k[v])
             /\ lineas[v].cancelada => k[v].cancelada
             /\ ~k[v].cancelada => k[v].estado = "COMPLETO"
             /\ Da(k[v]) = CantidadSinIntencion(lineas[v])
  <2>1. m[v] = Retirar(lineas[v]) /\ k[v] = Fisica(Retirar(lineas[v]))
    BY <1>2, <1>3
  <2> HIDE DEF m, k
  <2>2. QED
    BY <1>4, <2>1, LineaCerrada
<1> HIDE DEF k, m
<1>6. CASE Faltantes = {}
  <2>1. ASSUME NEW v \in DOMAIN lineas PROVE lineas'[v] = k[v]
    <3>1. /\ m[v].cancelada = lineas[v].cancelada /\ m[v].estado = lineas[v].estado
          /\ lineas[v].estado \in EstadoSurtido
      BY <1>4, <1>5, RetirarSoloRetira DEF Sana, Linea
    <3>2. m[v].cancelada \/ m[v].estado = "COMPLETO"
      BY <1>1, <1>6, <3>1 DEF Faltantes, Surtido, Activas, EstadoSurtido
    <3>3. Fisica(m[v]) = m[v]
      BY <3>2 DEF Fisica, SeCancelaPorFalta
    <3>4. QED
      BY <1>1, <1>5, <1>6, <3>3
  <2>2. QED
    BY <1>1, <1>2, <1>5, <1>6, <2>1
<1>7. CASE Faltantes # {}
  <2>1. DOMAIN lineas' = DOMAIN lineas
    BY <1>1, <1>2, <1>3, <1>7, PromoPiezas
  <2>2. ASSUME NEW v \in DOMAIN lineas
        PROVE  /\ lineas'[v].cantidad = k[v].cantidad /\ lineas'[v].cancelada = k[v].cancelada
               /\ lineas'[v].surtida = k[v].surtida /\ lineas'[v].retiradas = k[v].retiradas
               /\ lineas'[v].estado = k[v].estado
    BY <1>1, <1>2, <1>3, <1>7, PromoPiezas
  <2>3. QED
    BY <1>5, <2>1, <2>2 DEF Exacta, Da, PiezasEnLaBolsa
<1>8. QED
  BY <1>6, <1>7

\* A proposal of the warehouse promises what its own shortage already left.
LEMMA BodegaFiel ==
    ASSUME IInv, NEW presente \in BOOLEAN, ConfirmarSurtido(presente), Faltantes # {}
    PROVE  Fiel(lineas', propuesta')
<1> DEFINE c == CalcularAjuste(lineas, SinCambios)
           cs == c.cambios
<1>1. /\ propuesta'.origen = "BODEGA"
      /\ propuesta'.cambios = cs
      /\ propuesta'.total = c.total
  BY DEF ConfirmarSurtido
<1>2. /\ DOMAIN cs = Activas(lineas)
      /\ \A v \in Activas(lineas) : cs[v].n = CantidadSinIntencion(lineas[v])
  BY DEF CalcularAjuste, SinCambios, CantidadFinal
<1>3. SinPar = {} => c.total = TotalDicho(cs)
  BY TotalPropuesto
<1> HIDE DEF c
<1> HIDE DEF cs
<1>4. Sanas(lineas) /\ Sanas(lineas')
  BY ConfirmarSurtidoBien DEF IInv
<1>5. Activas(lineas) \subseteq Variantes
  BY <1>4 DEF Sanas, Activas
<1>6. \A v \in Activas(lineas) : CantidadSinIntencion(lineas[v]) \in Nat
  BY <1>4, Cuentan DEF CantidadSinIntencion, Sanas, Sana, Activas
<1>7. Activas(lineas') \subseteq Activas(lineas)
  BY SurtidoCerrado DEF Activas
<1>8. ASSUME NEW v \in Activas(lineas)
      PROVE  PiezasDe(AplicarCambiosFisicos(lineas'), v) = CantidadSinIntencion(lineas[v])
  <2> DEFINE k == AplicarCambiosFisicos(lineas')
  <2>1. v \in DOMAIN lineas /\ v \in DOMAIN lineas' /\ DOMAIN k = DOMAIN lineas'
    BY SurtidoCerrado, FisicasPorLinea DEF Activas
  <2>2. k[v] = Fisica(lineas'[v])
    BY <2>1, FisicasPorLinea
  <2>3. Fisica(lineas'[v]) = lineas'[v]
    BY <2>1, SurtidoCerrado DEF Fisica, SeCancelaPorFalta
  <2> HIDE DEF k
  <2>4. PiezasDe(k, v) = Da(lineas'[v])
    BY <2>1, <2>2, <2>3 DEF PiezasDe, Activas, Da
  <2>5. QED
    BY <2>1, <2>4, SurtidoCerrado DEF k
<1>9. Tras(lineas', propuesta') = AplicarCambiosFisicos(lineas')
  BY <1>1 DEF Tras
<1>10. QED
  BY <1>1, <1>2, <1>3, <1>5, <1>6, <1>7, <1>8, <1>9 DEF Fiel, c

\* While a proposal waits nobody moves the lines under it.
IInvFiel == IInv /\ PropuestaEnEspera /\ PropuestaFiel

\* An operation that leaves the lines alone.
LEMMA SigueFiel ==
    ASSUME IInvFiel, lineas' = lineas, propuesta' \in {NADA, propuesta}
    PROVE  PropuestaFiel'
  BY DEF IInvFiel, PropuestaFiel, Fiel, Tras

LEMMA SinPropuesta ==
    ASSUME propuesta' = NADA
    PROVE  PropuestaEnEspera' /\ PropuestaFiel'
  BY DEF PropuestaEnEspera, PropuestaFiel

\* One case per action.
LEMMA PasoFiel ==
    ASSUME IInvFiel, [Next]_vars
    PROVE  IInvFiel'
<1> SUFFICES PropuestaEnEspera' /\ PropuestaFiel'
  BY PasoBien DEF IInvFiel
<1>1. ASSUME lineas' = lineas, propuesta' = propuesta,
             estado' \in {estado, "ESPERANDO_APROBACION", "REVISADO"}
      PROVE  PropuestaEnEspera' /\ PropuestaFiel'
  BY <1>1, SigueFiel DEF IInvFiel, PropuestaEnEspera
<1>2. estado \in {"SOLICITADO", "EN_REVISION", "EN_ASESORIA"} => propuesta = NADA
  BY DEF IInvFiel, PropuestaEnEspera
<1>3. CASE DeBodega
  <2>1. CASE Tomar \/ Liberar
    BY <1>2, <2>1, SinPropuesta DEF Tomar, Liberar
  <2>2. CASE \E v \in Variantes, e \in EstadoSurtido, n \in 0..MAX_PIEZAS : MarcarItem(v, e, n)
    BY <1>2, <2>2, SinPropuesta DEF MarcarItem
  <2>3. CASE \E presente \in BOOLEAN : ConfirmarSurtido(presente)
    <3>1. PICK presente \in BOOLEAN : ConfirmarSurtido(presente)
      BY <2>3
    <3>2. CASE Faltantes = {}
      BY <1>2, <3>1, <3>2, SinPropuesta DEF ConfirmarSurtido
    <3>3. CASE Faltantes # {}
      <4>1. PropuestaFiel'
        BY <3>1, <3>3, BodegaFiel DEF IInvFiel, PropuestaFiel
      <4>2. estado' \in {"ESPERANDO_APROBACION", "REVISADO"}
        BY <3>1 DEF ConfirmarSurtido
      <4>3. QED
        BY <4>1, <4>2 DEF PropuestaEnEspera
    <3>4. QED
      BY <3>2, <3>3
  <2>4. CASE LeeConfirmarRepuesto \/ ConfirmarRepuesto
    BY <1>1, <2>4 DEF LeeConfirmarRepuesto, ConfirmarRepuesto, fila, dinero
  <2>5. QED
    BY <1>3, <2>1, <2>2, <2>3, <2>4 DEF DeBodega
<1>4. CASE DePropuesta
  <2>1. CASE \E int \in Intenciones : EnviarPropuesta(int)
    <3>1. PICK int \in Intenciones : EnviarPropuesta(int)
      BY <2>1
    <3>2. /\ lineas' = lineas /\ estado' = "ESPERANDO_APROBACION"
          /\ propuesta'.origen = "VENTAS"
          /\ propuesta'.cambios = CalcularAjuste(lineas, int).cambios
          /\ propuesta'.total = CalcularAjuste(lineas, int).total
          /\ \A v \in DOMAIN int : IntencionValida(lineas, int, v)
      BY <3>1 DEF EnviarPropuesta, dinero
    <3>3. Fiel(lineas, propuesta')
      BY <3>2, VentasFiel DEF IInvFiel, IInv
    <3>4. QED
      BY <3>2, <3>3 DEF PropuestaEnEspera, PropuestaFiel
  <2>2. CASE \/ AprobarPropuestaBodega \/ RechazarPropuestaBodega \/ ContactarAsesor
             \/ AprobarPropuestaVentas \/ RechazarPropuestaVentas \/ CancelarPorPropuesta
             \/ DevolverABodega
    BY <2>2, SinPropuesta
       DEF AprobarPropuestaBodega, RechazarPropuestaBodega, ContactarAsesor,
           AprobarPropuestaVentas, RechazarPropuestaVentas, CancelarPorPropuesta,
           DevolverABodega, CancelarPedido
  <2>3. QED
    BY <1>4, <2>1, <2>2 DEF DePropuesta
<1>5. CASE DeMostrador
  <2>1. CASE LlegaElCliente
    BY <1>1, <2>1 DEF LlegaElCliente, dinero
  <2>2. CASE \E cambios \in CambiosDeItem : LeeAjustar(cambios)
    BY <1>1, <2>2 DEF LeeAjustar, fila, dinero
  <2>3. CASE AjusteRechazado
    BY <1>1, <2>3 DEF AjusteRechazado, fila, dinero
  <2>4. CASE Ajustar \/ EnviarAPagar \/ CancelarMostrador
    BY <2>4, SinPropuesta DEF Ajustar, EnviarAPagar, CancelarMostrador, CancelarPedido
  <2>5. QED
    BY <1>5, <2>1, <2>2, <2>3, <2>4 DEF DeMostrador
<1>6. CASE CancelarCliente
  BY <1>6, SinPropuesta DEF CancelarCliente, CancelarPedido
<1>7. CASE UNCHANGED vars
  BY <1>1, <1>7 DEF vars
<1>8. QED
  BY <1>3, <1>4, <1>5, <1>6, <1>7 DEF Next

\* Applying the pending proposal leaves sound lines, all of them named in it.
LEMMA TrasBien ==
    ASSUME IInv, propuesta # NADA, propuesta.origen \in {"BODEGA", "VENTAS"},
           Fiel(lineas, propuesta)
    PROVE  /\ Sanas(Tras(lineas, propuesta))
           /\ Activas(Tras(lineas, propuesta)) \subseteq DOMAIN propuesta.cambios
<1> DEFINE cs == propuesta.cambios
<1>1. Sanas(lineas) /\ Activas(lineas) \subseteq DOMAIN cs
  BY DEF IInv, Fiel
<1>2. CASE propuesta.origen = "BODEGA"
  <2>1. Tras(lineas, propuesta) = AplicarCambiosFisicos(lineas)
    BY <1>2 DEF Tras
  <2>2. QED
    BY <1>1, <2>1, FaltaDicha, CambiosFisicosConservan
<1>3. CASE propuesta.origen = "VENTAS"
  <2> DEFINE k == LineasPropuestas(lineas, cs)
  <2>1. Tras(lineas, propuesta) = AplicarPropuestaDeVentas(lineas, cs)
    BY <1>3 DEF Tras
  <2>2. /\ DOMAIN cs \subseteq Variantes
        /\ \A v \in DOMAIN cs :
              /\ cs[v].tipo \in TiposDeCambio
              /\ cs[v].n \in Nat
              /\ cs[v].tipo = "agregado" <=> v \notin DOMAIN lineas
    BY <1>3 DEF IInv, PropuestaVigente, Pendiente
  <2>3. Sanas(k) /\ AplicarPropuestaDeVentas(lineas, cs) = AplicarPromoVolumen(k)
    BY <1>1, <2>2, PropuestaPorLineas
  <2>4. ASSUME NEW v \in Activas(k) PROVE v \in DOMAIN cs
    <3>1. v \in DOMAIN lineas /\ v \notin DOMAIN cs => k[v] = lineas[v]
      BY DEF LineasPropuestas
    <3>2. v \in DOMAIN lineas \/ v \in DOMAIN cs
      BY DEF Activas, LineasPropuestas
    <3>3. QED
      BY <1>1, <3>1, <3>2 DEF Activas
  <2> HIDE DEF k
  <2>5. QED
    BY <2>1, <2>3, <2>4, PromoConserva, PromoPiezas
<1>4. QED
  BY <1>2, <1>3

\* calculadora-ajuste.util: what a proposal says, its pieces and its total, is
\* what approving it gives, for the orders whose lines carry their pair of
\* prices (an older order keeps the prices of its lines, and is charged by them).
THEOREM PropuestaCumplida ==
    ASSUME SinPar = {}
    PROVE  Spec => LaPropuestaSeCumple
<1>1. Init => IInvFiel
  <2>1. Init => propuesta = NADA
    BY DEF Init
  <2>2. QED
    BY <2>1, AlEmpezar DEF IInvFiel, PropuestaEnEspera, PropuestaFiel
<1>2. IInvFiel /\ [Next]_vars => IInvFiel'
  BY PasoFiel
<1>3. ASSUME IInvFiel, [Next]_vars, Aprobada
      PROVE  /\ total' = propuesta.total
             /\ \A v \in DOMAIN propuesta.cambios :
                   PiezasDe(lineas', v) = propuesta.cambios[v].n
  <2>1. /\ propuesta # NADA /\ propuesta' = NADA /\ peticion' = peticion
        /\ estado' \in {"REVISADO", "EN_REVISION"}
        /\ estado \in {"ESPERANDO_APROBACION", "REVISADO"}
        /\ Fiel(lineas, propuesta)
    BY <1>3 DEF Aprobada, IInvFiel, PropuestaEnEspera, PropuestaFiel
  <2>2. AprobarPropuestaBodega \/ AprobarPropuestaVentas
    <3>1. ~(propuesta' = propuesta)
      BY <2>1
    <3>2. ~DeBodega
      BY <2>1, <3>1
         DEF DeBodega, Tomar, Liberar, MarcarItem, ConfirmarSurtido, LeeConfirmarRepuesto,
             ConfirmarRepuesto
    <3>3. ~DeMostrador
      <4>1. ~Ajustar
        <5>1. Libre.op # "AJUSTAR"
          BY DEF Libre
        <5>2. QED
          BY <2>1, <5>1 DEF Ajustar
      <4>2. ASSUME NEW cambios \in CambiosDeItem PROVE ~LeeAjustar(cambios)
        BY <3>1 DEF LeeAjustar
      <4>3. ~LlegaElCliente /\ ~AjusteRechazado /\ ~EnviarAPagar /\ ~CancelarMostrador
        BY <2>1, <3>1
           DEF LlegaElCliente, AjusteRechazado, EnviarAPagar, CancelarMostrador, CancelarPedido
      <4>4. QED
        BY <4>1, <4>2, <4>3 DEF DeMostrador
    <3>4. ~CancelarCliente /\ ~UNCHANGED vars
      BY <2>1, <3>1 DEF CancelarCliente, CancelarPedido, vars
    <3>5. DePropuesta
      BY <1>3, <3>2, <3>3, <3>4 DEF Next
    <3>6. QED
      BY <2>1, <3>5
         DEF DePropuesta, RechazarPropuestaBodega, ContactarAsesor, EnviarPropuesta,
             RechazarPropuestaVentas, CancelarPorPropuesta, DevolverABodega, CancelarPedido
  <2> DEFINE ls == Tras(lineas, propuesta)
             cs == propuesta.cambios
  <2>3. /\ propuesta.origen \in {"BODEGA", "VENTAS"}
        /\ lineas' = AplicarPromoVolumen(ls)
        /\ total' = TotalDe(lineas')
    BY <2>2 DEF AprobarPropuestaBodega, AprobarPropuestaVentas, Pendiente, Recalcula, Tras
  <2>4. Sanas(ls) /\ Activas(ls) \subseteq DOMAIN cs
    BY <1>3, <2>1, <2>3, TrasBien DEF IInvFiel
  <2>5. /\ DOMAIN cs \subseteq Variantes
        /\ \A v \in DOMAIN cs : cs[v].n \in Nat /\ PiezasDe(ls, v) = cs[v].n
        /\ propuesta.total = TotalDicho(cs)
    BY <2>1 DEF Fiel
  <2> HIDE DEF ls, cs
  <2>6. TotalDe(AplicarPromoVolumen(ls)) = TotalDicho(cs)
    BY <2>4, <2>5, TotalTrasAprobar
  <2>7. \A v \in DOMAIN cs : PiezasDe(lineas', v) = cs[v].n
    BY <2>3, <2>4, <2>5, PromoPiezas
  <2>8. QED
    BY <2>3, <2>5, <2>6, <2>7 DEF cs
<1>4. QED
  BY <1>1, <1>2, <1>3, PTL DEF Spec, LaPropuestaSeCumple

-----------------------------------------------------------------------------
(* The restocking list.                                                    *)

\* What somebody has yet to return to the shelf.
PorDevolver(r) == IF r # NADA /\ r.estado = "PENDIENTE" THEN r.items ELSE Ninguna

\* What the rows and the requests of the list look like.  A list that comes of
\* a cancellation is only of a cancelled order.
ListaBien ==
    /\ fuera \in Cuentas
    /\ reposicion # NADA => /\ reposicion \in Listas
                            /\ reposicion.deCancelacion => estado = "CANCELADO"
    /\ peticion.op = "REPUESTO" => reposicion # NADA /\ peticion.trae \in Cuentas

\* The pieces in the bag are natural numbers, whatever the lines.
LEMMA BolsaEnCuentas ==
    ASSUME NEW ls, Sanas(ls)
    PROVE  EnBolsaSegun(ls) \in Cuentas
  BY PiezasDeLinea DEF EnBolsaSegun, Sanas, Cuentas

\* So is what an adjustment takes out.
LEMMA QuitadasEnCuentas ==
    ASSUME IInv, peticion.op = "AJUSTAR"
    PROVE  Quitan(peticion.cambios) \in Cuentas
<1> DEFINE cs == peticion.cambios
<1>1. ASSUME NEW v \in DOMAIN cs \cap DOMAIN lineas
      PROVE  Quitadas(lineas[v], cs[v]) \in Nat
  <2>1. Sana(lineas[v]) /\ cs[v].accion \in AccionesDeItem /\ cs[v].n \in Nat
    BY DEF IInv, Sanas, PeticionBien
  <2>2. PiezasEnLaBolsa(lineas[v]) \in Nat
    BY <2>1, PiezasDeLinea
  <2>3. PiezasSobrantes(lineas[v], cs[v].n) \in Nat
    BY <2>1, <2>2 DEF PiezasSobrantes, Resta
  <2>4. QED
    BY <2>1, <2>2, <2>3 DEF Quitadas, AccionesDeItem
<1>2. QED
  BY <1>1 DEF Quitan, Cuentas

\* Merging adds to what is pending, and forgets what was returned already.
LEMMA Fusionada ==
    ASSUME reposicion # NADA, reposicion \in Listas,
           NEW items \in Cuentas, NEW d \in BOOLEAN, NEW r, r = FusionarEnFila(items, d)
    PROVE  /\ r \in Listas
           /\ r # NADA
           /\ r.deCancelacion => d \/ reposicion.deCancelacion
           /\ PorDevolver(r) = Mas(PorDevolver(reposicion), items)
<1>1. PorDevolver(reposicion) \in Cuentas
  BY DEF PorDevolver, Listas, Cuentas, Ninguna
<1>2. /\ reposicion.items \in Cuentas /\ reposicion.estado \in {"PENDIENTE", "REPUESTO"}
      /\ reposicion.deCancelacion \in BOOLEAN
  BY DEF Listas
<1>3. CASE Vacia(items)
  <2>1. r = reposicion
    BY <1>3 DEF FusionarEnFila
  <2>2. Mas(PorDevolver(reposicion), items) = PorDevolver(reposicion)
    BY <1>1, <1>3 DEF Mas, Vacia, Cuentas
  <2>3. QED
    BY <2>1, <2>2
<1>4. CASE ~Vacia(items)
  <2> DEFINE junta == IF reposicion.estado = "REPUESTO" THEN items ELSE Mas(reposicion.items, items)
             c == d \/ (reposicion.deCancelacion /\ reposicion.estado = "PENDIENTE")
  <2>1. r = [estado |-> "PENDIENTE", items |-> junta, deCancelacion |-> c]
    BY <1>4 DEF FusionarEnFila
  <2>2. junta \in Cuentas
    BY <1>2 DEF Mas, Cuentas
  <2>3. c \in BOOLEAN /\ (c => d \/ reposicion.deCancelacion)
    OBVIOUS
  <2>4. junta = Mas(PorDevolver(reposicion), items)
    <3>1. CASE reposicion.estado = "REPUESTO"
      BY <3>1 DEF PorDevolver, Ninguna, Mas, Cuentas
    <3>2. CASE reposicion.estado = "PENDIENTE"
      BY <3>2 DEF PorDevolver
    <3>3. QED
      BY <1>2, <3>1, <3>2
  <2> HIDE DEF junta, c
  <2>5. r \in Listas /\ r.estado = "PENDIENTE" /\ r.items = junta /\ r.deCancelacion = c
    BY <2>1, <2>2, <2>3 DEF Listas
  <2>6. r # NADA
    BY <2>5, NadaAssumption
  <2>7. QED
    BY <2>3, <2>4, <2>5, <2>6 DEF PorDevolver
<1>5. QED
  BY <1>3, <1>4

\* A row is born with what has to be returned, or already returned.
LEMMA RecienCreada ==
    ASSUME NEW items \in Cuentas, NEW e, NEW d \in BOOLEAN,
           e = (IF Vacia(items) THEN "REPUESTO" ELSE "PENDIENTE"),
           NEW r, r = [estado |-> e, items |-> items, deCancelacion |-> d]
    PROVE  r \in Listas /\ r # NADA /\ r.deCancelacion = d
           /\ PorDevolver(r) = Mas(Ninguna, items)
<1>1. r \in Listas /\ r.estado = e /\ r.items = items /\ r.deCancelacion = d
  BY DEF Listas
<1>2. r # NADA
  BY <1>1, NadaAssumption
<1>3. Mas(Ninguna, items) = items
  BY DEF Mas, Ninguna, Cuentas
<1>4. Vacia(items) => items = Ninguna
  BY DEF Vacia, Ninguna, Cuentas
<1>5. QED
  BY <1>1, <1>2, <1>3, <1>4 DEF PorDevolver

\* registrarQuitadasEnMostrador: what leaves the bag at the counter is written
\* down, whether or not there was a row.
LEMMA Registrada ==
    ASSUME reposicion # NADA => reposicion \in Listas,
           NEW items \in Cuentas, RegistrarQuitadasEnMostrador(items)
    PROVE  /\ reposicion' # NADA => reposicion' \in Listas
           /\ reposicion # NADA => reposicion' # NADA
           /\ reposicion' # NADA /\ reposicion'.deCancelacion =>
                 reposicion # NADA /\ reposicion.deCancelacion
           /\ PorDevolver(reposicion') = Mas(PorDevolver(reposicion), items)
<1>1. CASE reposicion # NADA
  <2>1. reposicion' = FusionarEnFila(items, FALSE)
    BY <1>1 DEF RegistrarQuitadasEnMostrador
  <2>2. QED
    BY <1>1, <2>1, Fusionada
<1>2. CASE reposicion = NADA /\ ~Vacia(items)
  <2>1. reposicion' = [estado |-> "PENDIENTE", items |-> items, deCancelacion |-> FALSE]
    BY <1>2 DEF RegistrarQuitadasEnMostrador
  <2>2. PorDevolver(reposicion) = Ninguna
    BY <1>2 DEF PorDevolver
  <2>3. /\ reposicion' \in Listas /\ reposicion' # NADA /\ reposicion'.deCancelacion = FALSE
        /\ PorDevolver(reposicion') = Mas(Ninguna, items)
    BY <1>2, <2>1, RecienCreada
  <2>4. QED
    BY <1>2, <2>2, <2>3
<1>3. CASE reposicion = NADA /\ Vacia(items)
  <2>1. reposicion' = NADA
    BY <1>3 DEF RegistrarQuitadasEnMostrador
  <2>2. Mas(Ninguna, items) = Ninguna
    BY <1>3 DEF Mas, Ninguna, Vacia
  <2>3. QED
    BY <1>3, <2>1, <2>2 DEF PorDevolver
<1>4. QED
  BY <1>1, <1>2, <1>3

\* crearDesdePedido: the cancellation of an order that was not cancelled.
LEMMA Creada ==
    ASSUME reposicion # NADA => reposicion \in Listas /\ ~reposicion.deCancelacion,
           Sanas(lineas), NEW enManos \in BOOLEAN, CrearDesdePedido(enManos)
    PROVE  /\ reposicion' # NADA /\ reposicion' \in Listas
           /\ PorDevolver(reposicion') =
                 Mas(PorDevolver(reposicion),
                     IF enManos THEN Ninguna ELSE EnBolsaSegun(lineas))
<1> DEFINE items == IF enManos THEN Ninguna ELSE EnBolsaSegun(lineas)
<1>1. items \in Cuentas
  BY BolsaEnCuentas DEF Ninguna, Cuentas
<1>2. CASE reposicion = NADA
  <2>1. reposicion' = [estado |-> IF Vacia(items) THEN "REPUESTO" ELSE "PENDIENTE",
                       items |-> items, deCancelacion |-> ~Vacia(items)]
    BY <1>2, FilasDeLaBolsa DEF CrearDesdePedido
  <2>2. PorDevolver(reposicion) = Ninguna
    BY <1>2 DEF PorDevolver
  <2> HIDE DEF items
  <2>3. CASE Vacia(items)
    <3>1. reposicion' = [estado |-> "REPUESTO", items |-> items, deCancelacion |-> FALSE]
      BY <2>1, <2>3
    <3>2. reposicion' \in Listas /\ reposicion' # NADA
          /\ PorDevolver(reposicion') = Mas(Ninguna, items)
      BY <1>1, <2>3, <3>1, RecienCreada
    <3>3. QED
      BY <2>2, <3>2 DEF items
  <2>4. CASE ~Vacia(items)
    <3>1. reposicion' = [estado |-> "PENDIENTE", items |-> items, deCancelacion |-> TRUE]
      BY <2>1, <2>4
    <3>2. reposicion' \in Listas /\ reposicion' # NADA
          /\ PorDevolver(reposicion') = Mas(Ninguna, items)
      BY <1>1, <2>4, <3>1, RecienCreada
    <3>3. QED
      BY <2>2, <3>2 DEF items
  <2>5. QED
    BY <2>3, <2>4
<1>3. CASE reposicion # NADA
  <2>1. reposicion' = FusionarEnFila(items, TRUE)
    BY <1>3, FilasDeLaBolsa DEF CrearDesdePedido
  <2> HIDE DEF items
  <2>2. reposicion' \in Listas /\ reposicion' # NADA
        /\ PorDevolver(reposicion') = Mas(PorDevolver(reposicion), items)
    BY <1>1, <1>3, <2>1, Fusionada
  <2>3. QED
    BY <2>2 DEF items
<1>4. QED
  BY <1>2, <1>3

\* What a cancellation does to the list, and to what is out of the bag.
LEMMA CancelaLista ==
    ASSUME IInv, ListaBien, estado # "CANCELADO", NEW enManos \in BOOLEAN,
           CancelarPedido(enManos)
    PROVE  /\ ListaBien'
           /\ NadaQuedaSinDueno => NadaQuedaSinDueno'
<1> DEFINE items == IF enManos THEN Ninguna ELSE EnBolsaSegun(lineas)
<1>1. /\ estado' = "CANCELADO" /\ peticion' = peticion
      /\ fuera' = IF enManos THEN fuera ELSE Mas(fuera, bolsa)
      /\ CrearDesdePedido(enManos)
  BY DEF CancelarPedido
<1>2. /\ reposicion' # NADA /\ reposicion' \in Listas
      /\ PorDevolver(reposicion') = Mas(PorDevolver(reposicion), items)
  BY <1>1, Creada DEF ListaBien, IInv
<1>3. bolsa = EnBolsaSegun(lineas)
  BY FilasDeLaBolsa DEF IInv, LaBolsaCuadra
<1>4. items \in Cuentas
  BY BolsaEnCuentas DEF Ninguna, Cuentas, IInv
<1>5. fuera' = Mas(fuera, items)
  <2>1. fuera = Mas(fuera, Ninguna)
    BY DEF ListaBien, Mas, Ninguna, Cuentas
  <2>2. QED
    BY <1>1, <1>3, <2>1
<1> HIDE DEF items
<1>6. fuera' \in Cuentas
  BY <1>4, <1>5 DEF ListaBien, Mas, Cuentas
<1>7. ListaBien'
  BY <1>1, <1>2, <1>6 DEF ListaBien
<1>8. ASSUME NadaQuedaSinDueno PROVE NadaQuedaSinDueno'
  <2>1. PorDevolver(reposicion) \in Cuentas
    BY DEF ListaBien, PorDevolver, Listas, Ninguna, Cuentas
  <2>2. ListaPendiente = PorDevolver(reposicion) /\ ListaPendiente' = PorDevolver(reposicion')
    BY DEF ListaPendiente, PorDevolver
  <2>3. \A v \in Variantes : fuera[v] \in Nat /\ fuera[v] <= PorDevolver(reposicion)[v]
    BY <1>8, <2>2 DEF NadaQuedaSinDueno, ListaBien, Cuentas
  <2>4. QED
    BY <1>2, <1>4, <1>5, <2>1, <2>2, <2>3 DEF NadaQuedaSinDueno, Mas, Cuentas
<1>9. QED
  BY <1>7, <1>8

\* What an adjustment does to both.
LEMMA AjustaLista ==
    ASSUME IInv, ListaBien, Ajustar
    PROVE  /\ ListaBien'
           /\ NadaQuedaSinDueno => NadaQuedaSinDueno'
<1> DEFINE items == Quitan(peticion.cambios)
<1>1. /\ peticion.op = "AJUSTAR" /\ estado # "CANCELADO" /\ peticion' = Libre
      /\ fuera' = Mas(fuera, items)
      /\ RegistrarQuitadasEnMostrador(items)
  BY DEF Ajustar, PuedeAjustar
<1>2. items \in Cuentas
  BY <1>1, QuitadasEnCuentas
<1> HIDE DEF items
<1>3. /\ reposicion' # NADA => reposicion' \in Listas
      /\ reposicion' # NADA /\ reposicion'.deCancelacion =>
            reposicion # NADA /\ reposicion.deCancelacion
      /\ PorDevolver(reposicion') = Mas(PorDevolver(reposicion), items)
  BY <1>1, <1>2, Registrada DEF ListaBien
<1>4. fuera' \in Cuentas
  BY <1>1, <1>2 DEF ListaBien, Mas, Cuentas
<1>5. peticion'.op # "REPUESTO"
  BY <1>1 DEF Libre
<1>6. ListaBien'
  BY <1>1, <1>3, <1>4, <1>5 DEF ListaBien
<1>7. ASSUME NadaQuedaSinDueno PROVE NadaQuedaSinDueno'
  <2>1. PorDevolver(reposicion) \in Cuentas
    BY DEF ListaBien, PorDevolver, Listas, Ninguna, Cuentas
  <2>2. ListaPendiente = PorDevolver(reposicion) /\ ListaPendiente' = PorDevolver(reposicion')
    BY DEF ListaPendiente, PorDevolver
  <2>3. \A v \in Variantes : fuera[v] \in Nat /\ fuera[v] <= PorDevolver(reposicion)[v]
    BY <1>7, <2>2 DEF NadaQuedaSinDueno, ListaBien, Cuentas
  <2>4. QED
    BY <1>1, <1>2, <1>3, <2>1, <2>2, <2>3 DEF NadaQuedaSinDueno, Mas, Cuentas
<1>8. QED
  BY <1>6, <1>7

\* Confirming a list returns what it said when it was read.
LEMMA ConfirmaLista ==
    ASSUME ListaBien, ConfirmarRepuesto
    PROVE  /\ ListaBien'
           /\ NadaQuedaSinDueno /\ peticion.trae = reposicion.items => NadaQuedaSinDueno'
<1>1. /\ peticion.op = "REPUESTO" /\ peticion' = Libre /\ estado' = estado
      /\ reposicion' = [reposicion EXCEPT !.estado = "REPUESTO"]
      /\ fuera' = Menos(fuera, peticion.trae)
  BY DEF ConfirmarRepuesto, fila
<1>2. reposicion # NADA /\ reposicion \in Listas /\ peticion.trae \in Cuentas /\ fuera \in Cuentas
  BY <1>1 DEF ListaBien
<1>3. /\ reposicion' \in Listas /\ reposicion'.deCancelacion = reposicion.deCancelacion
      /\ reposicion'.estado = "REPUESTO"
  BY <1>1, <1>2 DEF Listas
<1>4. fuera' \in Cuentas
  BY <1>1, <1>2 DEF Menos, Resta, Cuentas
<1>5. peticion'.op # "REPUESTO"
  BY <1>1 DEF Libre
<1>6. ListaBien'
  BY <1>1, <1>2, <1>3, <1>4, <1>5 DEF ListaBien
<1>7. ASSUME NadaQuedaSinDueno, peticion.trae = reposicion.items PROVE NadaQuedaSinDueno'
  <2>1. ListaPendiente' = Ninguna
    BY <1>3 DEF ListaPendiente
  <2>2. ASSUME NEW v \in Variantes PROVE fuera'[v] = 0
    <3>1. /\ fuera[v] \in Nat /\ reposicion.items[v] \in Nat
          /\ fuera[v] <= reposicion.items[v]
      BY <1>2, <1>7 DEF NadaQuedaSinDueno, ListaPendiente, Listas, Cuentas, Ninguna
    <3>2. fuera'[v] = Resta(fuera[v], reposicion.items[v])
      BY <1>1, <1>7 DEF Menos
    <3>3. QED
      BY <3>1, <3>2 DEF Resta
  <2>3. QED
    BY <2>1, <2>2 DEF NadaQuedaSinDueno, Ninguna
<1>8. QED
  BY <1>6, <1>7

\* An operation that touches neither the list nor what is out of the bag.
LEMMA ListaIgual ==
    ASSUME ListaBien, UNCHANGED <<reposicion, fuera>>,
           estado # "CANCELADO" \/ estado' = "CANCELADO",
           peticion' = peticion \/ peticion'.op # "REPUESTO"
    PROVE  /\ ListaBien'
           /\ NadaQuedaSinDueno => NadaQuedaSinDueno'
  BY DEF ListaBien, NadaQuedaSinDueno, ListaPendiente

\* The list is read.
LEMMA LeeLista ==
    ASSUME ListaBien, LeeConfirmarRepuesto
    PROVE  /\ ListaBien'
           /\ NadaQuedaSinDueno => NadaQuedaSinDueno'
<1>1. /\ UNCHANGED <<estado, reposicion, fuera>>
      /\ reposicion # NADA /\ peticion'.trae = reposicion.items
  BY DEF LeeConfirmarRepuesto, Libre, fila, fisico
<1>2. reposicion.items \in Cuentas
  BY <1>1 DEF ListaBien, Listas
<1>3. QED
  BY <1>1, <1>2 DEF ListaBien, NadaQuedaSinDueno, ListaPendiente

-----------------------------------------------------------------------------
(* In order: nothing changes between the two steps of a request.           *)

Exactas(ls) == \A v \in DOMAIN ls : Exacta(ls[v])

\* Where the bag holds what the order charges, line by line: everywhere but in
\* the hands of the warehouse.
BolsaExacta ==
    estado \in {"ESPERANDO_APROBACION", "EN_ASESORIA", "REVISADO", "PENDIENTE_PAGO"} =>
        Exactas(lineas)

\* What the request in flight read is still so.
PeticionVigente ==
    LET p == peticion IN
    /\ p = Libre \/ p.op \in {"AJUSTAR", "REPUESTO"}
    /\ p.op = "AJUSTAR" =>
          /\ estado \in {"ESPERANDO_APROBACION", "REVISADO"}
          /\ p.vaABodega = (DOMAIN p.cambios = {} \/ AjusteNecesitaBodega(lineas, p.cambios))
          /\ p.destino = (IF p.vaABodega THEN "EN_REVISION" ELSE "REVISADO")
    /\ p.op = "REPUESTO" => p.trae = reposicion.items

EnOrden == BolsaExacta /\ NadaQuedaSinDueno /\ PeticionVigente

\* Nobody moves the order of a request that has read it.
MCInv == IInv /\ ListaBien /\ (~solapo => EnOrden)

\* A shortage over a line that is exact leaves it exact.
LEMMA FisicaExacta ==
    ASSUME NEW it, Sana(it), Exacta(it)
    PROVE  Exacta(Fisica(it))
<1> DEFINE k == Fisica(it)
<1> SUFFICES Exacta(k)
  OBVIOUS
<1>1. /\ it \in Linea /\ it.surtida \in Nat /\ it.retiradas \in Nat /\ it.cantidad \in Nat
      /\ it.cancelada \in BOOLEAN /\ PiezasEnLaBolsa(it) = it.surtida - it.retiradas
  BY PiezasDeLinea, Cuentan DEF Sana
<1>2. CASE k = it
  BY <1>2
<1>3. CASE SeCancelaPorFalta(it) /\ k = DatosDeFaltaDeBodega(it)
  <2>1. k.cancelada /\ k.surtida = 0 /\ k.retiradas = it.retiradas
    BY <1>1, <1>3 DEF DatosDeFaltaDeBodega, Linea
  <2> HIDE DEF k
  <2>2. QED
    BY <1>1, <2>1 DEF Exacta, Da, PiezasEnLaBolsa, Resta
<1>4. CASE /\ ~it.cancelada /\ it.estado = "PARCIAL"
           /\ k = [it EXCEPT !.cantidad = it.surtida, !.estado = "COMPLETO"]
  <2>1. it.retiradas = 0
    BY <1>1, <1>4 DEF Sana, PiezasFueraDeLaBolsa, Resta
  <2>2. ~k.cancelada /\ k.surtida = it.surtida /\ k.retiradas = 0 /\ k.cantidad = it.surtida
    BY <1>1, <1>4, <2>1 DEF Linea
  <2> HIDE DEF k
  <2>3. QED
    BY <1>1, <2>2 DEF Exacta, Da, PiezasEnLaBolsa, Resta
<1>5. QED
  BY <1>2, <1>3, <1>4 DEF Fisica

\* The promotion leaves exact what was exact.
LEMMA PromoExacta ==
    ASSUME NEW ls, Sanas(ls), Exactas(ls)
    PROVE  Exactas(AplicarPromoVolumen(ls))
<1> DEFINE m == AplicarPromoVolumen(ls)
<1>1. /\ DOMAIN m = DOMAIN ls
      /\ \A v \in DOMAIN ls :
            /\ m[v].cantidad = ls[v].cantidad /\ m[v].cancelada = ls[v].cancelada
            /\ m[v].surtida = ls[v].surtida /\ m[v].retiradas = ls[v].retiradas
  BY PromoPiezas
<1> HIDE DEF m
<1>2. Exactas(m)
  BY <1>1 DEF Exactas, Exacta, Da, PiezasEnLaBolsa
<1>3. QED
  BY <1>2 DEF m

\* A proposal of sales over a line that is exact: unless something has to be
\* looked for, or taken out of the bag, it stays exact.
LEMMA LineaAplicadaExacta ==
    ASSUME NEW it, Sana(it), Exacta(it),
           NEW c, c.tipo \in TiposDeCambio, c.tipo # "agregado", c.n \in Nat,
           ~( /\ PiezasEnLaBolsa(it) > 0
              /\ \/ c.tipo = "completo" /\ ~it.cancelada /\ SeCancelaPorFalta(it)
                 \/ c.tipo = "no-disponible"
                 \/ c.tipo = "parcial" /\ c.n < PiezasEnLaBolsa(it)),
           LET k == AplicarLinea(it, c) IN k.cancelada \/ k.estado = "COMPLETO"
    PROVE  Exacta(AplicarLinea(it, c))
<1> DEFINE k == AplicarLinea(it, c)
           q == PiezasEnLaBolsa(it)
<1> SUFFICES Exacta(k)
  OBVIOUS
<1>1. Sana(k) /\ PiezasEnLaBolsa(k) = q
  BY LineaAplicada
<1>2. /\ q \in Nat /\ it \in Linea /\ it.cancelada \in BOOLEAN /\ it.cantidad \in Nat
      /\ q = IF it.cancelada THEN 0 ELSE it.cantidad
  BY PiezasDeLinea, Cuentan DEF Sana, Exacta, Da
<1>3. CASE c.tipo = "completo"
  <2>1. k = Fisica(it)
    BY <1>3 DEF AplicarLinea, Fisica
  <2>2. QED
    BY <2>1, FisicaExacta
<1>4. CASE c.tipo = "no-disponible" \/ (c.tipo = "parcial" /\ c.n = 0)
  <2>1. k.cancelada
    BY <1>2, <1>4 DEF AplicarLinea, DatosDeRetiroPorDecision, Linea
  <2>2. q = 0
    BY <1>2, <1>4
  <2> HIDE DEF k, q
  <2>3. QED
    BY <1>1, <2>1, <2>2 DEF Exacta, Da
<1>5. CASE c.tipo = "parcial" /\ c.n > 0
  <2> DEFINE n == c.n
  <2>1. k = IF SePuedeReponer(it) THEN DatosDeReposicion(it, n)
            ELSE CalcularAjusteDeCantidad(it, n)
    BY <1>5 DEF AplicarLinea
  <2>2. ~SePuedeReponer(it)
    BY <1>2, <2>1 DEF DatosDeReposicion, Linea
  <2>3. /\ k.cancelada = it.cancelada /\ k.cantidad = n
        /\ n > q => k.estado = "PENDIENTE"
    BY <1>2, <2>1, <2>2 DEF CalcularAjusteDeCantidad, SubeLaCantidad, Linea
  <2>4. ~(q > 0 /\ n < q) /\ n \in Nat /\ n > 0 /\ (k.cancelada \/ k.estado = "COMPLETO")
    BY <1>5
  <2> HIDE DEF k, q, n
  <2>5. QED
    BY <1>1, <1>2, <2>3, <2>4 DEF Exacta, Da
<1>6. QED
  BY <1>3, <1>4, <1>5 DEF TiposDeCambio

\* The same of an adjustment that needs nothing from the warehouse.
LEMMA LineaAjustadaExacta ==
    ASSUME NEW it, Sana(it), Exacta(it),
           NEW c, c.accion \in {"parcial", "no-disponible"}, c.n \in Nat,
           c.accion = "parcial" /\ ~it.cancelada => ~SubeLaCantidad(it, c.n)
    PROVE  Exacta(AjustarLinea(it, c))
<1> DEFINE k == AjustarLinea(it, c)
           q == PiezasEnLaBolsa(it)
           n == c.n
<1> SUFFICES Exacta(k)
  OBVIOUS
<1>1. PiezasEnLaBolsa(k) = Resta(q, Quitadas(it, c))
  BY LineaAjustada DEF AccionesDeItem
<1>2. /\ q \in Nat /\ it \in Linea /\ it.cancelada \in BOOLEAN /\ it.cantidad \in Nat
      /\ q = IF it.cancelada THEN 0 ELSE it.cantidad
      /\ n \in Nat
  BY PiezasDeLinea, Cuentan DEF Sana, Exacta, Da
<1>3. CASE c.accion = "no-disponible"
  <2>1. Quitadas(it, c) = q
    BY <1>3 DEF Quitadas
  <2> DEFINE m == DatosDeRetiroPorDecision(it)
  <2>2. k = [m EXCEPT !.retiradas = @ + Quitadas(it, c)]
    BY <1>3 DEF AjustarLinea
  <2>3. m \in Linea /\ m.cancelada
    BY <1>2 DEF DatosDeRetiroPorDecision, Linea
  <2> HIDE DEF m
  <2>4. k.cancelada
    BY <2>2, <2>3 DEF Linea
  <2> HIDE DEF k, q
  <2>5. QED
    BY <1>1, <1>2, <2>1, <2>4 DEF Exacta, Da, Resta
<1>4. CASE c.accion = "parcial"
  <2>1. Quitadas(it, c) = Resta(q, n)
    BY <1>4 DEF Quitadas, PiezasSobrantes
  <2> DEFINE m == CalcularAjusteDeCantidad(it, n)
  <2>2. k = [m EXCEPT !.retiradas = @ + Quitadas(it, c)]
    BY <1>4 DEF AjustarLinea
  <2>3. m \in Linea
    BY AjusteConserva DEF Sana
  <2>4. m.cancelada = it.cancelada /\ m.cantidad = n
    BY <1>2 DEF CalcularAjusteDeCantidad, Linea
  <2> HIDE DEF m
  <2>5. k.cancelada = it.cancelada /\ k.cantidad = n
    BY <2>2, <2>3, <2>4 DEF Linea
  <2>6. ~it.cancelada => ~(n > q)
    BY <1>4 DEF SubeLaCantidad
  <2> HIDE DEF k, q, n
  <2>7. QED
    BY <1>1, <1>2, <2>1, <2>5, <2>6 DEF Exacta, Da, Resta
<1>5. QED
  BY <1>3, <1>4

\* A shortage that the customer accepts.
LEMMA AprobarBodegaExacta ==
    ASSUME IInv, BolsaExacta, AprobarPropuestaBodega
    PROVE  Exactas(lineas')
<1> DEFINE k == AplicarCambiosFisicos(lineas)
<1>1. lineas' = AplicarPromoVolumen(k) /\ estado \in {"ESPERANDO_APROBACION", "REVISADO"}
  BY DEF AprobarPropuestaBodega, Recalcula
<1>2. Sanas(lineas) /\ Exactas(lineas) /\ Sanas(k)
  BY <1>1, CambiosFisicosConservan DEF IInv, BolsaExacta
<1>3. k = [v \in DOMAIN lineas |-> Fisica(lineas[v])]
  BY FisicasPorLinea
<1> HIDE DEF k
<1>4. Exactas(k)
  BY <1>2, <1>3, FisicaExacta DEF Exactas, Sanas
<1>5. QED
  BY <1>1, <1>2, <1>4, PromoExacta

\* A proposal of sales that does not go back to the warehouse.
LEMMA AprobarVentasExacta ==
    ASSUME IInv, BolsaExacta, AprobarPropuestaVentas, estado' = "REVISADO"
    PROVE  Exactas(lineas')
<1> DEFINE cs == propuesta.cambios
           ls == AplicarPropuestaDeVentas(lineas, cs)
           k == LineasPropuestas(lineas, cs)
<1>1. /\ estado \in {"ESPERANDO_APROBACION", "REVISADO"} /\ Pendiente("VENTAS")
      /\ lineas' = AplicarPromoVolumen(ls)
      /\ ~QuedanPendientes(ls) /\ ~HuboRetiro(lineas, cs)
  BY DEF AprobarPropuestaVentas, Recalcula
<1>2. Sanas(lineas) /\ Exactas(lineas)
  BY <1>1 DEF IInv, BolsaExacta
<1>3. /\ DOMAIN cs \subseteq Variantes
      /\ \A v \in DOMAIN cs :
            /\ cs[v].tipo \in TiposDeCambio
            /\ cs[v].n \in Nat
            /\ cs[v].tipo = "agregado" <=> v \notin DOMAIN lineas
  BY <1>1 DEF IInv, PropuestaVigente
<1>4. Sanas(k) /\ ls = AplicarPromoVolumen(k)
  BY <1>2, <1>3, PropuestaPorLineas
<1> HIDE DEF ls
<1>5. ASSUME NEW v \in DOMAIN k PROVE k[v].cancelada \/ k[v].estado = "COMPLETO"
  <2> HIDE DEF k
  <2>1. v \in DOMAIN ls /\ ls[v].cancelada = k[v].cancelada /\ ls[v].estado = k[v].estado
    BY <1>4, PromoPiezas
  <2>2. QED
    BY <1>1, <2>1 DEF QuedanPendientes, Activas
<1>6. ASSUME NEW v \in DOMAIN k PROVE Exacta(k[v])
  <2>1. CASE v \notin DOMAIN lineas
    <3>1. k[v] = ConstruirItemPedido(v, cs[v].n)
      BY <2>1 DEF LineasPropuestas
    <3>2. ~k[v].cancelada /\ k[v].estado = "PENDIENTE"
      BY <3>1 DEF ConstruirItemPedido
    <3>3. QED
      BY <1>5, <3>2
  <2>2. CASE v \in DOMAIN lineas /\ v \notin DOMAIN cs
    <3>1. k[v] = lineas[v]
      BY <2>2 DEF LineasPropuestas
    <3>2. QED
      BY <1>2, <2>2, <3>1 DEF Exactas
  <2>3. CASE v \in DOMAIN lineas /\ v \in DOMAIN cs
    <3> DEFINE it == lineas[v]
               c == cs[v]
    <3>1. k[v] = AplicarLinea(it, c)
      BY <2>3 DEF LineasPropuestas
    <3>2. Sana(it) /\ Exacta(it) /\ c.tipo \in TiposDeCambio /\ c.tipo # "agregado" /\ c.n \in Nat
      BY <1>2, <1>3, <2>3 DEF Exactas, Sanas
    <3>3. ~( /\ PiezasEnLaBolsa(it) > 0
             /\ \/ c.tipo = "completo" /\ ~it.cancelada /\ SeCancelaPorFalta(it)
                \/ c.tipo = "no-disponible"
                \/ c.tipo = "parcial" /\ c.n < PiezasEnLaBolsa(it))
      BY <1>1, <2>3 DEF HuboRetiro
    <3>4. k[v].cancelada \/ k[v].estado = "COMPLETO"
      BY <1>5
    <3> HIDE DEF k, it, c
    <3>5. QED
      BY <3>1, <3>2, <3>3, <3>4, LineaAplicadaExacta
  <2>4. QED
    BY <2>1, <2>2, <2>3
<1> HIDE DEF k
<1>7. Exactas(k)
  BY <1>6 DEF Exactas
<1>8. QED
  BY <1>1, <1>4, <1>7, PromoConserva, PromoExacta

\* An adjustment that stays at the counter.
LEMMA AjustarExacta ==
    ASSUME IInv, BolsaExacta, PeticionVigente, Ajustar, estado' = "REVISADO"
    PROVE  Exactas(lineas')
<1> DEFINE cs == peticion.cambios
           ls == AplicarAjuste(lineas, cs)
           k == [v \in DOMAIN lineas \cup DOMAIN cs |->
                    IF v \notin DOMAIN lineas THEN ConstruirItemPedido(v, cs[v].n)
                    ELSE IF v \in DOMAIN cs THEN AjustarLinea(lineas[v], cs[v])
                    ELSE lineas[v]]
<1>1. /\ peticion.op = "AJUSTAR" /\ estado' = peticion.destino
      /\ cs # SinCambios => SeAplica(cs) /\ lineas' = AplicarPromoVolumen(ls)
  BY DEF Ajustar, Recalcula
<1>2. /\ estado \in {"ESPERANDO_APROBACION", "REVISADO"}
      /\ DOMAIN cs # {} /\ ~AjusteNecesitaBodega(lineas, cs)
  BY <1>1 DEF PeticionVigente
<1>3. cs # SinCambios
  BY <1>2 DEF SinCambios
<1>4. SeAplica(cs) /\ lineas' = AplicarPromoVolumen(ls) /\ ls = AplicarPromoVolumen(k)
  BY <1>1, <1>3 DEF AplicarAjuste
<1>5. Sanas(lineas) /\ Exactas(lineas)
  BY <1>2 DEF IInv, BolsaExacta
<1>6. /\ DOMAIN cs \subseteq Variantes
      /\ \A v \in DOMAIN cs :
            /\ cs[v].accion \in AccionesDeItem
            /\ cs[v].n \in Nat
            /\ cs[v].accion = "agregado" <=> v \notin DOMAIN lineas
            /\ cs[v].accion = "reponer" => SePuedeReponer(lineas[v])
  BY <1>1, <1>4 DEF IInv, PeticionBien, SeAplica
<1>7. \A v \in DOMAIN cs : cs[v].accion \in {"parcial", "no-disponible"} /\ v \in DOMAIN lineas
  BY <1>2, <1>6 DEF AjusteNecesitaBodega, AccionesDeItem
<1>8. DOMAIN k = DOMAIN lineas
  BY <1>7
<1>9. ASSUME NEW v \in DOMAIN lineas PROVE Sana(k[v]) /\ Exacta(k[v])
  <2>1. CASE v \in DOMAIN cs
    <3> DEFINE it == lineas[v]
               c == cs[v]
    <3>1. k[v] = AjustarLinea(it, c)
      BY <2>1
    <3>2. Sana(it) /\ Exacta(it) /\ c.n \in Nat /\ c.accion \in {"parcial", "no-disponible"}
      BY <1>5, <1>6, <1>7, <2>1 DEF Exactas, Sanas
    <3>3. c.accion = "parcial" /\ ~it.cancelada => ~SubeLaCantidad(it, c.n)
      BY <1>2, <2>1 DEF AjusteNecesitaBodega, Activas
    <3> HIDE DEF k, it, c
    <3>4. QED
      BY <3>1, <3>2, <3>3, LineaAjustada, LineaAjustadaExacta DEF AccionesDeItem
  <2>2. CASE v \notin DOMAIN cs
    <3>1. k[v] = lineas[v]
      BY <2>2
    <3>2. QED
      BY <1>5, <3>1 DEF Exactas, Sanas
  <2>3. QED
    BY <2>1, <2>2
<1>10. k = [v \in DOMAIN k |-> k[v]]
  OBVIOUS
<1> HIDE DEF k, ls
<1>11. Sanas(k) /\ Exactas(k)
  BY <1>5, <1>8, <1>9, <1>10 DEF Sanas, Exactas
<1>12. QED
  BY <1>4, <1>11, PromoConserva, PromoExacta

\* One case per action: the list, whatever the requests.
LEMMA PasoLista ==
    ASSUME IInv, ListaBien, [Next]_vars
    PROVE  /\ ListaBien'
           /\ NadaQuedaSinDueno /\ (peticion.op = "REPUESTO" => peticion.trae = reposicion.items)
                 => NadaQuedaSinDueno'
<1>1. CASE DeBodega
  <2>1. CASE Tomar \/ Liberar
    BY <2>1, ListaIgual DEF Tomar, Liberar, fisico
  <2>2. CASE \E v \in Variantes, e \in EstadoSurtido, n \in 0..MAX_PIEZAS : MarcarItem(v, e, n)
    BY <2>2, ListaIgual DEF MarcarItem, fila
  <2>3. CASE \E presente \in BOOLEAN : ConfirmarSurtido(presente)
    BY <2>3, ListaIgual DEF ConfirmarSurtido
  <2>4. CASE LeeConfirmarRepuesto
    BY <2>4, LeeLista
  <2>5. CASE ConfirmarRepuesto
    BY <2>5, ConfirmaLista DEF ConfirmarRepuesto
  <2>6. QED
    BY <1>1, <2>1, <2>2, <2>3, <2>4, <2>5 DEF DeBodega
<1>2. CASE DePropuesta
  <2>1. CASE RechazarPropuestaBodega \/ CancelarPorPropuesta
    BY <2>1, CancelaLista DEF RechazarPropuestaBodega, CancelarPorPropuesta
  <2>2. CASE \E int \in Intenciones : EnviarPropuesta(int)
    BY <2>2, ListaIgual DEF EnviarPropuesta, fisico
  <2>3. CASE \/ AprobarPropuestaBodega \/ ContactarAsesor \/ AprobarPropuestaVentas
             \/ RechazarPropuestaVentas \/ DevolverABodega
    BY <2>3, ListaIgual
       DEF AprobarPropuestaBodega, ContactarAsesor, AprobarPropuestaVentas,
           RechazarPropuestaVentas, DevolverABodega, fisico
  <2>4. QED
    BY <1>2, <2>1, <2>2, <2>3 DEF DePropuesta
<1>3. CASE DeMostrador
  <2>1. CASE LlegaElCliente \/ EnviarAPagar
    BY <2>1, ListaIgual DEF LlegaElCliente, EnviarAPagar, fisico
  <2>2. CASE \E cambios \in CambiosDeItem : LeeAjustar(cambios)
    BY <2>2, ListaIgual DEF LeeAjustar, Libre, fila, fisico
  <2>3. CASE Ajustar
    BY <2>3, AjustaLista
  <2>4. CASE AjusteRechazado
    BY <2>4, ListaIgual DEF AjusteRechazado, Libre, fila, fisico
  <2>5. CASE CancelarMostrador
    BY <2>5, CancelaLista DEF CancelarMostrador
  <2>6. QED
    BY <1>3, <2>1, <2>2, <2>3, <2>4, <2>5 DEF DeMostrador
<1>4. CASE CancelarCliente
  BY <1>4, CancelaLista DEF CancelarCliente, BolsaEnManosDeBodega
<1>5. CASE UNCHANGED vars
  BY <1>5, ListaIgual DEF vars
<1>6. QED
  BY <1>1, <1>2, <1>3, <1>4, <1>5 DEF Next

\* An operation that leaves the lines where they were exact, or takes the order
\* to where they need not be.
LEMMA SigueExacta ==
    ASSUME BolsaExacta, lineas' = lineas,
           estado' \in {"EN_REVISION", "CANCELADO", estado}
              \/ estado \in {"ESPERANDO_APROBACION", "EN_ASESORIA", "REVISADO"}
    PROVE  BolsaExacta'
  BY DEF BolsaExacta, Exactas

\* One case per action: what the bag holds.
LEMMA PasoExacto ==
    ASSUME IInv, BolsaExacta, PeticionVigente, [Next]_vars
    PROVE  BolsaExacta'
<1>1. CASE DeBodega
  <2>1. CASE Tomar \/ Liberar
    BY <2>1, SigueExacta DEF Tomar, Liberar, dinero
  <2>2. CASE \E v \in Variantes, e \in EstadoSurtido, n \in 0..MAX_PIEZAS : MarcarItem(v, e, n)
    BY <2>2 DEF MarcarItem, fila, BolsaExacta
  <2>3. CASE \E presente \in BOOLEAN : ConfirmarSurtido(presente)
    BY <2>3, SurtidoCerrado DEF BolsaExacta, Exactas
  <2>4. CASE LeeConfirmarRepuesto \/ ConfirmarRepuesto
    BY <2>4, SigueExacta DEF LeeConfirmarRepuesto, ConfirmarRepuesto, fila, dinero
  <2>5. QED
    BY <1>1, <2>1, <2>2, <2>3, <2>4 DEF DeBodega
<1>2. CASE DePropuesta
  <2>1. CASE RechazarPropuestaBodega \/ CancelarPorPropuesta
    BY <2>1, SigueExacta DEF RechazarPropuestaBodega, CancelarPorPropuesta, CancelarPedido, dinero
  <2>2. CASE ContactarAsesor \/ RechazarPropuestaVentas \/ DevolverABodega
    BY <2>2, SigueExacta DEF ContactarAsesor, RechazarPropuestaVentas, DevolverABodega, dinero
  <2>3. CASE \E int \in Intenciones : EnviarPropuesta(int)
    BY <2>3, SigueExacta DEF EnviarPropuesta, dinero
  <2>4. CASE AprobarPropuestaBodega
    BY <2>4, AprobarBodegaExacta DEF BolsaExacta
  <2>5. CASE AprobarPropuestaVentas
    <3>1. estado' \in {"EN_REVISION", "REVISADO"}
      BY <2>5 DEF AprobarPropuestaVentas
    <3>2. QED
      BY <2>5, <3>1, AprobarVentasExacta DEF BolsaExacta
  <2>6. QED
    BY <1>2, <2>1, <2>2, <2>3, <2>4, <2>5 DEF DePropuesta
<1>3. CASE DeMostrador
  <2>1. CASE LlegaElCliente \/ EnviarAPagar
    BY <2>1, SigueExacta DEF LlegaElCliente, EnviarAPagar, dinero
  <2>2. CASE \E cambios \in CambiosDeItem : LeeAjustar(cambios)
    BY <2>2, SigueExacta DEF LeeAjustar, fila, dinero
  <2>3. CASE Ajustar
    <3>1. estado' \in {"EN_REVISION", "REVISADO"}
      BY <2>3 DEF Ajustar, PeticionVigente
    <3>2. QED
      BY <2>3, <3>1, AjustarExacta DEF BolsaExacta
  <2>4. CASE AjusteRechazado
    BY <2>4, SigueExacta DEF AjusteRechazado, fila, dinero
  <2>5. CASE CancelarMostrador
    BY <2>5, SigueExacta DEF CancelarMostrador, CancelarPedido, dinero
  <2>6. QED
    BY <1>3, <2>1, <2>2, <2>3, <2>4, <2>5 DEF DeMostrador
<1>4. CASE CancelarCliente
  BY <1>4, SigueExacta DEF CancelarCliente, CancelarPedido, dinero
<1>5. CASE UNCHANGED vars
  BY <1>5, SigueExacta DEF vars
<1>6. QED
  BY <1>1, <1>2, <1>3, <1>4, <1>5 DEF Next

\* Nothing happens between the two steps of a request: it is the request
\* itself that ends.
LEMMA PasoPeticion ==
    ASSUME PeticionVigente, Next, peticion = Libre \/ peticion' # peticion
    PROVE  PeticionVigente'
<1>1. Libre.op \notin {"AJUSTAR", "REPUESTO"}
  BY DEF Libre
<1>2. CASE peticion' = Libre
  BY <1>1, <1>2 DEF PeticionVigente
<1>3. CASE LeeConfirmarRepuesto
  <2>1. /\ peticion'.op = "REPUESTO" /\ peticion'.trae = reposicion.items
        /\ reposicion' = reposicion
    BY <1>3 DEF LeeConfirmarRepuesto, Libre
  <2>2. QED
    BY <2>1 DEF PeticionVigente
<1>4. CASE \E cambios \in CambiosDeItem : LeeAjustar(cambios)
  <2>1. PICK cambios \in CambiosDeItem : LeeAjustar(cambios)
    BY <1>4
  <2> DEFINE va == DOMAIN cambios = {} \/ AjusteNecesitaBodega(lineas, cambios)
  <2>2. /\ estado \in {"ESPERANDO_APROBACION", "REVISADO"}
        /\ estado' = estado /\ lineas' = lineas
        /\ peticion' = [Libre EXCEPT !.op = "AJUSTAR", !.cambios = cambios, !.vaABodega = va,
                                     !.destino = IF va THEN "EN_REVISION" ELSE "REVISADO"]
    BY <2>1 DEF LeeAjustar, fila, dinero
  <2> HIDE DEF va
  <2>3. /\ peticion'.op = "AJUSTAR" /\ peticion'.cambios = cambios /\ peticion'.vaABodega = va
        /\ peticion'.destino = (IF va THEN "EN_REVISION" ELSE "REVISADO")
    BY <2>2 DEF Libre
  <2>4. va = (DOMAIN cambios = {} \/ AjusteNecesitaBodega(lineas, cambios))
    BY DEF va
  <2>5. QED
    BY <2>2, <2>3, <2>4 DEF PeticionVigente, AjusteNecesitaBodega
<1>5. CASE peticion' = peticion
  BY <1>2, <1>5
<1>6. peticion' = Libre \/ peticion' = peticion \/ LeeConfirmarRepuesto
         \/ (\E cambios \in CambiosDeItem : LeeAjustar(cambios))
  <2>1. DeBodega => peticion' = Libre \/ peticion' = peticion \/ LeeConfirmarRepuesto
    BY DEF DeBodega, Tomar, Liberar, MarcarItem, ConfirmarSurtido, ConfirmarRepuesto
  <2>2. DePropuesta => peticion' = peticion
    BY DEF DePropuesta, AprobarPropuestaBodega, RechazarPropuestaBodega, ContactarAsesor,
           EnviarPropuesta, AprobarPropuestaVentas, RechazarPropuestaVentas,
           CancelarPorPropuesta, DevolverABodega, CancelarPedido
  <2>3. DeMostrador => peticion' = Libre \/ peticion' = peticion
                          \/ (\E cambios \in CambiosDeItem : LeeAjustar(cambios))
    BY DEF DeMostrador, LlegaElCliente, Ajustar, AjusteRechazado, EnviarAPagar,
           CancelarMostrador, CancelarPedido
  <2>4. CancelarCliente => peticion' = peticion
    BY DEF CancelarCliente, CancelarPedido
  <2>5. QED
    BY <2>1, <2>2, <2>3, <2>4 DEF Next
<1>7. QED
  BY <1>2, <1>3, <1>4, <1>5, <1>6

LEMMA MCAlEmpezar == MCInit => MCInv
<1> SUFFICES ASSUME MCInit PROVE MCInv
  OBVIOUS
<1>1. Init
  BY DEF MCInit
<1>2. IInv
  BY <1>1, AlEmpezar
<1>3. ListaBien
  BY <1>1 DEF Init, ListaBien, Cuentas, Ninguna, Libre
<1>4. NadaQuedaSinDueno
  BY <1>1 DEF Init, NadaQuedaSinDueno, ListaPendiente, Ninguna
<1>5. BolsaExacta
  BY <1>1 DEF Init, BolsaExacta
<1>6. PeticionVigente
  BY <1>1 DEF Init, PeticionVigente, Libre
<1>7. QED
  BY <1>2, <1>3, <1>4, <1>5, <1>6 DEF MCInv, EnOrden

LEMMA MCPaso ==
    ASSUME MCInv, [MCNext]_varsMC
    PROVE  MCInv'
<1>1. [Next]_vars
  BY DEF MCNext, varsMC
<1>2. IInv' /\ ListaBien'
  BY <1>1, PasoBien, PasoLista DEF MCInv
<1>3. ASSUME ~solapo' PROVE EnOrden'
  <2>1. CASE MCNext
    <3>1. /\ Next /\ ~solapo
          /\ peticion = Libre \/ peticion' # peticion
      BY <1>3, <2>1 DEF MCNext
    <3>2. EnOrden
      BY <3>1 DEF MCInv
    <3>3. BolsaExacta'
      BY <1>1, <3>2, PasoExacto DEF MCInv, EnOrden
    <3>4. NadaQuedaSinDueno'
      BY <1>1, <3>2, PasoLista DEF MCInv, EnOrden, PeticionVigente
    <3>5. PeticionVigente'
      BY <3>1, <3>2, PasoPeticion DEF EnOrden
    <3>6. QED
      BY <3>3, <3>4, <3>5 DEF EnOrden
  <2>2. CASE UNCHANGED varsMC
    <3>1. EnOrden /\ UNCHANGED vars
      BY <1>3, <2>2 DEF varsMC, MCInv
    <3>2. QED
      BY <3>1
         DEF vars, EnOrden, BolsaExacta, Exactas, NadaQuedaSinDueno, ListaPendiente,
             PeticionVigente, AjusteNecesitaBodega, Activas
  <2>3. QED
    BY <2>1, <2>2
<1>4. QED
  BY <1>2, <1>3 DEF MCInv

\* The inductive invariant of the orders that nothing overtakes: the bag is
\* exact outside the warehouse, the list names what is out of it, and what a
\* request read is still so.
THEOREM InvarianciaEnOrden == MCSpec => []MCInv
  BY MCAlEmpezar, MCPaso, PTL DEF MCSpec

\* Every piece out of the bag is on the list of somebody who returns it, while
\* nothing has changed under a request (mostrador.service: "mercancia fuera de
\* la bolsa sin nadie que la devuelva").
THEOREM NadaSinDueno == MCSpec => []NadaQuedaSinDuenoEnOrden
<1>1. MCInv => NadaQuedaSinDuenoEnOrden
  BY DEF MCInv, EnOrden, NadaQuedaSinDuenoEnOrden
<1>2. QED
  BY InvarianciaEnOrden, <1>1, PTL

\* What is charged is what is in the bag, piece by piece, while nothing has
\* changed under a request (confirmarSurtido: "lo que se cobra es lo que se
\* surtio").
THEOREM CobradoLoSurtido == MCSpec => []SeCobraLoSurtidoEnOrden
<1>1. MCInv => SeCobraLoSurtidoEnOrden
  <2> SUFFICES ASSUME MCInv, ~solapo, estado = "PENDIENTE_PAGO", NEW v \in DOMAIN lineas
               PROVE  bolsa[v] = Da(lineas[v])
    BY DEF SeCobraLoSurtidoEnOrden, SeCobraLoSurtido, Da
  <2>1. IInv /\ Exacta(lineas[v]) /\ v \in Variantes
    BY DEF MCInv, EnOrden, BolsaExacta, Exactas, IInv, Sanas
  <2>2. bolsa[v] = PiezasEnLaBolsa(lineas[v])
    BY <2>1 DEF IInv, LaBolsaCuadra, EnBolsaSegunFilas, PorVariante
  <2>3. QED
    BY <2>1, <2>2 DEF Exacta
<1>2. QED
  BY InvarianciaEnOrden, <1>1, PTL

-----------------------------------------------------------------------------
(* Types.                                                                  *)

\* What the lines of an order cost is a natural number.
LEMMA TotalNatural ==
    ASSUME NEW ls, Sanas(ls)
    PROVE  TotalDe(ls) \in Nat
<1> DEFINE f == [v \in Activas(ls) |-> ls[v].precio * ls[v].cantidad]
<1>1. ASSUME NEW v \in Activas(ls) PROVE f[v] \in Nat
  <2>1. ls[v].precio \in Nat /\ ls[v].cantidad \in Nat
    BY DEF Activas, Sanas, Sana, Linea
  <2>2. QED
    BY <2>1, ProductoNatural
<1>2. DOMAIN f = Activas(ls) /\ IsFiniteSet(Activas(ls))
  BY PreciosAssumption, FS_Subset DEF Sanas, Activas
<1> HIDE DEF f
<1>3. SumFunction(f) \in Nat
  BY <1>1, <1>2, SumaNatural DEF SumFunction
<1>4. QED
  BY <1>3 DEF TotalDe, f

\* What each action writes in the row, the total and the bag.
LEMMA Escrito ==
    ASSUME IInv, TypeOK, [Next]_vars
    PROVE  /\ estado' \in Estados /\ asignado' \in BOOLEAN /\ cerro' \in BOOLEAN
           /\ total' = total \/ total' = TotalDe(lineas')
           /\ estado' # "CANCELADO" \/ bolsa' \in {bolsa, Ninguna}
<1>1. estado \in Estados /\ asignado \in BOOLEAN /\ cerro \in BOOLEAN
  BY DEF TypeOK
<1>2. CASE DeBodega
  <2>1. CASE Tomar \/ Liberar
    BY <1>1, <2>1 DEF Tomar, Liberar, dinero, fisico, Estados
  <2>2. CASE \E v \in Variantes, e \in EstadoSurtido, n \in 0..MAX_PIEZAS : MarcarItem(v, e, n)
    BY <1>1, <2>2 DEF MarcarItem, fila
  <2>3. CASE \E presente \in BOOLEAN : ConfirmarSurtido(presente)
    BY <1>1, <2>3 DEF ConfirmarSurtido, Recalcula, Estados
  <2>4. CASE LeeConfirmarRepuesto \/ ConfirmarRepuesto
    BY <1>1, <2>4 DEF LeeConfirmarRepuesto, ConfirmarRepuesto, fila, dinero, fisico
  <2>5. QED
    BY <1>2, <2>1, <2>2, <2>3, <2>4 DEF DeBodega
<1>3. CASE DePropuesta
  <2>1. CASE RechazarPropuestaBodega \/ CancelarPorPropuesta
    BY <1>1, <2>1
       DEF RechazarPropuestaBodega, CancelarPorPropuesta, CancelarPedido, dinero, Estados
  <2>2. CASE ContactarAsesor \/ RechazarPropuestaVentas \/ DevolverABodega
    BY <1>1, <2>2
       DEF ContactarAsesor, RechazarPropuestaVentas, DevolverABodega, dinero, fisico, Estados
  <2>3. CASE \E int \in Intenciones : EnviarPropuesta(int)
    BY <1>1, <2>3 DEF EnviarPropuesta, dinero, fisico, Estados
  <2>4. CASE AprobarPropuestaBodega
    BY <1>1, <2>4 DEF AprobarPropuestaBodega, Recalcula, fisico, Estados
  <2>5. CASE AprobarPropuestaVentas
    <3>1. /\ estado' \in {"EN_REVISION", "REVISADO"} /\ asignado' = FALSE
          /\ cerro' = (cerro \/ estado' = "REVISADO")
          /\ total' = TotalDe(lineas')
      BY <2>5 DEF AprobarPropuestaVentas, Recalcula
    <3>2. QED
      BY <1>1, <3>1 DEF Estados
  <2>6. QED
    BY <1>3, <2>1, <2>2, <2>3, <2>4, <2>5 DEF DePropuesta
<1>4. CASE DeMostrador
  <2>1. CASE LlegaElCliente \/ EnviarAPagar
    BY <1>1, <2>1 DEF LlegaElCliente, EnviarAPagar, dinero, fisico, Estados
  <2>2. CASE \E cambios \in CambiosDeItem : LeeAjustar(cambios)
    BY <1>1, <2>2 DEF LeeAjustar, fila, dinero, fisico
  <2>3. CASE Ajustar
    <3>1. /\ peticion.op = "AJUSTAR" /\ estado' = peticion.destino
          /\ asignado' = (asignado /\ ~peticion.vaABodega)
          /\ cerro' = (cerro \/ (estado = "EN_REVISION" /\ peticion.destino = "REVISADO"))
          /\ total' = total \/ total' = TotalDe(lineas')
      BY <2>3 DEF Ajustar, Recalcula, dinero
    <3>2. estado' \in {"EN_REVISION", "REVISADO"}
      BY <3>1 DEF IInv, PeticionBien
    <3>3. QED
      BY <1>1, <3>1, <3>2 DEF Estados
  <2>4. CASE AjusteRechazado
    BY <1>1, <2>4 DEF AjusteRechazado, fila, dinero, fisico
  <2>5. CASE CancelarMostrador
    BY <1>1, <2>5 DEF CancelarMostrador, CancelarPedido, dinero, Estados
  <2>6. QED
    BY <1>4, <2>1, <2>2, <2>3, <2>4, <2>5 DEF DeMostrador
<1>5. CASE CancelarCliente
  BY <1>1, <1>5 DEF CancelarCliente, CancelarPedido, dinero, Estados
<1>6. CASE UNCHANGED vars
  BY <1>1, <1>6 DEF vars
<1>7. QED
  BY <1>2, <1>3, <1>4, <1>5, <1>6 DEF Next

\* The types of the order, its lines, its total and its two counts.
THEOREM TipoCorrecto == Spec => []TypeOK
<1> DEFINE Inv == IInv /\ ListaBien /\ TypeOK
<1>1. ASSUME IInv
      PROVE  DOMAIN lineas \subseteq Variantes /\ \A v \in DOMAIN lineas : lineas[v] \in Linea
  BY <1>1 DEF IInv, Sanas, Sana
<1>2. ASSUME Init PROVE Inv
  <2>1. IInv
    BY <1>2, AlEmpezar
  <2>2. total \in Nat
    BY <1>2, <2>1, TotalNatural DEF Init, IInv
  <2>3. ListaBien
    BY <1>2 DEF Init, ListaBien, Cuentas, Ninguna, Libre
  <2>4. QED
    BY <1>1, <1>2, <2>1, <2>2, <2>3 DEF Init, TypeOK, Estados, Cuentas, Ninguna
<1>3. ASSUME Inv, [Next]_vars PROVE Inv'
  <2>1. IInv' /\ ListaBien'
    BY <1>3, PasoBien, PasoLista
  <2>2. total' \in Nat
    BY <1>3, <2>1, Escrito, TotalNatural DEF TypeOK, IInv
  <2>3. bolsa' \in Cuentas
    <3>1. CASE estado' # "CANCELADO"
      <4>1. bolsa' = EnBolsaSegun(lineas')
        BY <2>1, <3>1 DEF IInv, LaBolsaCuadra, EnBolsaSegunFilas, PorVariante, EnBolsaSegun
      <4>2. QED
        BY <2>1, <4>1, BolsaEnCuentas DEF IInv
    <3>2. CASE bolsa' \in {bolsa, Ninguna}
      BY <1>3, <3>2 DEF TypeOK, Ninguna, Cuentas
    <3>3. QED
      BY <1>3, <3>1, <3>2, Escrito
  <2>4. DOMAIN lineas' \subseteq Variantes /\ \A v \in DOMAIN lineas' : lineas'[v] \in Linea
    BY <2>1 DEF IInv, Sanas, Sana
  <2>5. QED
    BY <1>3, <2>1, <2>2, <2>3, <2>4, Escrito DEF TypeOK, ListaBien
<1>4. QED
  BY <1>2, <1>3, PTL DEF Spec
=============================================================================
