--------------------------- MODULE EstacionesProofs ---------------------------
(***************************************************************************)
(* Proofs about the counters and about the presence of the warehouse, for  *)
(* any number of orders, counters, users, requests and tokens.             *)
(*                                                                         *)
(* The code promises nothing when two requests overlap, and TLC shows the  *)
(* ways it goes wrong.  What it does promise is said while nobody has      *)
(* overlapped, and that is where the proofs start: then the only request   *)
(* under way finds what it read as it left it, however many steps the      *)
(* world outside and the clock have taken between its two halves.          *)
(***************************************************************************)
EXTENDS MCEstaciones, FiniteSetTheorems, SequenceTheorems, TLAPS

\* One request at most is under way, and none while the sweep still has a list
\* to go through.
UnoSolo(pets, quedan, libre) ==
    /\ \A r1, r2 \in Actores : pets[r1] # libre /\ pets[r2] # libre => r1 = r2
    /\ quedan # {} => \A r \in Peticiones : pets[r] = libre

Orden == /\ solapo \in BOOLEAN /\ desvio \in BOOLEAN
         /\ ~solapo => /\ UnoSolo(peticiones, barrido, Libre)
                       /\ UnoSolo(peticionesB, barridoB, B!Libre)

-----------------------------------------------------------------------------
(* The invariant of the counters.                                          *)

\* A request names what its operation needs.
Datos(l) ==
    /\ l.op = "NINGUNA" => l = Libre
    /\ l.op \in {"LLAMAR", "DEVOLVER", "NO_SE_PRESENTO", "DESCARTAR"} => l.ped \in Pedidos
    /\ l.op \in {"ELEGIR", "SOLTAR", "LISTAR", "REGRESAR", "BORRAR"} => l.most \in Mostradores
    /\ l.op \in {"ELEGIR", "SOLTAR"} => l.quien \in Personal

ConSusDatos == \A r \in Actores : Datos(peticiones[r])

\* What it read is still true when it commits.
Vale(l) ==
    /\ l.op = "LLAMAR" => EnTienda(l.ped)
    /\ l.op = "LLAMAR" /\ l.most # NADIE => mostradores[l.most] \in Personal
    /\ l.op = "DESCARTAR" /\ l.leido # "EN_ATENCION" => pedidos[l.ped].estado # "EN_ATENCION"

LeidoVale == \A r \in Actores : Vale(peticiones[r])

\* A customer announced at a counter without operator is on the list of who
\* freed it, or that list is still to be made.
ConQuienLoRegrese ==
    \A p \in Pedidos, m \in Mostradores :
        Anunciado(p, m) => \/ mostradores[m] \in Personal
                           \/ \E r \in Actores : LoRegresa(r, p, m)

InvMostradores ==
    /\ TypeOK
    /\ ConSusDatos
    /\ ~solapo => LeidoVale /\ LlamadoPresente
    /\ (~solapo /\ ~desvio) => ConQuienLoRegrese
-----------------------------------------------------------------------------
(* The invariant of the warehouse.                                         *)

\* The tokens are issued one after another, each into a family whose first
\* token was issued, and a row is empty until then.
Seguidos ==
    /\ \E n \in 0..MAX_TOKENS : B!Emitidos = 1..n
    /\ \A t \in B!Tokens \ B!Emitidos : tokens[t].familia = 0
    /\ \A t \in B!Emitidos : tokens[t].familia \in B!Emitidos /\ tokens[t].quien \in Usuarios

\* A family is of one user.
UnDueno ==
    \A t, x \in B!Emitidos :
        tokens[t].familia = tokens[x].familia => tokens[t].quien = tokens[x].quien

Cerrada(f) == \E x \in B!Emitidos : tokens[x].familia = f /\ tokens[x].estado = "CERRADO"

\* A family is closed whole.
CerradasDelTodo ==
    \A t \in B!Emitidos : tokens[t].estado = "VIVO" => ~Cerrada(tokens[t].familia)

\* A request names what its operation needs, and its token is of its user.
DatosB(l) ==
    /\ l.op = "NINGUNA" => l = B!Libre
    /\ l.op # "NINGUNA" => l.quien \in Usuarios
    /\ l.op \in {"RENOVAR", "CONTAR", "REVOCAR"} => l.tok # 0
    /\ l.op = "ENTRAR" => l.tok = 0
    /\ l.op = "TOMAR" => l.ped \in Pedidos
    /\ l.op \in {"EMITIR", "RENOVAR", "CONTAR", "REVOCAR"} /\ l.tok # 0
         => l.tok \in B!Emitidos /\ tokens[l.tok].quien = l.quien

ConSusDatosB == \A r \in Actores : DatosB(peticionesB[r])

\* The family of a refresh in its grace is open, and who closes sessions found
\* alive all or none of each.
ValeB(l) ==
    /\ l.op = "EMITIR" /\ l.tok # 0 => ~Cerrada(tokens[l.tok].familia)
    /\ l.op = "CERRAR" =>
         \A t \in l.cierra, x \in B!Emitidos :
            (tokens[t].familia = tokens[x].familia /\ tokens[x].estado = "VIVO") => x \in l.cierra

LeidoValeB == \A r \in Actores : ValeB(peticionesB[r])

\* Whoever is about to leave on their own has no session alive.
ValeSalir(l) == l.op = "SALIR" => ~B!HaySesionViva(l.quien)

SalenSinSesion == \A r \in Peticiones : ValeSalir(peticionesB[r])

\* Whomever the sweep is about to take out has stopped giving heartbeats.
BarridoAlDia ==
    LET b == peticionesB[BARRENDERO]
    IN  /\ \A u \in barridoB : latido[u] = "VIEJO"
        /\ b.op = "SALIR" => latido[b.quien] = "VIEJO" /\ b.quien \notin barridoB

InvBodega ==
    /\ B!TypeOK
    /\ peticionesB[BARRENDERO].op \in {"NINGUNA", "SALIR"}
    /\ Seguidos /\ UnDueno /\ ConSusDatosB
    /\ ~solapo => CerradasDelTodo /\ LeidoValeB /\ SalenSinSesion /\ BarridoAlDia
    /\ (~solapo /\ ~desvio) => B!QuienSalioNoTraePedidos

IInv == Orden /\ InvMostradores /\ InvBodega
-----------------------------------------------------------------------------
(* Types.                                                                  *)

LEMMA LibreEsLectura == Libre \in Lecturas /\ Datos(Libre)
  BY DEF Libre, Lecturas, Ops, Datos

\* A request that takes a record of the right kind keeps the types.
LEMMA SigueBien ==
  ASSUME TypeOK, ConSusDatos, NEW r \in Actores, NEW l \in Lecturas, Datos(l), Sigue(r, l)
  PROVE  /\ peticiones' \in [Actores -> Lecturas]
         /\ ConSusDatos'
         /\ peticiones'[r] = l
         /\ \A s \in Actores \ {r} : peticiones'[s] = peticiones[s]
  BY DEF TypeOK, ConSusDatos, Sigue

LEMMA TerminaBien ==
  ASSUME TypeOK, ConSusDatos, NEW r \in Actores, Termina(r)
  PROVE  /\ peticiones' \in [Actores -> Lecturas]
         /\ ConSusDatos'
         /\ peticiones'[r] = Libre
         /\ \A s \in Actores \ {r} : peticiones'[s] = peticiones[s]
  BY SigueBien, LibreEsLectura DEF Termina

\* The line, with one customer taken out of it.
LEMMA SinBien ==
  ASSUME cola \in Seq(Pedidos), NEW p \in Pedidos
  PROVE  /\ Sin(p) \in Seq(Pedidos)
         /\ \A q \in Pedidos \ {p} : EnTienda(q) => \E i \in DOMAIN Sin(p) : Sin(p)[i] = q
<1>1. CASE ~EnTienda(p)
  BY <1>1 DEF Sin, EnTienda
<1>2. CASE EnTienda(p)
  <2> DEFINE k == Lugar(p)
             s == SubSeq(cola, 1, k - 1)
             t == SubSeq(cola, k + 1, Len(cola))
  <2>1. k \in 1..Len(cola) /\ cola[k] = p
    BY <1>2 DEF Lugar, EnTienda
  <2>2. Sin(p) = s \o t
    BY <1>2 DEF Sin
  <2> HIDE DEF k
  <2>3. s \in Seq(Pedidos) /\ Len(s) = k - 1 /\ \A i \in 1..(k - 1) : s[i] = cola[i]
    BY <2>1
  <2>4. t \in Seq(Pedidos) /\ Len(t) = Len(cola) - k /\ \A i \in 1..(Len(cola) - k) : t[i] = cola[k + i]
    BY <2>1
  <2> HIDE DEF s, t
  <2>5. /\ s \o t \in Seq(Pedidos)
        /\ Len(s \o t) = Len(s) + Len(t)
        /\ \A i \in 1..(Len(s) + Len(t)) :
              (s \o t)[i] = IF i <= Len(s) THEN s[i] ELSE t[i - Len(s)]
    BY <2>3, <2>4, ConcatProperties
  <2>6. ASSUME NEW q \in Pedidos \ {p}, EnTienda(q)
        PROVE  \E i \in DOMAIN (s \o t) : (s \o t)[i] = q
    <3>1. PICK j \in 1..Len(cola) : cola[j] = q
      BY <2>6 DEF EnTienda
    <3>2. CASE j < k
      <4>1. j \in 1..(Len(s) + Len(t)) /\ j <= Len(s) /\ s[j] = cola[j]
        BY <2>1, <2>3, <2>4, <3>1, <3>2
      <4>2. QED
        BY <2>5, <3>1, <4>1
    <3>3. CASE j > k
      <4>1. j - 1 \in 1..Len(s \o t) /\ ~(j - 1 <= Len(s)) /\ (j - 1) - Len(s) = j - k
        BY <2>1, <2>3, <2>4, <2>5, <3>1, <3>3
      <4>2. (s \o t)[j - 1] = t[j - k]
        BY <2>5, <4>1
      <4>3. j - k \in 1..(Len(cola) - k) /\ k + (j - k) = j
        BY <2>1, <3>1, <3>3
      <4>4. t[j - k] = cola[j]
        <5>1. \A i \in 1..(Len(cola) - k) : t[i] = cola[k + i]
          BY <2>4
        <5>2. t[j - k] = cola[k + (j - k)]
          BY <4>3, <5>1
        <5>3. QED
          BY <4>3, <5>2
      <4>5. j - 1 \in DOMAIN (s \o t)
        BY <2>5, <4>1
      <4>6. QED
        BY <3>1, <4>2, <4>4, <4>5
    <3>4. QED
      BY <2>1, <3>1, <3>2, <3>3
  <2>7. QED
    BY <2>2, <2>5, <2>6
<1>3. QED
  BY <1>1, <1>2
-----------------------------------------------------------------------------
(* Order.                                                                  *)

\* A step that is not an overlap leaves one request at most under way.
LEMMA SinCoincidir ==
  ASSUME NEW pets, NEW quedan, NEW libre, ~Coinciden(pets, quedan, libre)
  PROVE  UnoSolo(pets, quedan, libre)
  BY DEF Coinciden, UnoSolo, Actores

LEMMA OrdenBien ==
  ASSUME Orden, MCNext \/ UNCHANGED varsMC
  PROVE  Orden'
<1>1. CASE DeMostradoresMC
  <2>1. solapo' \in BOOLEAN /\ desvio' \in BOOLEAN
    BY <1>1 DEF DeMostradoresMC
  <2>2. ~solapo' => UnoSolo(peticiones', barrido', Libre)
    BY <1>1, SinCoincidir DEF DeMostradoresMC
  <2>3. ~solapo' => UnoSolo(peticionesB', barridoB', B!Libre)
    BY <1>1 DEF DeMostradoresMC, Orden, varsB
  <2>4. QED
    BY <2>1, <2>2, <2>3 DEF Orden, UnoSolo, Libre, B!Libre
<1>2. CASE DeBodegaMC
  <2>1. solapo' \in BOOLEAN /\ desvio' \in BOOLEAN
    BY <1>2 DEF DeBodegaMC
  <2>2. ~solapo' => UnoSolo(peticionesB', barridoB', B!Libre)
    BY <1>2, SinCoincidir DEF DeBodegaMC
  <2>3. ~solapo' => UnoSolo(peticiones', barrido', Libre)
    BY <1>2 DEF DeBodegaMC, Orden, vars
  <2>4. QED
    BY <2>1, <2>2, <2>3 DEF Orden, UnoSolo, Libre, B!Libre
<1>3. CASE UNCHANGED varsMC
  BY <1>3 DEF varsMC, vars, varsB, Orden, UnoSolo, Libre, B!Libre
<1>4. QED
  BY <1>1, <1>2, <1>3 DEF MCNext

-----------------------------------------------------------------------------
(* The counters: what a step finds.                                        *)

EnSuTurno ==
    /\ InvMostradores
    /\ ~solapo
    /\ UnoSolo(peticiones, barrido, Libre)
    /\ desvio' = (desvio \/ DejaLlamados)

\* A step that does not leave a return half way, nor announces anybody at a
\* counter without operator, leaves nobody without somebody to return them.
LEMMA SigueElReparto ==
  ASSUME EnSuTurno, UNCHANGED mostradores,
         \A p \in Pedidos, m \in Mostradores :
            Anunciado(p, m)' => Anunciado(p, m) \/ mostradores[m] \in Personal
  PROVE  ~desvio' => ConQuienLoRegrese'
<1> SUFFICES ASSUME ~desvio', NEW p \in Pedidos, NEW m \in Mostradores, Anunciado(p, m)',
                    mostradores[m] \notin Personal
             PROVE  \E r \in Actores : LoRegresa(r, p, m)'
  BY DEF ConQuienLoRegrese
<1>1. ConQuienLoRegrese /\ Anunciado(p, m) /\ \A r \in Actores : ~SeQuedaAMedias(r)
  BY DEF EnSuTurno, InvMostradores, DejaLlamados
<1>2. PICK r \in Actores : LoRegresa(r, p, m)
  BY <1>1 DEF ConQuienLoRegrese
<1>3. QED
  BY <1>1, <1>2 DEF SeQuedaAMedias

\* A request that reads takes what is true now.
LEMMA LeeBien ==
  ASSUME EnSuTurno, NEW r \in Actores, NEW l \in Lecturas,
         Datos(l), Vale(l), En(r, "NINGUNA"), Sigue(r, l),
         UNCHANGED <<pedidos, cola, mostradores, activo>>,
         barrido' \in SUBSET (Mostradores \X Personal)
  PROVE  InvMostradores'
<1>1. /\ TypeOK /\ ConSusDatos /\ LeidoVale /\ LlamadoPresente
      /\ ~desvio => ConQuienLoRegrese
      /\ desvio => desvio'
  BY DEF EnSuTurno, InvMostradores
<1>2. /\ peticiones' \in [Actores -> Lecturas]
      /\ ConSusDatos'
      /\ peticiones'[r] = l
      /\ \A s \in Actores \ {r} : peticiones'[s] = peticiones[s]
  BY <1>1, SigueBien
<1>3. TypeOK'
  BY <1>1, <1>2 DEF TypeOK
<1>4. LeidoVale'
  BY <1>1, <1>2 DEF LeidoVale, Vale, EnTienda
<1>5. LlamadoPresente'
  BY <1>1 DEF LlamadoPresente, EnTienda
<1>6. ~desvio' => ConQuienLoRegrese'
  BY <1>1, <1>2, SigueElReparto DEF Anunciado, En
<1>7. QED
  BY <1>2, <1>3, <1>4, <1>5, <1>6 DEF InvMostradores

\* A request that commits is the only one: nobody is left with a stale read.
LEMMA EscribeBien ==
  ASSUME EnSuTurno, NEW r \in Actores, NEW l \in Lecturas,
         Datos(l), l.op \in {"NINGUNA", "LISTAR", "REGRESAR"},
         peticiones[r] # Libre, Sigue(r, l),
         pedidos' \in [Pedidos -> [estado : EstadosPedido, llamado : Mostradores \cup {NADIE}]],
         cola' \in Seq(Pedidos),
         mostradores' \in [Mostradores -> Personal \cup {NADIE, "BORRADO"}],
         UNCHANGED activo, barrido' \in SUBSET (Mostradores \X Personal),
         LlamadoPresente',
         ~desvio' => ConQuienLoRegrese'
  PROVE  InvMostradores'
<1>1. TypeOK /\ ConSusDatos /\ UnoSolo(peticiones, barrido, Libre)
  BY DEF EnSuTurno, InvMostradores
<1>2. /\ peticiones' \in [Actores -> Lecturas]
      /\ ConSusDatos'
      /\ peticiones'[r] = l
      /\ \A s \in Actores \ {r} : peticiones'[s] = peticiones[s]
  BY <1>1, SigueBien
<1>3. \A s \in Actores : peticiones'[s].op \in {"NINGUNA", "LISTAR", "REGRESAR"}
  <2>1. \A s \in Actores \ {r} : peticiones[s] = Libre
    BY <1>1 DEF UnoSolo
  <2>2. QED
    BY <1>2, <2>1 DEF Libre
<1>4. LeidoVale'
  BY <1>3 DEF LeidoVale, Vale
<1>5. TypeOK'
  BY <1>1, <1>2 DEF TypeOK
<1>6. QED
  BY <1>2, <1>4, <1>5 DEF InvMostradores
-----------------------------------------------------------------------------
(* The counters: the requests that read.                                   *)

LEMMA LeeLlamarBien ==
  ASSUME EnSuTurno, NEW r \in Peticiones, NEW u \in Personal, NEW p \in Pedidos, LeeLlamar(r, u, p)
  PROVE  InvMostradores'
<1>1. PICK m \in (IF DelOperador(u) = {} THEN {NADIE} ELSE DelOperador(u)) :
         Recibe(r, "LLAMAR", [Libre EXCEPT !.quien = u, !.ped = p, !.most = m])
  BY DEF LeeLlamar
<1> DEFINE l == [[Libre EXCEPT !.quien = u, !.ped = p, !.most = m] EXCEPT !.op = "LLAMAR"]
<1>2. m = NADIE \/ (m \in Mostradores /\ mostradores[m] \in Personal)
  <2>1. CASE DelOperador(u) = {}
    BY <2>1
  <2>2. CASE DelOperador(u) # {}
    <3>1. m \in Mostradores /\ mostradores[m] = u
      BY <2>2 DEF DelOperador
    <3>2. u # NADIE /\ u # "BORRADO"
      BY PersonalAssumption
    <3>3. QED
      BY <3>1, <3>2 DEF EnSuTurno, InvMostradores, TypeOK
  <2>3. QED
    BY <2>1, <2>2
<1>3. /\ l \in Lecturas /\ l.op = "LLAMAR" /\ l.ped = p /\ l.most = m
  BY <1>2 DEF Lecturas, Libre, Ops
<1>4. Sigue(r, l) /\ En(r, "NINGUNA") /\ UNCHANGED <<pedidos, cola, mostradores, activo>>
  BY <1>1 DEF Recibe
<1> HIDE DEF l
<1>5. Datos(l)
  BY <1>3 DEF Datos
<1>6. Vale(l)
  BY <1>2, <1>3 DEF Vale, LeeLlamar, EnEspera
<1>7. QED
  BY <1>3, <1>4, <1>5, <1>6, LeeBien DEF LeeLlamar, EnSuTurno, InvMostradores, TypeOK, Actores

LEMMA LeeDeAtencionBien ==
  ASSUME EnSuTurno, NEW r \in Peticiones, NEW op \in {"DEVOLVER", "NO_SE_PRESENTO"},
         NEW u \in Personal, NEW p \in Pedidos, LeeDeAtencion(r, op, u, p)
  PROVE  InvMostradores'
<1> DEFINE l == [[Libre EXCEPT !.quien = u, !.ped = p, !.leido = "EN_ATENCION"] EXCEPT !.op = op]
<1>1. l \in Lecturas /\ l.op = op /\ l.ped = p
  BY DEF Lecturas, Libre, Ops, EstadosPedido
<1>2. Sigue(r, l) /\ En(r, "NINGUNA") /\ UNCHANGED <<pedidos, cola, mostradores, activo, barrido>>
  BY DEF LeeDeAtencion, Recibe
<1> HIDE DEF l
<1>3. Datos(l) /\ Vale(l)
  BY <1>1 DEF Datos, Vale
<1>4. QED
  BY <1>1, <1>2, <1>3, LeeBien DEF EnSuTurno, InvMostradores, TypeOK, Actores

LEMMA LeeDescartarBien ==
  ASSUME EnSuTurno, NEW r \in Peticiones, NEW u \in Personal \cup {NADIE}, NEW p \in Pedidos,
         LeeDescartar(r, u, p)
  PROVE  InvMostradores'
<1> DEFINE l == [[Libre EXCEPT !.quien = u, !.ped = p, !.leido = pedidos[p].estado] EXCEPT !.op = "DESCARTAR"]
<1>1. pedidos[p].estado \in EstadosPedido
  BY DEF EnSuTurno, InvMostradores, TypeOK
<1>2. l \in Lecturas /\ l.op = "DESCARTAR" /\ l.ped = p /\ l.leido = pedidos[p].estado
  BY <1>1 DEF Lecturas, Libre, Ops
<1>3. Sigue(r, l) /\ En(r, "NINGUNA") /\ UNCHANGED <<pedidos, cola, mostradores, activo, barrido>>
  BY DEF LeeDescartar, Recibe
<1> HIDE DEF l
<1>4. Datos(l) /\ Vale(l)
  BY <1>2 DEF Datos, Vale
<1>5. QED
  BY <1>2, <1>3, <1>4, LeeBien DEF EnSuTurno, InvMostradores, TypeOK, Actores

LEMMA LeeElegirBien ==
  ASSUME EnSuTurno, NEW r \in Peticiones, NEW u \in Personal, NEW m \in Mostradores,
         LeeElegir(r, u, m)
  PROVE  InvMostradores'
<1> DEFINE l == [[Libre EXCEPT !.quien = u, !.most = m, !.leido = mostradores[m]] EXCEPT !.op = "ELEGIR"]
<1>1. mostradores[m] \in Personal \cup {NADIE}
  BY DEF EnSuTurno, InvMostradores, TypeOK, LeeElegir
<1>2. l \in Lecturas /\ l.op = "ELEGIR" /\ l.quien = u /\ l.most = m
  BY <1>1 DEF Lecturas, Libre, Ops, Personal
<1>3. Sigue(r, l) /\ En(r, "NINGUNA") /\ UNCHANGED <<pedidos, cola, mostradores, activo, barrido>>
  BY DEF LeeElegir, Recibe
<1> HIDE DEF l
<1>4. Datos(l) /\ Vale(l)
  BY <1>2 DEF Datos, Vale
<1>5. QED
  BY <1>2, <1>3, <1>4, LeeBien DEF EnSuTurno, InvMostradores, TypeOK, Actores

\* Of an operator, or of the sweep in their name.
LEMMA RecibeSoltarBien ==
  ASSUME EnSuTurno, NEW r \in Actores, NEW u \in Personal, NEW m \in Mostradores,
         Recibe(r, "SOLTAR", [Libre EXCEPT !.quien = u, !.most = m]),
         barrido' \in SUBSET (Mostradores \X Personal)
  PROVE  InvMostradores'
<1> DEFINE l == [[Libre EXCEPT !.quien = u, !.most = m] EXCEPT !.op = "SOLTAR"]
<1>1. l \in Lecturas /\ l.op = "SOLTAR" /\ l.quien = u /\ l.most = m
  BY DEF Lecturas, Libre, Ops, Personal
<1>2. Sigue(r, l) /\ En(r, "NINGUNA") /\ UNCHANGED <<pedidos, cola, mostradores, activo>>
  BY DEF Recibe
<1> HIDE DEF l
<1>3. Datos(l) /\ Vale(l)
  BY <1>1 DEF Datos, Vale
<1>4. QED
  BY <1>1, <1>2, <1>3, LeeBien

LEMMA LeeBorrarBien ==
  ASSUME EnSuTurno, NEW r \in Peticiones, NEW m \in Mostradores, LeeBorrar(r, m)
  PROVE  InvMostradores'
<1> DEFINE l == [[Libre EXCEPT !.most = m] EXCEPT !.op = "BORRAR"]
<1>1. l \in Lecturas /\ l.op = "BORRAR" /\ l.most = m
  BY DEF Lecturas, Libre, Ops
<1>2. Sigue(r, l) /\ En(r, "NINGUNA") /\ UNCHANGED <<pedidos, cola, mostradores, activo, barrido>>
  BY DEF LeeBorrar, Recibe
<1> HIDE DEF l
<1>3. Datos(l) /\ Vale(l)
  BY <1>1 DEF Datos, Vale
<1>4. QED
  BY <1>1, <1>2, <1>3, LeeBien DEF EnSuTurno, InvMostradores, TypeOK, Actores

-----------------------------------------------------------------------------
(* The counters: the requests that commit.                                 *)

\* The facts that a commit starts from.
LEMMA AlEscribir ==
  ASSUME EnSuTurno, NEW r \in Actores, ~En(r, "NINGUNA")
  PROVE  /\ TypeOK
         /\ peticiones[r] \in Lecturas
         /\ peticiones[r] # Libre
         /\ Datos(peticiones[r])
         /\ Vale(peticiones[r])
         /\ LlamadoPresente
  BY DEF EnSuTurno, InvMostradores, TypeOK, ConSusDatos, LeidoVale, En, Libre

LEMMA LlamaBien ==
  ASSUME EnSuTurno, NEW r \in Peticiones, Llama(r)
  PROVE  InvMostradores'
<1> DEFINE p == peticiones[r].ped
           m == peticiones[r].most
<1>1. En(r, "LLAMAR") /\ r \in Actores
  BY DEF Llama, Actores
<1>2. /\ TypeOK /\ peticiones[r] \in Lecturas /\ peticiones[r] # Libre
      /\ Vale(peticiones[r]) /\ LlamadoPresente
      /\ p \in Pedidos
      /\ peticiones[r].op = "LLAMAR"
  BY <1>1, AlEscribir DEF En, Datos
<1>3. EnTienda(p) /\ m \in Mostradores \cup {NADIE} /\ (m # NADIE => mostradores[m] \in Personal)
  BY <1>2 DEF Vale, Lecturas
<1>4. /\ pedidos' = [pedidos EXCEPT ![p] = [estado |-> "EN_ATENCION", llamado |-> m]]
      /\ Sigue(r, Libre)
      /\ UNCHANGED <<cola, mostradores, activo, barrido>>
  BY DEF Llama, Termina
<1> HIDE DEF p, m
<1>5. pedidos' \in [Pedidos -> [estado : EstadosPedido, llamado : Mostradores \cup {NADIE}]]
  BY <1>2, <1>3, <1>4 DEF TypeOK, EstadosPedido
<1>6. LlamadoPresente'
  BY <1>2, <1>3, <1>4 DEF LlamadoPresente, EnTienda, TypeOK
<1>7. \A q \in Pedidos, n \in Mostradores :
         Anunciado(q, n)' => Anunciado(q, n) \/ mostradores[n] \in Personal
  BY <1>2, <1>3, <1>4, SinNumeroAssumption DEF Anunciado, TypeOK
<1>8. ~desvio' => ConQuienLoRegrese'
  BY <1>1, <1>2, <1>4, <1>7, LibreEsLectura, SigueElReparto
<1>9. QED
  BY <1>1, <1>2, <1>4, <1>5, <1>6, <1>8, LibreEsLectura, EscribeBien DEF TypeOK, Libre

\* A customer goes back to the line.
LEMMA RegresadoBien ==
  ASSUME TypeOK, NEW p \in Pedidos,
         Regresado(p) \/ (pedidos[p].estado # "EN_ATENCION" /\ UNCHANGED pedidos)
  PROVE  /\ pedidos' \in [Pedidos -> [estado : EstadosPedido, llamado : Mostradores \cup {NADIE}]]
         /\ pedidos'[p].estado # "EN_ATENCION"
         /\ \A q \in Pedidos \ {p} : pedidos'[q] = pedidos[q]
  BY DEF TypeOK, Regresado, EnRevisado, EstadosPedido

LEMMA AtencionBien ==
  ASSUME EnSuTurno, NEW r \in Peticiones, NEW p \in Pedidos,
         p = peticiones[r].ped,
         peticiones[r].op \in {"DEVOLVER", "NO_SE_PRESENTO", "DESCARTAR"},
         Regresado(p) \/ (pedidos[p].estado # "EN_ATENCION" /\ UNCHANGED pedidos),
         cola' \in {cola, AlFinal(p), Sin(p)},
         Termina(r),
         UNCHANGED <<mostradores, activo, barrido>>
  PROVE  InvMostradores'
<1>1. r \in Actores /\ ~En(r, "NINGUNA") /\ peticiones[r].op \notin {"LISTAR", "REGRESAR"}
  BY DEF Actores, En
<1>2. TypeOK /\ peticiones[r] # Libre /\ LlamadoPresente
  BY <1>1, AlEscribir
<1>3. /\ pedidos' \in [Pedidos -> [estado : EstadosPedido, llamado : Mostradores \cup {NADIE}]]
      /\ pedidos'[p].estado # "EN_ATENCION"
      /\ \A q \in Pedidos \ {p} : pedidos'[q] = pedidos[q]
  BY <1>2, RegresadoBien
<1>4. /\ cola' \in Seq(Pedidos)
      /\ \A q \in Pedidos \ {p} : EnTienda(q) => EnTienda(q)'
  <2>1. cola \in Seq(Pedidos)
    BY <1>2 DEF TypeOK
  <2>2. /\ Sin(p) \in Seq(Pedidos)
        /\ \A q \in Pedidos \ {p} : EnTienda(q) => \E i \in DOMAIN Sin(p) : Sin(p)[i] = q
    BY <2>1, SinBien
  <2>3. CASE cola' = cola
    BY <2>1, <2>3 DEF EnTienda
  <2>4. CASE cola' = Sin(p)
    BY <2>2, <2>4 DEF EnTienda
  <2>5. CASE cola' = AlFinal(p)
    <3>1. cola' = Append(Sin(p), p)
      BY <2>5 DEF AlFinal
    <3>2. cola' \in Seq(Pedidos) /\ \A i \in DOMAIN Sin(p) : i \in DOMAIN cola' /\ cola'[i] = Sin(p)[i]
      BY <2>2, <3>1
    <3>3. QED
      BY <2>2, <3>2 DEF EnTienda
  <2>6. QED
    BY <2>3, <2>4, <2>5
<1>5. LlamadoPresente'
  BY <1>2, <1>3, <1>4 DEF LlamadoPresente
<1>6. \A q \in Pedidos, n \in Mostradores : Anunciado(q, n)' => Anunciado(q, n)
  BY <1>3 DEF Anunciado
<1>7. Sigue(r, Libre)
  BY DEF Termina
<1>8. ~desvio' => ConQuienLoRegrese'
  BY <1>1, <1>6, <1>7, LibreEsLectura, SigueElReparto
<1>9. QED
  BY <1>1, <1>2, <1>3, <1>4, <1>5, <1>7, <1>8, LibreEsLectura, EscribeBien DEF TypeOK, Libre

LEMMA DevuelveBien ==
  ASSUME EnSuTurno, NEW r \in Peticiones, Devuelve(r) \/ NoSePresento(r)
  PROVE  InvMostradores'
<1>1. r \in Actores /\ ~En(r, "NINGUNA") /\ peticiones[r].op \in {"DEVOLVER", "NO_SE_PRESENTO"}
  BY DEF Actores, En, Devuelve, NoSePresento
<1>2. peticiones[r].ped \in Pedidos
  BY <1>1, AlEscribir DEF Datos
<1>3. QED
  BY <1>1, <1>2, AtencionBien DEF Devuelve, NoSePresento

LEMMA DescartaBien ==
  ASSUME EnSuTurno, NEW r \in Peticiones, Descarta(r)
  PROVE  InvMostradores'
<1>1. r \in Actores /\ ~En(r, "NINGUNA") /\ peticiones[r].op = "DESCARTAR"
  BY DEF Actores, En, Descarta
<1>2. peticiones[r].ped \in Pedidos /\ Vale(peticiones[r])
  BY <1>1, AlEscribir DEF Datos
<1>3. \/ Regresado(peticiones[r].ped)
      \/ pedidos[peticiones[r].ped].estado # "EN_ATENCION" /\ UNCHANGED pedidos
  BY <1>1, <1>2 DEF Descarta, Vale
<1>4. QED
  BY <1>1, <1>2, <1>3, AtencionBien DEF Descarta

-----------------------------------------------------------------------------
(* The counters: one is chosen, freed or deleted.                          *)

\* A step that touches neither the orders nor the line.
LEMMA MismaFila ==
  ASSUME EnSuTurno, UNCHANGED <<pedidos, cola>>
  PROVE  /\ pedidos' \in [Pedidos -> [estado : EstadosPedido, llamado : Mostradores \cup {NADIE}]]
         /\ cola' \in Seq(Pedidos)
         /\ LlamadoPresente'
         /\ \A p \in Pedidos, m \in Mostradores : Anunciado(p, m)' <=> Anunciado(p, m)
  BY DEF EnSuTurno, InvMostradores, TypeOK, LlamadoPresente, EnTienda, Anunciado

LEMMA EligeBien ==
  ASSUME EnSuTurno, NEW r \in Peticiones, Elige(r)
  PROVE  InvMostradores'
<1> DEFINE l == peticiones[r]
           x == IF TomaControl(l) THEN [Libre EXCEPT !.op = "LISTAR", !.most = l.most] ELSE Libre
<1>1. En(r, "ELEGIR") /\ r \in Actores
  BY DEF Elige, Actores
<1>2. /\ TypeOK /\ l \in Lecturas /\ l # Libre /\ l.op = "ELEGIR"
      /\ l.most \in Mostradores /\ l.quien \in Personal
  BY <1>1, AlEscribir DEF En, Datos
<1>3. /\ Sigue(r, x)
      /\ UNCHANGED <<pedidos, cola, activo, barrido>>
      /\ mostradores' = [m \in Mostradores |->
            IF m = l.most
            THEN IF l.leido = l.quien THEN mostradores[m] ELSE l.quien
            ELSE IF mostradores[m] = l.quien THEN NADIE ELSE mostradores[m]]
  BY DEF Elige, Termina
<1>4. x \in Lecturas /\ x.op \in {"NINGUNA", "LISTAR"} /\ Datos(x)
  BY <1>2, LibreEsLectura DEF Lecturas, Libre, Ops, Datos
<1> HIDE DEF l, x
<1>5. mostradores' \in [Mostradores -> Personal \cup {NADIE, "BORRADO"}]
  BY <1>2, <1>3 DEF TypeOK
<1>6. ~desvio' => ConQuienLoRegrese'
  <2> SUFFICES ASSUME ~desvio', NEW p \in Pedidos, NEW m \in Mostradores, Anunciado(p, m)'
               PROVE  mostradores'[m] \in Personal \/ \E s \in Actores : LoRegresa(s, p, m)'
    BY DEF ConQuienLoRegrese
  <2>1. Anunciado(p, m)
    BY <1>3, MismaFila
  <2>2. ~DejaLlamados /\ ConQuienLoRegrese
    BY DEF EnSuTurno, InvMostradores
  <2>3. mostradores[m] \in Personal
    <3>1. \A s \in Actores : ~LoRegresa(s, p, m)
      BY <1>1, <1>2 DEF EnSuTurno, UnoSolo, LoRegresa, Libre, En, l
    <3>2. QED
      BY <2>1, <2>2, <3>1 DEF ConQuienLoRegrese
  <2>4. CASE m = l.most
    BY <1>2, <1>3, <2>3, <2>4
  <2>5. CASE m # l.most /\ mostradores[m] = l.quien
    <3>1. mostradores'[m] = NADIE
      BY <1>3, <2>5
    <3>2. DejaLlamados
      BY <1>1, <2>1, <2>5, <3>1 DEF DejaLlamados, SeMudaConLlamados, l
    <3>3. QED
      BY <2>2, <3>2
  <2>6. CASE m # l.most /\ mostradores[m] # l.quien
    BY <1>3, <2>3, <2>6
  <2>7. QED
    BY <2>4, <2>5, <2>6
<1>7. QED
  BY <1>1, <1>2, <1>3, <1>4, <1>5, <1>6, MismaFila, EscribeBien DEF TypeOK, l

LEMMA SueltaBien ==
  ASSUME EnSuTurno, NEW r \in Actores, Suelta(r)
  PROVE  InvMostradores'
<1> DEFINE m == peticiones[r].most
           x == [Libre EXCEPT !.op = "LISTAR", !.most = m]
<1>1. En(r, "SOLTAR")
  BY DEF Suelta
<1>2. TypeOK /\ peticiones[r] # Libre /\ peticiones[r].op = "SOLTAR" /\ m \in Mostradores
  BY <1>1, AlEscribir DEF En, Datos
<1>3. /\ Sigue(r, x)
      /\ UNCHANGED <<pedidos, cola, activo, barrido>>
      /\ mostradores' = [mostradores EXCEPT ![m] = NADIE]
  BY DEF Suelta
<1>4. x \in Lecturas /\ x.op = "LISTAR" /\ x.most = m /\ Datos(x)
  BY <1>2 DEF Lecturas, Libre, Ops, Datos
<1> HIDE DEF m, x
<1>5. mostradores' \in [Mostradores -> Personal \cup {NADIE, "BORRADO"}]
  BY <1>2, <1>3 DEF TypeOK
<1>6. ~desvio' => ConQuienLoRegrese'
  <2> SUFFICES ASSUME ~desvio', NEW p \in Pedidos, NEW n \in Mostradores, Anunciado(p, n)'
               PROVE  mostradores'[n] \in Personal \/ \E s \in Actores : LoRegresa(s, p, n)'
    BY DEF ConQuienLoRegrese
  <2>1. Anunciado(p, n) /\ ConQuienLoRegrese
    BY <1>3, MismaFila DEF EnSuTurno, InvMostradores
  <2>2. CASE n = m
    <3>1. LoRegresa(r, p, n)'
      BY <1>2, <1>3, <1>4, <2>2 DEF LoRegresa, Sigue, TypeOK, En
    <3>2. QED
      BY <3>1
  <2>3. CASE n # m
    <3>1. \A s \in Actores : ~LoRegresa(s, p, n)
      BY <1>2 DEF EnSuTurno, UnoSolo, LoRegresa, Libre, En
    <3>2. mostradores[n] \in Personal
      BY <2>1, <3>1 DEF ConQuienLoRegrese
    <3>3. QED
      BY <1>3, <2>3, <3>2 DEF EnSuTurno, InvMostradores, TypeOK
  <2>4. QED
    BY <2>2, <2>3
<1>7. QED
  BY <1>2, <1>3, <1>4, <1>5, <1>6, MismaFila, EscribeBien DEF TypeOK

LEMMA ListaBien ==
  ASSUME EnSuTurno, NEW r \in Actores, Lista(r)
  PROVE  InvMostradores'
<1> DEFINE m == peticiones[r].most
           llamados == {p \in Pedidos : Anunciado(p, m)}
           x == IF llamados = {} THEN Libre
                ELSE [Libre EXCEPT !.op = "REGRESAR", !.most = m, !.regresan = llamados]
<1>1. En(r, "LISTAR")
  BY DEF Lista
<1>2. TypeOK /\ peticiones[r] # Libre /\ peticiones[r].op = "LISTAR" /\ m \in Mostradores
  BY <1>1, AlEscribir DEF En, Datos
<1>3. Sigue(r, x) /\ UNCHANGED <<pedidos, cola, mostradores, activo, barrido>>
  BY DEF Lista, Termina
<1>4. /\ x \in Lecturas /\ x.op \in {"NINGUNA", "REGRESAR"} /\ Datos(x)
      /\ llamados # {} => x.op = "REGRESAR" /\ x.most = m /\ x.regresan = llamados
  BY <1>2, LibreEsLectura DEF Lecturas, Libre, Ops, Datos
<1> HIDE DEF m, x
<1>5. ~desvio' => ConQuienLoRegrese'
  <2> SUFFICES ASSUME ~desvio', NEW p \in Pedidos, NEW n \in Mostradores, Anunciado(p, n)'
               PROVE  mostradores'[n] \in Personal \/ \E s \in Actores : LoRegresa(s, p, n)'
    BY DEF ConQuienLoRegrese
  <2>1. Anunciado(p, n) /\ ConQuienLoRegrese
    BY <1>3, MismaFila DEF EnSuTurno, InvMostradores
  <2>2. CASE n = m
    <3>1. p \in llamados
      BY <2>1, <2>2
    <3>2. LoRegresa(r, p, n)'
      BY <1>2, <1>3, <1>4, <2>2, <3>1 DEF LoRegresa, Sigue, TypeOK, En
    <3>3. QED
      BY <3>2
  <2>3. CASE n # m
    <3>1. \A s \in Actores : ~LoRegresa(s, p, n)
      BY <1>2, <2>3 DEF EnSuTurno, UnoSolo, LoRegresa, Libre, En, m
    <3>2. QED
      BY <1>3, <2>1, <3>1 DEF ConQuienLoRegrese
  <2>4. QED
    BY <2>2, <2>3
<1>6. QED
  BY <1>2, <1>3, <1>4, <1>5, MismaFila, EscribeBien DEF TypeOK, EnSuTurno, InvMostradores

LEMMA RegresaBien ==
  ASSUME EnSuTurno, NEW r \in Actores, NEW p \in Pedidos, Regresa(r, p)
  PROVE  InvMostradores'
<1> DEFINE l == peticiones[r]
           quedan == l.regresan \ {p}
           x == IF quedan = {} THEN Libre ELSE [l EXCEPT !.regresan = quedan]
<1>1. En(r, "REGRESAR")
  BY DEF Regresa
<1>2. TypeOK /\ l \in Lecturas /\ l # Libre /\ l.op = "REGRESAR" /\ l.most \in Mostradores /\ LlamadoPresente
  BY <1>1, AlEscribir DEF En, Datos
<1>3. Sigue(r, x) /\ UNCHANGED <<cola, mostradores, activo, barrido>>
  BY DEF Regresa
<1>4. /\ x \in Lecturas /\ x.op \in {"NINGUNA", "REGRESAR"} /\ Datos(x)
      /\ quedan # {} => x.op = "REGRESAR" /\ x.most = l.most /\ x.regresan = quedan
  <2>1. CASE quedan = {}
    BY <2>1, LibreEsLectura DEF Libre
  <2>2. CASE quedan # {}
    BY <1>2, <2>2 DEF Lecturas, Datos
  <2>3. QED
    BY <2>1, <2>2
<1>5. /\ pedidos' \in [Pedidos -> [estado : EstadosPedido, llamado : Mostradores \cup {NADIE}]]
      /\ \A q \in Pedidos : pedidos'[q] = pedidos[q] \/ pedidos'[q].estado # "EN_ATENCION"
  <2>1. CASE Regresado(p)
    BY <1>2, <2>1, RegresadoBien
  <2>2. CASE UNCHANGED pedidos
    BY <1>2, <2>2 DEF TypeOK
  <2>3. QED
    BY <2>1, <2>2 DEF Regresa
<1> HIDE DEF x
<1>6. LlamadoPresente'
  BY <1>2, <1>3, <1>5 DEF LlamadoPresente, EnTienda
<1>7. ~desvio' => ConQuienLoRegrese'
  BY <1>3, <1>5, SigueElReparto DEF Anunciado
<1>8. QED
  BY <1>2, <1>3, <1>4, <1>5, <1>6, <1>7, EscribeBien DEF TypeOK

LEMMA BorraBien ==
  ASSUME EnSuTurno, NEW r \in Peticiones, Borra(r)
  PROVE  InvMostradores'
<1> DEFINE m == peticiones[r].most
<1>1. En(r, "BORRAR") /\ r \in Actores
  BY DEF Borra, Actores
<1>2. TypeOK /\ peticiones[r] # Libre /\ peticiones[r].op = "BORRAR" /\ m \in Mostradores /\ LlamadoPresente
  BY <1>1, AlEscribir DEF En, Datos
<1>3. /\ Sigue(r, Libre)
      /\ UNCHANGED <<cola, activo, barrido>>
      /\ mostradores' = [mostradores EXCEPT ![m] = "BORRADO"]
      /\ pedidos' = [p \in Pedidos |->
            IF pedidos[p].llamado = m THEN [pedidos[p] EXCEPT !.llamado = NADIE] ELSE pedidos[p]]
  BY DEF Borra, Termina
<1> HIDE DEF m
<1>4. mostradores' \in [Mostradores -> Personal \cup {NADIE, "BORRADO"}]
  BY <1>2, <1>3 DEF TypeOK
<1>5. /\ pedidos' \in [Pedidos -> [estado : EstadosPedido, llamado : Mostradores \cup {NADIE}]]
      /\ \A p \in Pedidos : pedidos'[p].estado = pedidos[p].estado
      /\ \A p \in Pedidos : pedidos'[p].llamado \in {pedidos[p].llamado, NADIE} \ {m}
  BY <1>2, <1>3, SinNumeroAssumption DEF TypeOK
<1>6. LlamadoPresente'
  BY <1>2, <1>3, <1>5 DEF LlamadoPresente, EnTienda
<1>7. ~desvio' => ConQuienLoRegrese'
  <2> SUFFICES ASSUME ~desvio', NEW p \in Pedidos, NEW n \in Mostradores, Anunciado(p, n)'
               PROVE  mostradores'[n] \in Personal
    BY DEF ConQuienLoRegrese
  <2>1. n # m /\ Anunciado(p, n) /\ ConQuienLoRegrese
    BY <1>5, SinNumeroAssumption DEF Anunciado, EnSuTurno, InvMostradores
  <2>2. \A s \in Actores : ~LoRegresa(s, p, n)
    BY <1>1, <1>2 DEF EnSuTurno, UnoSolo, LoRegresa, Libre, En
  <2>3. QED
    BY <1>2, <1>3, <2>1, <2>2 DEF ConQuienLoRegrese, TypeOK
<1>8. QED
  BY <1>1, <1>2, <1>3, <1>4, <1>5, <1>6, <1>7, LibreEsLectura, EscribeBien DEF TypeOK, Libre

\* A request that fails: if it had customers to return, the promise ends.
LEMMA AbandonaBien ==
  ASSUME EnSuTurno, NEW r \in Peticiones, Abandona(r)
  PROVE  InvMostradores'
<1>1. r \in Actores /\ peticiones[r] # Libre /\ Sigue(r, Libre)
  BY DEF Abandona, Termina, Actores
<1>2. UNCHANGED <<pedidos, cola, mostradores, activo, barrido>>
  BY DEF Abandona
<1>3. ~desvio' => ConQuienLoRegrese'
  BY <1>2, MismaFila, SigueElReparto
<1>4. TypeOK
  BY DEF EnSuTurno, InvMostradores
<1>5. /\ mostradores' \in [Mostradores -> Personal \cup {NADIE, "BORRADO"}]
      /\ barrido' \in SUBSET (Mostradores \X Personal)
      /\ UNCHANGED activo
  BY <1>2, <1>4 DEF TypeOK
<1>6. Libre.op = "NINGUNA"
  BY DEF Libre
<1>7. QED
  BY <1>1, <1>2, <1>3, <1>5, <1>6, MismaFila, LibreEsLectura, EscribeBien

-----------------------------------------------------------------------------
(* The counters: the sweep, the signs of life and the world outside.       *)

LEMMA BarridoBien ==
  ASSUME EnSuTurno,
         EmpiezaBarrido \/ (\E x \in barrido : LeeBarrido(x)) \/ BarridoFalla
  PROVE  InvMostradores'
<1>1. /\ TypeOK /\ ConSusDatos /\ LeidoVale /\ LlamadoPresente
      /\ ~desvio' => ConQuienLoRegrese
      /\ BARRENDERO \in Actores
  BY DEF EnSuTurno, InvMostradores, Actores
<1>2. ASSUME UNCHANGED <<pedidos, cola, mostradores, activo, peticiones>>,
             barrido' \in SUBSET (Mostradores \X Personal)
      PROVE  InvMostradores'
  <2>1. TypeOK'
    BY <1>1, <1>2 DEF TypeOK
  <2>2. ConSusDatos' /\ LeidoVale' /\ LlamadoPresente'
    BY <1>1, <1>2 DEF ConSusDatos, Datos, LeidoVale, Vale, LlamadoPresente, EnTienda, Libre
  <2>3. ~desvio' => ConQuienLoRegrese'
    BY <1>2, MismaFila, SigueElReparto
  <2>4. QED
    BY <2>1, <2>2, <2>3 DEF InvMostradores
<1>3. CASE EmpiezaBarrido
  BY <1>2, <1>3 DEF EmpiezaBarrido, Inactivos
<1>4. ASSUME NEW x \in barrido, LeeBarrido(x)
      PROVE  InvMostradores'
  <2>1. barrido' \in SUBSET (Mostradores \X Personal)
    BY <1>1, <1>4 DEF LeeBarrido, TypeOK
  <2>2. x[1] \in Mostradores /\ x[2] \in Personal
    BY <1>1 DEF TypeOK
  <2>3. CASE mostradores[x[1]] = x[2]
    <3>1. Recibe(BARRENDERO, "SOLTAR", [Libre EXCEPT !.quien = x[2], !.most = x[1]])
      BY <1>4, <2>3 DEF LeeBarrido
    <3>2. QED
      BY <1>1, <2>1, <2>2, <3>1, RecibeSoltarBien
  <2>4. CASE mostradores[x[1]] # x[2]
    BY <1>2, <1>4, <2>1, <2>4 DEF LeeBarrido
  <2>5. QED
    BY <2>3, <2>4
<1>5. CASE BarridoFalla
  <2>1. /\ Sigue(BARRENDERO, Libre)
        /\ UNCHANGED <<pedidos, cola, mostradores, activo>>
        /\ barrido' = {}
    BY <1>5 DEF BarridoFalla, Termina
  <2>2. CASE peticiones[BARRENDERO] = Libre
    BY <1>1, <1>2, <2>1, <2>2 DEF Sigue, TypeOK
  <2>3. CASE peticiones[BARRENDERO] # Libre
    <3>1. ~desvio' => ConQuienLoRegrese'
      BY <2>1, MismaFila, SigueElReparto
    <3>2. /\ mostradores' \in [Mostradores -> Personal \cup {NADIE, "BORRADO"}]
          /\ barrido' \in SUBSET (Mostradores \X Personal)
          /\ UNCHANGED activo
      BY <1>1, <2>1 DEF TypeOK
    <3>3. Libre.op = "NINGUNA"
      BY DEF Libre
    <3>4. QED
      BY <1>1, <2>1, <2>3, <3>1, <3>2, <3>3, MismaFila, LibreEsLectura, EscribeBien
  <2>4. QED
    BY <2>2, <2>3
<1>6. QED
  BY <1>3, <1>4, <1>5

\* What the rest of the system does never puts a customer at a counter, and
\* what a request under way read of the order does not stop being true.
LEMMA ExternoBien ==
  ASSUME EnSuTurno, Externo
  PROVE  InvMostradores'
<1>1. /\ TypeOK /\ ConSusDatos /\ LeidoVale /\ LlamadoPresente
      /\ ~desvio' => ConQuienLoRegrese
      /\ UNCHANGED <<mostradores, peticiones, barrido>>
  BY DEF EnSuTurno, InvMostradores, Externo, DaSenales, DejaDeDarSenales, LlegaAlMostrador,
         SeVaDelMostrador, AvisaLlegada
<1>2. /\ activo' \in [Personal -> BOOLEAN]
      /\ pedidos' \in [Pedidos -> [estado : EstadosPedido, llamado : Mostradores \cup {NADIE}]]
      /\ cola' \in Seq(Pedidos)
      /\ \A p \in Pedidos : pedidos'[p] = pedidos[p] \/ pedidos'[p].estado # "EN_ATENCION"
      /\ \A p \in Pedidos : EnTienda(p) => EnTienda(p)'
  <2>1. ASSUME NEW u \in Personal, DaSenales(u) \/ DejaDeDarSenales(u)
        PROVE  <1>2!1 /\ <1>2!2 /\ <1>2!3 /\ <1>2!4 /\ <1>2!5
    BY <1>1, <2>1 DEF TypeOK, DaSenales, DejaDeDarSenales, EnTienda
  <2>2. ASSUME NEW p \in Pedidos, LlegaAlMostrador(p) \/ SeVaDelMostrador(p)
        PROVE  <1>2!1 /\ <1>2!2 /\ <1>2!3 /\ <1>2!4 /\ <1>2!5
    BY <1>1, <2>2 DEF TypeOK, LlegaAlMostrador, SeVaDelMostrador, EnTienda, EnRevisado, EstadosPedido
  <2>3. ASSUME NEW p \in Pedidos, AvisaLlegada(p)
        PROVE  <1>2!1 /\ <1>2!2 /\ <1>2!3 /\ <1>2!4 /\ <1>2!5
    <3>1. cola' = Append(cola, p) /\ cola \in Seq(Pedidos) /\ UNCHANGED <<pedidos, activo>>
      BY <1>1, <2>3 DEF TypeOK, AvisaLlegada
    <3>2. cola' \in Seq(Pedidos) /\ \A i \in DOMAIN cola : i \in DOMAIN cola' /\ cola'[i] = cola[i]
      BY <3>1
    <3>3. QED
      BY <1>1, <3>1, <3>2 DEF TypeOK, EnTienda
  <2>4. QED
    BY <2>1, <2>2, <2>3 DEF Externo
<1>3. TypeOK' /\ ConSusDatos'
  BY <1>1, <1>2 DEF TypeOK, ConSusDatos, Datos, Libre
<1>4. LeidoVale'
  <2> SUFFICES ASSUME NEW r \in Actores PROVE Vale(peticiones[r])'
    BY DEF LeidoVale
  <2>1. peticiones'[r] = peticiones[r] /\ Vale(peticiones[r]) /\ Datos(peticiones[r])
    BY <1>1 DEF LeidoVale, ConSusDatos
  <2>2. QED
    BY <1>1, <1>2, <2>1 DEF Vale, Datos
<1>5. LlamadoPresente'
  BY <1>1, <1>2 DEF LlamadoPresente
<1>6. ~desvio' => ConQuienLoRegrese'
  BY <1>1, <1>2, SigueElReparto DEF Anunciado
<1>7. QED
  BY <1>3, <1>4, <1>5, <1>6 DEF InvMostradores

LEMMA MostradoresBien ==
  ASSUME InvMostradores, Orden, Next /\ DeMostradoresMC
  PROVE  InvMostradores'
<1>1. EnSuTurno
  BY DEF EnSuTurno, Orden, DeMostradoresMC
<1>2. ASSUME NEW r \in Peticiones, DeOperador(r) PROVE InvMostradores'
  <2>1. ASSUME NEW u \in Personal, NEW p \in Pedidos,
               LeeLlamarSiguiente(r, u, p) \/ LeeLlamar(r, u, p)
        PROVE  InvMostradores'
    BY <1>1, <2>1, LeeLlamarBien DEF LeeLlamarSiguiente
  <2>2. ASSUME NEW u \in Personal, NEW p \in Pedidos, NEW op \in {"DEVOLVER", "NO_SE_PRESENTO"},
               LeeDeAtencion(r, op, u, p)
        PROVE  InvMostradores'
    BY <1>1, <2>2, LeeDeAtencionBien
  <2>3. ASSUME NEW u \in Personal \cup {NADIE}, NEW p \in Pedidos, LeeDescartar(r, u, p)
        PROVE  InvMostradores'
    BY <1>1, <2>3, LeeDescartarBien
  <2>4. CASE Llama(r) \/ Devuelve(r) \/ NoSePresento(r) \/ Descarta(r)
    BY <1>1, <2>4, LlamaBien, DevuelveBien, DescartaBien
  <2>5. QED
    BY <1>2, <2>1, <2>2, <2>3, <2>4 DEF DeOperador
<1>3. ASSUME NEW r \in Peticiones, DeMostradores(r) PROVE InvMostradores'
  <2>1. ASSUME NEW u \in Personal, NEW m \in Mostradores, LeeElegir(r, u, m) PROVE InvMostradores'
    BY <1>1, <2>1, LeeElegirBien
  <2>2. ASSUME NEW u \in Personal, NEW m \in Mostradores, LeeSoltar(r, u, m) PROVE InvMostradores'
    <3>1. r \in Actores /\ barrido' \in SUBSET (Mostradores \X Personal)
      BY <1>1, <2>2 DEF LeeSoltar, EnSuTurno, InvMostradores, TypeOK, Actores
    <3>2. QED
      BY <1>1, <2>2, <3>1, RecibeSoltarBien DEF LeeSoltar
  <2>3. ASSUME NEW m \in Mostradores, LeeBorrar(r, m) PROVE InvMostradores'
    BY <1>1, <2>3, LeeBorrarBien
  <2>4. CASE Elige(r) \/ Borra(r)
    BY <1>1, <2>4, EligeBien, BorraBien
  <2>5. QED
    BY <1>3, <2>1, <2>2, <2>3, <2>4 DEF DeMostradores
<1>4. ASSUME NEW r \in Actores, Libera(r) PROVE InvMostradores'
  BY <1>1, <1>4, SueltaBien, ListaBien, RegresaBien DEF Libera
<1>5. ASSUME NEW r \in Peticiones, Abandona(r) PROVE InvMostradores'
  BY <1>1, <1>5, AbandonaBien
<1>6. CASE Trabajador
  <2>1. BARRENDERO \in Actores
    BY DEF Actores
  <2>2. QED
    BY <1>1, <1>4, <1>6, <2>1, BarridoBien DEF Trabajador
<1>7. CASE Externo
  BY <1>1, <1>7, ExternoBien
<1>8. QED
  BY <1>2, <1>3, <1>4, <1>5, <1>6, <1>7 DEF Next, Actores

-----------------------------------------------------------------------------
(* The tokens.                                                             *)

LEMMA CeroCabe == 0 \in 0..MAX_TOKENS
  BY TokensAssumption

LEMMA LibreB == B!Libre \in B!Lecturas /\ B!Libre.op = "NINGUNA" /\ B!Libre.tok = 0
  BY TokensAssumption DEF B!Libre, B!Lecturas, B!Ops

LEMMA MismoCardinal == ASSUME NEW S PROVE B!Cardinality(S) = Cardinality(S)
  BY DEF B!Cardinality, Cardinality

\* The token that is issued next has not been issued.
LEMMA SiguienteNuevo ==
  ASSUME Seguidos
  PROVE  /\ B!Siguiente \notin B!Emitidos
         /\ B!Siguiente \in Nat \ {0}
         /\ B!Emitidos \cup {B!Siguiente} = 1..B!Siguiente
<1>1. PICK n \in 0..MAX_TOKENS : B!Emitidos = 1..n
  BY DEF Seguidos
<1>2. n \in Nat /\ 1 \in Int /\ n \in Int
  BY <1>1, TokensAssumption
<1>3. Cardinality(1..n) = n
  <2>1. Cardinality(1..n) = IF 1 > n THEN 0 ELSE n - 1 + 1
    BY <1>2, FS_Interval
  <2>2. QED
    BY <1>2, <2>1
<1>4. B!Siguiente = n + 1
  BY <1>1, <1>3, MismoCardinal DEF B!Siguiente
<1>5. QED
  BY <1>1, <1>2, <1>4

\* A step that issues one token, to u in the family f, and otherwise only
\* revokes tokens that were alive.
Emision(u, f) ==
    /\ B!Siguiente \in B!Tokens
    /\ tokens' \in [B!Tokens -> B!Filas]
    /\ tokens'[B!Siguiente] = B!Nuevo(u, f)
    /\ \A t \in B!Tokens \ {B!Siguiente} :
          /\ tokens'[t].quien = tokens[t].quien /\ tokens'[t].familia = tokens[t].familia
          /\ tokens'[t].estado = tokens[t].estado
               \/ (tokens[t].estado = "VIVO" /\ tokens'[t].estado = "ROTADO")

\* A step that issues no token; it may close the tokens of cierra.
Cierre(cierra) ==
    /\ tokens' \in [B!Tokens -> B!Filas]
    /\ \A t \in B!Tokens :
          /\ tokens'[t].quien = tokens[t].quien /\ tokens'[t].familia = tokens[t].familia
          /\ tokens'[t].estado = IF t \in cierra /\ tokens[t].estado = "VIVO" THEN "CERRADO"
                                 ELSE tokens[t].estado

LEMMA EmisionBien ==
  ASSUME B!TypeOK, Seguidos, UnDueno, NEW u \in Usuarios, NEW f \in B!Tokens, Emision(u, f),
         f = B!Siguiente \/ \E t \in B!Emitidos : f = tokens[t].familia /\ u = tokens[t].quien
  PROVE  /\ Seguidos'
         /\ UnDueno'
         /\ \A t \in B!Emitidos : t \in B!Emitidos' /\ tokens'[t].quien = tokens[t].quien
<1> DEFINE k == B!Siguiente
<1>1. k \notin B!Emitidos /\ B!Emitidos \cup {k} = 1..k /\ k \in B!Tokens /\ k \in Nat
  BY SiguienteNuevo DEF Emision
<1>2. /\ tokens'[k] = B!Nuevo(u, f)
      /\ \A t \in B!Tokens \ {k} :
            /\ tokens'[t].quien = tokens[t].quien /\ tokens'[t].familia = tokens[t].familia
            /\ tokens'[t].estado = tokens[t].estado
                 \/ (tokens[t].estado = "VIVO" /\ tokens'[t].estado = "ROTADO")
  BY DEF Emision
<1> HIDE DEF k
<1>3. /\ tokens'[k].quien = u /\ tokens'[k].familia = f /\ tokens'[k].estado = "VIVO"
  BY <1>2 DEF B!Nuevo
<1>4. B!Emitidos' = B!Emitidos \cup {k}
  BY <1>1, <1>2, <1>3 DEF B!Emitidos
<1>5. \A t \in B!Emitidos : /\ t \in B!Tokens /\ t # k
                            /\ tokens[t].familia \in B!Emitidos /\ tokens[t].quien \in Usuarios
  BY <1>1 DEF Seguidos, B!Emitidos
<1>6. f \in B!Emitidos \cup {k}
  BY <1>5 DEF k
<1>7. Seguidos'
  <2>1. \E n \in 0..MAX_TOKENS : B!Emitidos' = 1..n
    <3>1. k \in 0..MAX_TOKENS
      BY <1>1, TokensAssumption DEF B!Tokens
    <3>2. QED
      BY <1>1, <1>4, <3>1
  <2>2. \A t \in B!Tokens \ B!Emitidos' : tokens'[t].familia = 0
    BY <1>1, <1>2, <1>4 DEF Seguidos
  <2>3. \A t \in B!Emitidos' : tokens'[t].familia \in B!Emitidos' /\ tokens'[t].quien \in Usuarios
    BY <1>2, <1>3, <1>4, <1>5, <1>6
  <2>4. B!Tokens' = B!Tokens
    BY DEF B!Tokens
  <2>5. QED
    BY <2>1, <2>2, <2>3, <2>4 DEF Seguidos
<1>8. \A t \in B!Emitidos : tokens[t].familia = f => tokens[t].quien = u
  <2>1. CASE f = k
    BY <1>1, <1>5, <2>1
  <2>2. CASE \E t \in B!Emitidos : f = tokens[t].familia /\ u = tokens[t].quien
    BY <2>2 DEF UnDueno
  <2>3. QED
    BY <2>1, <2>2 DEF k
<1>9. UnDueno'
  <2> SUFFICES ASSUME NEW t \in B!Emitidos', NEW x \in B!Emitidos',
                      tokens'[t].familia = tokens'[x].familia
               PROVE  tokens'[t].quien = tokens'[x].quien
    BY DEF UnDueno
  <2>1. CASE t = k /\ x = k
    BY <2>1
  <2>2. CASE t = k /\ x # k
    BY <1>2, <1>3, <1>4, <1>5, <1>8, <2>2
  <2>3. CASE t # k /\ x = k
    BY <1>2, <1>3, <1>4, <1>5, <1>8, <2>3
  <2>4. CASE t # k /\ x # k
    BY <1>2, <1>4, <1>5, <2>4 DEF UnDueno
  <2>5. QED
    BY <2>1, <2>2, <2>3, <2>4
<1>10. QED
  BY <1>2, <1>4, <1>5, <1>7, <1>9

\* Nobody issues into a closed family: the closed ones stay closed.
LEMMA EmisionEnAbierta ==
  ASSUME B!TypeOK, Seguidos, CerradasDelTodo, NEW u \in Usuarios, NEW f \in B!Tokens,
         Emision(u, f), f = B!Siguiente \/ ~Cerrada(f)
  PROVE  CerradasDelTodo'
<1> DEFINE k == B!Siguiente
<1>1. k \notin B!Emitidos /\ k \in B!Tokens
  BY SiguienteNuevo DEF Emision
<1>2. /\ tokens'[k] = B!Nuevo(u, f)
      /\ \A t \in B!Tokens \ {k} :
            /\ tokens'[t].familia = tokens[t].familia
            /\ tokens'[t].estado = tokens[t].estado
                 \/ (tokens[t].estado = "VIVO" /\ tokens'[t].estado = "ROTADO")
  BY DEF Emision
<1> HIDE DEF k
<1>3. tokens'[k].familia = f /\ tokens'[k].estado = "VIVO"
  BY <1>2 DEF B!Nuevo
<1>4. B!Emitidos' = B!Emitidos \cup {k} /\ B!Emitidos \subseteq B!Tokens
  <2>1. \A t \in B!Tokens \ {k} : tokens'[t].estado = "NO_EMITIDO" <=> tokens[t].estado = "NO_EMITIDO"
    BY <1>2
  <2>2. QED
    BY <1>1, <1>3, <2>1 DEF B!Emitidos, B!Tokens
<1>5. ~Cerrada(f)
  BY <1>1 DEF Cerrada, Seguidos, k
<1> SUFFICES ASSUME NEW t \in B!Emitidos', NEW x \in B!Emitidos',
                    tokens'[t].estado = "VIVO", tokens'[x].estado = "CERRADO",
                    tokens'[x].familia = tokens'[t].familia
             PROVE  FALSE
  BY DEF CerradasDelTodo, Cerrada
<1>6. x \in B!Emitidos /\ tokens[x].estado = "CERRADO" /\ tokens[x].familia = tokens'[t].familia
  BY <1>1, <1>2, <1>3, <1>4
<1>7. CASE t = k
  BY <1>3, <1>5, <1>6, <1>7 DEF Cerrada
<1>8. CASE t # k
  <2>1. t \in B!Emitidos /\ tokens[t].estado = "VIVO" /\ tokens[t].familia = tokens[x].familia
    BY <1>2, <1>4, <1>6, <1>8
  <2>2. QED
    BY <1>6, <2>1 DEF CerradasDelTodo, Cerrada
<1>9. QED
  BY <1>7, <1>8

\* A closing, or a change of the clocks of a token.
LEMMA CierreBien ==
  ASSUME B!TypeOK, Seguidos, UnDueno, NEW cierra \in SUBSET B!Tokens, Cierre(cierra)
  PROVE  /\ B!Emitidos' = B!Emitidos
         /\ Seguidos'
         /\ UnDueno'
         /\ \A t \in B!Emitidos : t \in B!Emitidos' /\ tokens'[t].quien = tokens[t].quien
<1>1. B!Emitidos' = B!Emitidos /\ B!Emitidos \subseteq B!Tokens /\ B!Tokens' = B!Tokens
  BY DEF Cierre, B!Emitidos, B!Tokens
<1>2. \A t \in B!Tokens : tokens'[t].quien = tokens[t].quien /\ tokens'[t].familia = tokens[t].familia
  BY DEF Cierre
<1>3. Seguidos'
  BY <1>1, <1>2 DEF Seguidos
<1>4. UnDueno'
  BY <1>1, <1>2 DEF UnDueno
<1>5. QED
  BY <1>1, <1>2, <1>3, <1>4

\* Who closes all the tokens alive of each family that they touch leaves none
\* of it open.
LEMMA CierreDelTodo ==
  ASSUME B!TypeOK, CerradasDelTodo, NEW cierra \in SUBSET B!Tokens, Cierre(cierra),
         B!Emitidos' = B!Emitidos,
         \A t \in cierra, x \in B!Emitidos :
            (tokens[t].familia = tokens[x].familia /\ tokens[x].estado = "VIVO") => x \in cierra
  PROVE  CerradasDelTodo'
<1> SUFFICES ASSUME NEW t \in B!Emitidos, NEW x \in B!Emitidos,
                    tokens'[t].estado = "VIVO", tokens'[x].estado = "CERRADO",
                    tokens'[x].familia = tokens'[t].familia
             PROVE  FALSE
  BY DEF CerradasDelTodo, Cerrada
<1>1. t \in B!Tokens /\ x \in B!Tokens
  BY DEF B!Emitidos
<1>2. tokens[t].estado = "VIVO" /\ t \notin cierra /\ tokens[x].familia = tokens[t].familia
  BY <1>1 DEF Cierre
<1>3. x \in cierra \/ tokens[x].estado = "CERRADO"
  BY <1>1 DEF Cierre
<1>4. QED
  BY <1>2, <1>3 DEF CerradasDelTodo, Cerrada

-----------------------------------------------------------------------------
(* The warehouse: what a step finds.                                       *)

EnSuTurnoB ==
    /\ InvBodega
    /\ Orden
    /\ Orden'
    /\ solapo => solapo'
    /\ desvio' = (desvio \/ TomaSinEstar)

\* The facts that a request under way starts from.
LEMMA AlSeguir ==
  ASSUME EnSuTurnoB, NEW r \in Actores, ~B!En(r, "NINGUNA")
  PROVE  /\ B!TypeOK /\ Seguidos /\ UnDueno
         /\ peticionesB[r] \in B!Lecturas
         /\ peticionesB[r] # B!Libre
         /\ DatosB(peticionesB[r])
         /\ peticionesB[r].quien \in Usuarios
         /\ ~solapo => /\ ValeB(peticionesB[r]) /\ CerradasDelTodo
                       /\ \A s \in Actores \ {r} : peticionesB[s] = B!Libre
                       /\ r \in Peticiones => barridoB = {}
<1>1. /\ B!TypeOK /\ Seguidos /\ UnDueno /\ ConSusDatosB
      /\ ~solapo => LeidoValeB /\ CerradasDelTodo /\ UnoSolo(peticionesB, barridoB, B!Libre)
  BY DEF EnSuTurnoB, InvBodega, Orden
<1>2. peticionesB[r] \in B!Lecturas /\ DatosB(peticionesB[r])
  BY <1>1 DEF B!TypeOK, ConSusDatosB, Actores, B!Actores
<1>3. peticionesB[r].op # "NINGUNA" /\ peticionesB[r] # B!Libre
  BY LibreB DEF B!En
<1>4. peticionesB[r].quien \in Usuarios
  BY <1>2, <1>3 DEF DatosB
<1>5. ~solapo => /\ \A s \in Actores \ {r} : peticionesB[s] = B!Libre
                 /\ r \in Peticiones => barridoB = {}
  BY <1>1, <1>3 DEF UnoSolo
<1>6. QED
  BY <1>1, <1>2, <1>3, <1>4, <1>5 DEF LeidoValeB

LEMMA SigueBienB ==
  ASSUME B!TypeOK, NEW r \in Actores, NEW l \in B!Lecturas, B!Sigue(r, l)
  PROVE  /\ peticionesB' \in [Actores -> B!Lecturas]
         /\ peticionesB'[r] = l
         /\ \A s \in Actores \ {r} : peticionesB'[s] = peticionesB[s]
  BY DEF B!TypeOK, B!Sigue, Actores, B!Actores

\* A step of a request that leaves the tokens alone.
LEMMA SinTokensBien ==
  ASSUME EnSuTurnoB, NEW r \in Actores, NEW l \in B!Lecturas, B!Sigue(r, l),
         UNCHANGED <<rol, tokens>>,
         DatosB(l),
         r = BARRENDERO => l.op \in {"NINGUNA", "SALIR"},
         ~solapo' => ValeB(l),
         ~solapo' /\ r # BARRENDERO => ValeSalir(l),
         latido' \in [Usuarios -> {"NULO", "RECIENTE", "VIEJO"}],
         asignado' \in [Pedidos -> Usuarios \cup {NADIE}],
         barridoB' \in SUBSET Usuarios,
         ~solapo' => BarridoAlDia',
         ~solapo' /\ ~desvio' => B!QuienSalioNoTraePedidos'
  PROVE  InvBodega'
<1>1. /\ B!TypeOK /\ Seguidos /\ UnDueno /\ ConSusDatosB
      /\ peticionesB[BARRENDERO].op \in {"NINGUNA", "SALIR"}
      /\ ~solapo' => CerradasDelTodo /\ LeidoValeB /\ SalenSinSesion
  BY DEF EnSuTurnoB, InvBodega, Orden
<1>2. /\ peticionesB' \in [Actores -> B!Lecturas]
      /\ peticionesB'[r] = l
      /\ \A s \in Actores \ {r} : peticionesB'[s] = peticionesB[s]
  BY <1>1, SigueBienB
<1>3. B!TypeOK'
  BY <1>1, <1>2 DEF B!TypeOK, Actores, B!Actores, B!Tokens, B!Filas, B!Lecturas, B!Ops
<1>4. B!Emitidos' = B!Emitidos /\ B!Tokens' = B!Tokens
  BY DEF B!Emitidos, B!Tokens
<1>5. Seguidos' /\ UnDueno'
  BY <1>1, <1>4 DEF Seguidos, UnDueno
<1>6. ~solapo' => CerradasDelTodo'
  BY <1>1, <1>4 DEF CerradasDelTodo, Cerrada
<1>7. ConSusDatosB'
  <2> SUFFICES ASSUME NEW s \in Actores PROVE DatosB(peticionesB[s])'
    BY DEF ConSusDatosB
  <2>1. DatosB(peticionesB'[s])
    BY <1>1, <1>2 DEF ConSusDatosB
  <2>2. QED
    BY <1>4, <2>1 DEF DatosB, B!Libre
<1>8. ~solapo' => LeidoValeB'
  <2> SUFFICES ASSUME ~solapo', NEW s \in Actores PROVE ValeB(peticionesB[s])'
    BY DEF LeidoValeB
  <2>1. ValeB(peticionesB'[s])
    BY <1>1, <1>2 DEF LeidoValeB
  <2>2. QED
    BY <1>4, <2>1 DEF ValeB, Cerrada
<1>9. ~solapo' => SalenSinSesion'
  <2> SUFFICES ASSUME ~solapo', NEW s \in Peticiones PROVE ValeSalir(peticionesB[s])'
    BY DEF SalenSinSesion
  <2>1. s # BARRENDERO /\ s \in Actores
    BY ActoresAssumption DEF Actores
  <2>2. ValeSalir(peticionesB'[s])
    BY <1>1, <1>2, <2>1 DEF SalenSinSesion
  <2>3. QED
    BY <1>4, <2>2 DEF ValeSalir, B!HaySesionViva, B!Vivos, B!De
<1>10. peticionesB'[BARRENDERO].op \in {"NINGUNA", "SALIR"}
  BY <1>1, <1>2 DEF Actores
<1>11. QED
  BY <1>3, <1>5, <1>6, <1>7, <1>8, <1>9, <1>10 DEF InvBodega

\* A request that changes the tokens is the only one, and it ends, or has only
\* its departure left.
LEMMA ConTokensBien ==
  ASSUME EnSuTurnoB, NEW r \in Peticiones, NEW l \in B!Lecturas, B!Sigue(r, l),
         ~B!En(r, "NINGUNA"),
         l.op \in {"NINGUNA", "SALDRA"}, DatosB(l),
         UNCHANGED <<rol, latido, asignado, barridoB>>,
         tokens' \in [B!Tokens -> B!Filas],
         Seguidos', UnDueno', ~solapo' => CerradasDelTodo',
         \A t \in B!Emitidos : t \in B!Emitidos' /\ tokens'[t].quien = tokens[t].quien
  PROVE  InvBodega'
<1>1. /\ B!TypeOK /\ ConSusDatosB
      /\ peticionesB[BARRENDERO].op \in {"NINGUNA", "SALIR"}
      /\ ~solapo' /\ ~desvio' => B!QuienSalioNoTraePedidos
      /\ ~solapo' => ~solapo
      /\ r \in Actores /\ r # BARRENDERO /\ BARRENDERO \in Actores
  BY ActoresAssumption DEF EnSuTurnoB, InvBodega, Orden, Actores
<1>2. /\ peticionesB' \in [Actores -> B!Lecturas]
      /\ peticionesB'[r] = l
      /\ \A s \in Actores \ {r} : peticionesB'[s] = peticionesB[s]
  BY <1>1, SigueBienB
<1>3. ~solapo' => barridoB = {} /\ \A s \in Actores \ {r} : peticionesB'[s] = B!Libre
  BY <1>1, <1>2, AlSeguir
<1>4. ~solapo' => \A s \in Actores : peticionesB'[s].op \in {"NINGUNA", "SALDRA"}
  BY <1>2, <1>3, LibreB
<1>5. B!TypeOK'
  BY <1>1, <1>2 DEF B!TypeOK, Actores, B!Actores, B!Tokens, B!Filas, B!Lecturas, B!Ops
<1>6. ConSusDatosB'
  <2> SUFFICES ASSUME NEW s \in Actores PROVE DatosB(peticionesB[s])'
    BY DEF ConSusDatosB
  <2>1. DatosB(peticionesB'[s])
    BY <1>1, <1>2 DEF ConSusDatosB
  <2>2. QED
    BY <2>1 DEF DatosB, B!Libre
<1>7. ~solapo' => LeidoValeB' /\ SalenSinSesion'
  BY <1>4 DEF LeidoValeB, ValeB, SalenSinSesion, ValeSalir, Actores
<1>8. ~solapo' => BarridoAlDia'
  BY <1>1, <1>3, <1>4 DEF BarridoAlDia
<1>9. ~solapo' /\ ~desvio' => B!QuienSalioNoTraePedidos'
  BY <1>1 DEF B!QuienSalioNoTraePedidos, B!EnManos
<1>10. peticionesB'[BARRENDERO].op \in {"NINGUNA", "SALIR"}
  BY <1>1, <1>2
<1>11. QED
  BY <1>5, <1>6, <1>7, <1>8, <1>9, <1>10 DEF InvBodega

\* Nobody loses the warehouse and keeps the orders: taking one without being
\* online ends the promise.
LEMMA QuienSalioBien ==
  ASSUME EnSuTurnoB,
         \A u \in Usuarios : latido'[u] = "NULO" => latido[u] = "NULO" \/ \A p \in Pedidos : asignado'[p] # u,
         \A p \in Pedidos : asignado'[p] \in {asignado[p], NADIE} \/ TomaSinEstar
                              \/ (asignado'[p] \in Usuarios /\ latido'[asignado'[p]] # "NULO")
  PROVE  ~solapo' /\ ~desvio' => B!QuienSalioNoTraePedidos'
<1> SUFFICES ASSUME ~solapo', ~desvio', NEW u \in Usuarios, latido'[u] = "NULO",
                    NEW p \in Pedidos, asignado'[p] = u
             PROVE  FALSE
  BY DEF B!QuienSalioNoTraePedidos, B!EnManos
<1>1. B!QuienSalioNoTraePedidos /\ ~TomaSinEstar
  BY DEF EnSuTurnoB, InvBodega
<1>2. latido[u] = "NULO" /\ asignado[p] = u
  BY <1>1, UsuariosAssumption
<1>3. QED
  BY <1>1, <1>2 DEF B!QuienSalioNoTraePedidos, B!EnManos

-----------------------------------------------------------------------------
(* The warehouse: the requests.                                            *)

LEMMA BarridoQuieto ==
  ASSUME EnSuTurnoB, NEW r \in Peticiones, NEW l \in B!Lecturas, B!Sigue(r, l),
         UNCHANGED <<latido, barridoB>>
  PROVE  ~solapo' => BarridoAlDia'
<1>1. ~solapo' => BarridoAlDia
  BY DEF EnSuTurnoB, InvBodega, Orden
<1>2. peticionesB'[BARRENDERO] = peticionesB[BARRENDERO]
  BY SigueBienB, ActoresAssumption DEF Actores, EnSuTurnoB, InvBodega
<1>3. QED
  BY <1>1, <1>2 DEF BarridoAlDia

\* While a request is under way the sweep has nothing in its hands.
LEMMA BarridoConPeticion ==
  ASSUME EnSuTurnoB, NEW r \in Peticiones, ~B!En(r, "NINGUNA"), NEW l \in B!Lecturas, B!Sigue(r, l),
         UNCHANGED barridoB
  PROVE  ~solapo' => BarridoAlDia'
<1>1. r \in Actores /\ BARRENDERO \in Actores \ {r} /\ (~solapo' => ~solapo)
  BY ActoresAssumption DEF Actores, EnSuTurnoB, Orden
<1>2. ~solapo' => peticionesB[BARRENDERO] = B!Libre /\ barridoB = {}
  BY <1>1, AlSeguir
<1>3. peticionesB'[BARRENDERO] = peticionesB[BARRENDERO]
  BY <1>1, SigueBienB DEF EnSuTurnoB, InvBodega
<1>4. QED
  BY <1>2, <1>3, LibreB DEF BarridoAlDia

\* A request that only reads, or only looks again.
LEMMA QuietaBien ==
  ASSUME EnSuTurnoB, NEW r \in Peticiones, NEW l \in B!Lecturas, B!Sigue(r, l),
         UNCHANGED <<rol, tokens, latido, asignado, barridoB>>,
         DatosB(l), ~solapo' => ValeB(l) /\ ValeSalir(l)
  PROVE  InvBodega'
<1>1. r \in Actores /\ r # BARRENDERO
  BY ActoresAssumption DEF Actores
<1>2. ~solapo' => BarridoAlDia'
  BY BarridoQuieto
<1>3. ~solapo' /\ ~desvio' => B!QuienSalioNoTraePedidos'
  BY QuienSalioBien
<1>4. /\ latido' \in [Usuarios -> {"NULO", "RECIENTE", "VIEJO"}]
      /\ asignado' \in [Pedidos -> Usuarios \cup {NADIE}]
      /\ barridoB' \in SUBSET Usuarios
  BY DEF EnSuTurnoB, InvBodega, B!TypeOK
<1>5. QED
  BY <1>1, <1>2, <1>3, <1>4, SinTokensBien

LEMMA PasaEs ==
  ASSUME NEW x \in B!Lecturas, NEW op \in B!Ops
  PROVE  /\ [x EXCEPT !.op = op] \in B!Lecturas
         /\ [x EXCEPT !.op = op].op = op
         /\ [x EXCEPT !.op = op].quien = x.quien
         /\ [x EXCEPT !.op = op].tok = x.tok
         /\ [x EXCEPT !.op = op].ped = x.ped
         /\ [x EXCEPT !.op = op].cierra = x.cierra
         /\ [x EXCEPT !.op = op].sale = x.sale
  BY DEF B!Lecturas

LEMMA LibreVale == DatosB(B!Libre) /\ ValeB(B!Libre) /\ ValeSalir(B!Libre)
  BY LibreB DEF DatosB, ValeB, ValeSalir

LEMMA LeeEntrarBien ==
  ASSUME EnSuTurnoB, NEW r \in Peticiones, NEW u \in Usuarios, B!LeeEntrar(r, u)
  PROVE  InvBodega'
<1> DEFINE l == [[B!Libre EXCEPT !.quien = u] EXCEPT !.op = "ENTRAR"]
<1>1. l \in B!Lecturas /\ l.op = "ENTRAR" /\ l.quien = u /\ l.tok = 0
  BY CeroCabe DEF B!Lecturas, B!Libre, B!Ops
<1>2. B!Sigue(r, l) /\ UNCHANGED <<rol, tokens, latido, asignado, barridoB>>
  BY DEF B!LeeEntrar, B!Recibe
<1> HIDE DEF l
<1>3. DatosB(l) /\ ValeB(l) /\ ValeSalir(l)
  BY <1>1 DEF DatosB, ValeB, ValeSalir
<1>4. QED
  BY <1>1, <1>2, <1>3, QuietaBien

LEMMA LeeRenovarBien ==
  ASSUME EnSuTurnoB, NEW r \in Peticiones, NEW t \in B!Tokens, B!LeeRenovar(r, t)
  PROVE  InvBodega'
<1> DEFINE l == [[B!Libre EXCEPT !.quien = tokens[t].quien, !.tok = t] EXCEPT !.op = "RENOVAR"]
<1>1. t \in B!Emitidos /\ tokens[t].quien \in Usuarios /\ t # 0 /\ t \in 0..MAX_TOKENS
  BY TokensAssumption DEF B!LeeRenovar, EnSuTurnoB, InvBodega, Seguidos, B!Tokens
<1>2. l \in B!Lecturas /\ l.op = "RENOVAR" /\ l.quien = tokens[t].quien /\ l.tok = t
  BY <1>1 DEF B!Lecturas, B!Libre, B!Ops
<1>3. B!Sigue(r, l) /\ UNCHANGED <<rol, tokens, latido, asignado, barridoB>>
  BY DEF B!LeeRenovar, B!Recibe
<1> HIDE DEF l
<1>4. DatosB(l) /\ ValeB(l) /\ ValeSalir(l)
  BY <1>1, <1>2 DEF DatosB, ValeB, ValeSalir
<1>5. QED
  BY <1>2, <1>3, <1>4, QuietaBien

\* A closing names whole sessions: with a token, its whole family.
LEMMA CierresEnteros ==
  ASSUME UnDueno, NEW u \in Usuarios, NEW c \in B!Cierres(u)
  PROVE  /\ c.ts \subseteq B!Emitidos
         /\ \A t \in c.ts, x \in B!Emitidos : tokens[t].familia = tokens[x].familia => x \in c.ts
         /\ c.sale \in BOOLEAN
<1>1. c.sale \in BOOLEAN /\ \/ c.ts = B!De(u)
                            \/ \E f \in B!Sesion(u) : c.ts = f \/ c.ts = B!De(u) \ f
  BY DEF B!Cierres
<1>2. CASE c.ts = B!De(u)
  BY <1>1, <1>2 DEF B!De, UnDueno
<1>3. ASSUME NEW f \in B!Sesion(u), c.ts = f \/ c.ts = B!De(u) \ f
      PROVE  /\ c.ts \subseteq B!Emitidos
             /\ \A t \in c.ts, x \in B!Emitidos : tokens[t].familia = tokens[x].familia => x \in c.ts
  <2>1. PICK s \in B!De(u) : f = B!DeFamilia(tokens[s].familia)
    BY DEF B!Sesion
  <2>2. f = {x \in B!Emitidos : tokens[x].familia = tokens[s].familia}
    BY <2>1 DEF B!DeFamilia
  <2>3. CASE c.ts = f
    BY <2>2, <2>3
  <2>4. CASE c.ts = B!De(u) \ f
    BY <2>2, <2>4 DEF B!De, UnDueno
  <2>5. QED
    BY <1>3, <2>3, <2>4
<1>4. QED
  BY <1>1, <1>2, <1>3

LEMMA LeeCerrarBien ==
  ASSUME EnSuTurnoB, NEW r \in Peticiones, NEW u \in Usuarios, B!LeeCerrar(r, u)
  PROVE  InvBodega'
<1>1. PICK c \in B!Cierres(u) :
         B!Recibe(r, "CERRAR", [B!Libre EXCEPT !.quien = u, !.cierra = B!Vivos(c.ts), !.sale = c.sale])
  BY DEF B!LeeCerrar
<1> DEFINE l == [[B!Libre EXCEPT !.quien = u, !.cierra = B!Vivos(c.ts), !.sale = c.sale] EXCEPT !.op = "CERRAR"]
<1>2. /\ c.ts \subseteq B!Emitidos
      /\ \A t \in c.ts, x \in B!Emitidos : tokens[t].familia = tokens[x].familia => x \in c.ts
      /\ c.sale \in BOOLEAN
  BY CierresEnteros DEF EnSuTurnoB, InvBodega
<1>3. B!Vivos(c.ts) \subseteq B!Tokens
  BY <1>2 DEF B!Vivos, B!Emitidos
<1>4. l \in B!Lecturas /\ l.op = "CERRAR" /\ l.quien = u /\ l.cierra = B!Vivos(c.ts)
  BY <1>2, <1>3, CeroCabe DEF B!Lecturas, B!Libre, B!Ops
<1>5. B!Sigue(r, l) /\ UNCHANGED <<rol, tokens, latido, asignado, barridoB>>
  BY <1>1 DEF B!Recibe
<1> HIDE DEF l
<1>6. DatosB(l) /\ ValeSalir(l)
  BY <1>4 DEF DatosB, ValeSalir
<1>7. ValeB(l)
  BY <1>2, <1>4 DEF ValeB, B!Vivos
<1>8. QED
  BY <1>4, <1>5, <1>6, <1>7, QuietaBien

LEMMA LeeLatidoBien ==
  ASSUME EnSuTurnoB, NEW r \in Peticiones, NEW u \in Usuarios, B!LeeLatido(r, u)
  PROVE  InvBodega'
<1>1. PICK op \in {"LATIR", "REVIVIR"} : B!Recibe(r, op, [B!Libre EXCEPT !.quien = u])
  BY DEF B!LeeLatido
<1> DEFINE l == [[B!Libre EXCEPT !.quien = u] EXCEPT !.op = op]
<1>2. l \in B!Lecturas /\ l.op = op /\ l.quien = u
  BY CeroCabe DEF B!Lecturas, B!Libre, B!Ops
<1>3. B!Sigue(r, l) /\ UNCHANGED <<rol, tokens, latido, asignado, barridoB>>
  BY <1>1 DEF B!Recibe
<1> HIDE DEF l
<1>4. DatosB(l) /\ ValeB(l) /\ ValeSalir(l)
  BY <1>2 DEF DatosB, ValeB, ValeSalir
<1>5. QED
  BY <1>2, <1>3, <1>4, QuietaBien

LEMMA LeeTomarBien ==
  ASSUME EnSuTurnoB, NEW r \in Peticiones, NEW u \in Usuarios, NEW p \in Pedidos, B!LeeTomar(r, u, p)
  PROVE  InvBodega'
<1> DEFINE l == [[B!Libre EXCEPT !.quien = u, !.ped = p] EXCEPT !.op = "TOMAR"]
<1>1. l \in B!Lecturas /\ l.op = "TOMAR" /\ l.quien = u /\ l.ped = p
  BY CeroCabe DEF B!Lecturas, B!Libre, B!Ops
<1>2. B!Sigue(r, l) /\ UNCHANGED <<rol, tokens, latido, asignado, barridoB>>
  BY DEF B!LeeTomar, B!Recibe
<1> HIDE DEF l
<1>3. DatosB(l) /\ ValeB(l) /\ ValeSalir(l)
  BY <1>1 DEF DatosB, ValeB, ValeSalir
<1>4. QED
  BY <1>1, <1>2, <1>3, QuietaBien

\* A request that looks again and goes on, or ends.
LEMMA MiraBien ==
  ASSUME EnSuTurnoB, NEW r \in Peticiones,
         B!Relee(r) \/ B!Cuenta(r) \/ B!MiraSesiones(r) \/ B!Revive(r) \/ B!Abandona(r)
  PROVE  InvBodega'
<1> DEFINE x == peticionesB[r]
<1>1. UNCHANGED <<rol, tokens, latido, asignado, barridoB>> /\ r \in Actores
  BY DEF B!Relee, B!Cuenta, B!MiraSesiones, B!Revive, B!Abandona, Actores
<1>2. CASE B!Sigue(r, B!Libre)
  BY <1>1, <1>2, LibreB, LibreVale, QuietaBien
<1>3. ASSUME NEW op \in {"CONTAR", "REVOCAR", "EMITIR", "SALIR", "LATIR"}, B!Pasa(r, op),
             op \in {"CONTAR", "REVOCAR"} => B!En(r, "RENOVAR") \/ B!En(r, "CONTAR"),
             op = "EMITIR" => B!En(r, "CONTAR") /\ ~B!CerradaAProposito(tokens[x.tok].familia),
             op = "SALIR" => ~B!HaySesionViva(x.quien),
             ~B!En(r, "NINGUNA")
      PROVE  InvBodega'
  <2> DEFINE l == [x EXCEPT !.op = op]
  <2>1. x \in B!Lecturas /\ DatosB(x) /\ x.quien \in Usuarios
    BY <1>1, <1>3, AlSeguir
  <2>2. op \in B!Ops
    BY DEF B!Ops
  <2>3. l \in B!Lecturas /\ l.op = op /\ l.quien = x.quien /\ l.tok = x.tok
    BY <2>1, <2>2, PasaEs
  <2>4. B!Sigue(r, l)
    BY <1>3 DEF B!Pasa
  <2> HIDE DEF l, x
  <2>5. DatosB(l)
    BY <1>3, <2>1, <2>3 DEF DatosB, B!En, x
  <2>6. ValeB(l)
    BY <1>3, <2>3 DEF ValeB, B!CerradaAProposito, B!DeFamilia, Cerrada
  <2>7. ValeSalir(l)
    BY <1>3, <2>3 DEF ValeSalir
  <2>8. QED
    BY <1>1, <2>3, <2>4, <2>5, <2>6, <2>7, QuietaBien
<1>4. CASE B!Relee(r)
  <2>1. B!En(r, "RENOVAR") /\ ~B!En(r, "NINGUNA") /\ (B!Pasa(r, "CONTAR") \/ B!Pasa(r, "REVOCAR"))
    BY <1>4 DEF B!Relee, B!En
  <2>2. QED
    BY <1>3, <2>1
<1>5. CASE B!Cuenta(r)
  <2>1. /\ B!En(r, "CONTAR") /\ ~B!En(r, "NINGUNA")
        /\ \/ B!Pasa(r, "REVOCAR")
           \/ B!Pasa(r, "EMITIR") /\ ~B!CerradaAProposito(tokens[x.tok].familia)
    BY <1>5 DEF B!Cuenta, B!En
  <2>2. QED
    BY <1>3, <2>1
<1>6. CASE B!MiraSesiones(r)
  <2>1. /\ ~B!En(r, "NINGUNA")
        /\ B!Sigue(r, B!Libre) \/ (B!Pasa(r, "SALIR") /\ ~B!HaySesionViva(x.quien))
    BY <1>6 DEF B!MiraSesiones, B!Termina, B!En
  <2>2. QED
    BY <1>2, <1>3, <2>1
<1>7. CASE B!Revive(r)
  <2>1. ~B!En(r, "NINGUNA") /\ (B!Sigue(r, B!Libre) \/ B!Pasa(r, "LATIR"))
    BY <1>7 DEF B!Revive, B!Termina, B!En
  <2>2. QED
    BY <1>2, <1>3, <2>1
<1>8. CASE B!Abandona(r)
  BY <1>2, <1>8 DEF B!Abandona, B!Termina
<1>9. QED
  BY <1>4, <1>5, <1>6, <1>7, <1>8

-----------------------------------------------------------------------------
(* The warehouse: who comes in, gives signs of life, takes orders, leaves. *)

LEMMA EntraBien ==
  ASSUME EnSuTurnoB, NEW r \in Peticiones, B!Entra(r)
  PROVE  InvBodega'
<1> DEFINE x == peticionesB[r]
           l == [x EXCEPT !.op = "EMITIR"]
<1>1. r \in Actores /\ r # BARRENDERO /\ B!En(r, "ENTRAR") /\ ~B!En(r, "NINGUNA")
  BY ActoresAssumption DEF B!Entra, B!En, Actores
<1>2. /\ B!TypeOK /\ x \in B!Lecturas /\ x.quien \in Usuarios
  BY <1>1, AlSeguir
<1>3. "EMITIR" \in B!Ops
  BY DEF B!Ops
<1>4. l \in B!Lecturas /\ l.op = "EMITIR" /\ l.quien = x.quien /\ l.tok = x.tok
  BY <1>2, <1>3, PasaEs
<1>5. /\ B!Sigue(r, l)
      /\ UNCHANGED <<rol, tokens, asignado, barridoB>>
      /\ latido' = latido \/ latido' = [latido EXCEPT ![x.quien] = "RECIENTE"]
  BY DEF B!Entra, B!Pasa
<1>6. \A s \in Actores : peticionesB[s].op = "ENTRAR" => peticionesB[s].tok = 0
  BY DEF EnSuTurnoB, InvBodega, ConSusDatosB, DatosB
<1>7. x.tok = 0
  BY <1>1, <1>6 DEF B!En
<1> HIDE DEF x, l
<1>8. latido' \in [Usuarios -> {"NULO", "RECIENTE", "VIEJO"}] /\ \A u \in Usuarios : latido'[u] = "NULO" => latido[u] = "NULO"
  BY <1>2, <1>5 DEF B!TypeOK
<1>9. ~solapo' => BarridoAlDia'
  BY <1>1, <1>4, <1>5, BarridoConPeticion
<1>10. ~solapo' /\ ~desvio' => B!QuienSalioNoTraePedidos'
  BY <1>5, <1>8, QuienSalioBien
<1>11. DatosB(l) /\ ValeB(l) /\ ValeSalir(l)
  BY <1>2, <1>4, <1>7 DEF DatosB, ValeB, ValeSalir
<1>12. /\ asignado' \in [Pedidos -> Usuarios \cup {NADIE}]
       /\ barridoB' \in SUBSET Usuarios
  BY <1>2, <1>5 DEF B!TypeOK
<1>13. QED
  BY <1>1, <1>4, <1>5, <1>8, <1>9, <1>10, <1>11, <1>12, SinTokensBien

\* The heartbeat, the taking of an order and the leaving, which end a request.
LEMMA TerminaConPeticion ==
  ASSUME EnSuTurnoB, NEW r \in Peticiones, ~B!En(r, "NINGUNA"), B!Termina(r),
         UNCHANGED <<rol, tokens, barridoB>>,
         latido' \in [Usuarios -> {"NULO", "RECIENTE", "VIEJO"}],
         asignado' \in [Pedidos -> Usuarios \cup {NADIE}],
         ~solapo' /\ ~desvio' => B!QuienSalioNoTraePedidos'
  PROVE  InvBodega'
<1>1. r \in Actores /\ r # BARRENDERO /\ B!Sigue(r, B!Libre)
  BY ActoresAssumption DEF B!Termina, Actores
<1>2. ~solapo' => BarridoAlDia'
  BY <1>1, LibreB, BarridoConPeticion
<1>3. barridoB' \in SUBSET Usuarios
  BY DEF EnSuTurnoB, InvBodega, B!TypeOK
<1>4. QED
  BY <1>1, <1>2, <1>3, LibreB, LibreVale, SinTokensBien

LEMMA LateBien ==
  ASSUME EnSuTurnoB, NEW r \in Peticiones, B!Late(r)
  PROVE  InvBodega'
<1> DEFINE u == peticionesB[r].quien
<1>1. r \in Actores /\ ~B!En(r, "NINGUNA")
  BY DEF B!Late, B!En, Actores
<1>2. B!TypeOK /\ u \in Usuarios
  BY <1>1, AlSeguir
<1>3. /\ B!Termina(r) /\ UNCHANGED <<rol, tokens, asignado, barridoB>>
      /\ latido' = [latido EXCEPT ![u] = "RECIENTE"]
  BY DEF B!Late
<1> HIDE DEF u
<1>4. /\ latido' \in [Usuarios -> {"NULO", "RECIENTE", "VIEJO"}]
      /\ \A v \in Usuarios : latido'[v] = "NULO" => latido[v] = "NULO"
      /\ asignado' \in [Pedidos -> Usuarios \cup {NADIE}]
  BY <1>2, <1>3 DEF B!TypeOK
<1>5. ~solapo' /\ ~desvio' => B!QuienSalioNoTraePedidos'
  BY <1>3, <1>4, QuienSalioBien
<1>6. QED
  BY <1>1, <1>3, <1>4, <1>5, TerminaConPeticion

LEMMA TomaBien ==
  ASSUME EnSuTurnoB, NEW r \in Peticiones, B!Toma(r)
  PROVE  InvBodega'
<1> DEFINE u == peticionesB[r].quien
           p == peticionesB[r].ped
<1>1. r \in Actores /\ ~B!En(r, "NINGUNA") /\ B!En(r, "TOMAR")
  BY DEF B!Toma, B!En, Actores
<1>2. B!TypeOK /\ u \in Usuarios /\ p \in Pedidos
  BY <1>1, AlSeguir DEF DatosB, B!En
<1>3. /\ B!Termina(r) /\ UNCHANGED <<rol, tokens, latido, barridoB>>
      /\ asignado[p] = NADIE
      /\ asignado' = [asignado EXCEPT ![p] = u]
  BY DEF B!Toma
<1> HIDE DEF u, p
<1>4. asignado' \in [Pedidos -> Usuarios \cup {NADIE}] /\ asignado'[p] = u
  BY <1>2, <1>3 DEF B!TypeOK
<1>5. TomaSinEstar \/ latido'[u] # "NULO"
  BY <1>2, <1>3, <1>4, UsuariosAssumption DEF TomaSinEstar
<1>6. \A q \in Pedidos : asignado'[q] = asignado[q] \/ asignado'[q] = u
  BY <1>2, <1>3 DEF B!TypeOK
<1>7. ~solapo' /\ ~desvio' => B!QuienSalioNoTraePedidos'
  BY <1>2, <1>3, <1>5, <1>6, QuienSalioBien
<1>8. latido' \in [Usuarios -> {"NULO", "RECIENTE", "VIEJO"}]
  BY <1>2, <1>3 DEF B!TypeOK
<1>9. QED
  BY <1>1, <1>3, <1>4, <1>7, <1>8, TerminaConPeticion

\* Whoever leaves gives back everything at once, on their own or taken out by
\* the sweep.
LEMMA SaleBien ==
  ASSUME EnSuTurnoB, NEW r \in Actores, B!Sale(r)
  PROVE  InvBodega'
<1> DEFINE u == peticionesB[r].quien
<1>1. B!En(r, "SALIR") /\ ~B!En(r, "NINGUNA")
  BY DEF B!Sale, B!En
<1>2. B!TypeOK /\ u \in Usuarios
  BY <1>1, AlSeguir
<1>3. /\ B!Sigue(r, B!Libre) /\ UNCHANGED <<rol, tokens, barridoB>>
      /\ latido' = [latido EXCEPT ![u] = "NULO"]
      /\ asignado' = [p \in Pedidos |-> IF p \in B!EnManos(u) THEN NADIE ELSE asignado[p]]
  BY DEF B!Sale, B!Devueltos, B!Termina
<1> HIDE DEF u
<1>4. /\ latido' \in [Usuarios -> {"NULO", "RECIENTE", "VIEJO"}]
      /\ asignado' \in [Pedidos -> Usuarios \cup {NADIE}]
      /\ \A p \in Pedidos : asignado'[p] \in {asignado[p], NADIE} /\ asignado'[p] # u
      /\ \A v \in Usuarios \ {u} : latido'[v] = latido[v]
  BY <1>2, <1>3, UsuariosAssumption DEF B!TypeOK, B!EnManos
<1>5. ~solapo' /\ ~desvio' => B!QuienSalioNoTraePedidos'
  BY <1>4, QuienSalioBien
<1>6. CASE r \in Peticiones
  BY <1>1, <1>3, <1>4, <1>5, <1>6, TerminaConPeticion DEF B!Termina
<1>7. CASE r = BARRENDERO
  <2>1. ~solapo' => BarridoAlDia
    BY DEF EnSuTurnoB, InvBodega, Orden
  <2>2. peticionesB'[BARRENDERO] = B!Libre
    BY <1>2, <1>3, <1>7, LibreB, SigueBienB
  <2>3. peticionesB[BARRENDERO].op = "SALIR" /\ u = peticionesB[BARRENDERO].quien
    BY <1>1, <1>7 DEF B!En, u
  <2>4. ~solapo' => BarridoAlDia'
    BY <1>2, <1>3, <1>4, <2>1, <2>2, <2>3, LibreB DEF BarridoAlDia, B!TypeOK
  <2>5. barridoB' \in SUBSET Usuarios
    BY <1>2, <1>3 DEF B!TypeOK
  <2>6. QED
    BY <1>3, <1>4, <1>5, <1>7, <2>4, <2>5, LibreB, LibreVale, SinTokensBien
<1>8. QED
  BY <1>6, <1>7 DEF Actores

-----------------------------------------------------------------------------
(* The warehouse: the requests that write tokens.                          *)

\* A login opens a family of its own, and a refresh adds to that of the token
\* presented, which is open.
LEMMA EmiteEs ==
  ASSUME EnSuTurnoB, NEW r \in Peticiones, B!Emite(r)
  PROVE  \E f \in B!Tokens :
            /\ Emision(peticionesB[r].quien, f)
            /\ \/ f = B!Siguiente
               \/ /\ \E t \in B!Emitidos : f = tokens[t].familia /\ peticionesB[r].quien = tokens[t].quien
                  /\ ~solapo => ~Cerrada(f)
<1> DEFINE l == peticionesB[r]
           f == IF l.tok = 0 THEN B!Siguiente ELSE tokens[l.tok].familia
           k == B!Siguiente
<1>1. r \in Actores /\ ~B!En(r, "NINGUNA") /\ B!En(r, "EMITIR")
  BY DEF B!Emite, B!En, Actores
<1>2. /\ B!TypeOK /\ Seguidos /\ l.quien \in Usuarios /\ DatosB(l) /\ l.op = "EMITIR"
      /\ ~solapo => ValeB(l)
  BY <1>1, AlSeguir DEF B!En
<1>3. k \in B!Tokens /\ tokens' = [tokens EXCEPT ![k] = B!Nuevo(l.quien, f)]
  BY DEF B!Emite, B!Con
<1>4. l.tok # 0 => l.tok \in B!Emitidos /\ tokens[l.tok].quien = l.quien /\ f \in B!Emitidos
  BY <1>2 DEF DatosB, Seguidos
<1>5. f \in B!Tokens /\ f \in 0..MAX_TOKENS
  BY <1>3, <1>4, TokensAssumption DEF B!Emitidos, B!Tokens
<1>6. \/ f = k
      \/ /\ \E t \in B!Emitidos : f = tokens[t].familia /\ l.quien = tokens[t].quien
         /\ ~solapo => ~Cerrada(f)
  BY <1>2, <1>4 DEF ValeB
<1> HIDE DEF f, l, k
<1>7. B!Nuevo(l.quien, f) \in B!Filas
  BY <1>2, <1>5 DEF B!Nuevo, B!Filas
<1>8. Emision(l.quien, f)
  BY <1>2, <1>3, <1>7 DEF Emision, B!TypeOK, k
<1>9. QED
  BY <1>5, <1>6, <1>8 DEF l, k

\* A rotation takes a token alive and issues its successor in its family.
LEMMA RotaEs ==
  ASSUME EnSuTurnoB, NEW r \in Peticiones, B!Rota(r)
  PROVE  \E f \in B!Tokens :
            /\ Emision(peticionesB[r].quien, f)
            /\ \E t \in B!Emitidos : f = tokens[t].familia /\ peticionesB[r].quien = tokens[t].quien
            /\ ~solapo => ~Cerrada(f)
<1> DEFINE l == peticionesB[r]
           f == tokens[l.tok].familia
           k == B!Siguiente
           filas == B!Revocados({l.tok}, "ROTADO")
<1>1. r \in Actores /\ ~B!En(r, "NINGUNA") /\ B!En(r, "RENOVAR")
  BY DEF B!Rota, B!En, Actores
<1>2. /\ B!TypeOK /\ Seguidos /\ l.quien \in Usuarios /\ DatosB(l) /\ l.op = "RENOVAR"
      /\ ~solapo => CerradasDelTodo
  BY <1>1, AlSeguir DEF B!En
<1>3. l.tok \in B!Emitidos /\ tokens[l.tok].quien = l.quien /\ f \in B!Emitidos
  BY <1>2 DEF DatosB, Seguidos
<1>4. tokens[l.tok].estado = "VIVO" /\ k \in B!Tokens
  BY DEF B!Rota, B!Vivos
<1>5. tokens' = [filas EXCEPT ![k] = B!Nuevo(l.quien, f)]
  BY DEF B!Rota, B!Con
<1>6. ~solapo => ~Cerrada(f)
  BY <1>2, <1>3, <1>4 DEF CerradasDelTodo
<1>7. f \in B!Tokens /\ f \in 0..MAX_TOKENS /\ l.tok \in B!Tokens
  BY <1>3, TokensAssumption DEF B!Emitidos, B!Tokens
<1>8. filas = [t \in B!Tokens |-> IF t = l.tok
                                  THEN [tokens[t] EXCEPT !.estado = "ROTADO", !.hace = TRUE]
                                  ELSE tokens[t]]
  BY <1>4, <1>7 DEF B!Revocados, B!Vivos
<1> HIDE DEF f, l, k, filas
<1>9. B!Nuevo(l.quien, f) \in B!Filas
  BY <1>2, <1>7 DEF B!Nuevo, B!Filas
<1>10. \A t \in B!Tokens : tokens[t] \in B!Filas
  BY <1>2 DEF B!TypeOK
<1>11. filas \in [B!Tokens -> B!Filas]
  <2>1. \A t \in B!Tokens : [tokens[t] EXCEPT !.estado = "ROTADO", !.hace = TRUE] \in B!Filas
    BY <1>10 DEF B!Filas
  <2>2. QED
    BY <1>8, <1>10, <2>1
<1>12. \A t \in B!Tokens : /\ filas[t].quien = tokens[t].quien /\ filas[t].familia = tokens[t].familia
                           /\ filas[t].estado = tokens[t].estado
                               \/ (tokens[t].estado = "VIVO" /\ filas[t].estado = "ROTADO")
  BY <1>4, <1>8, <1>10 DEF B!Filas
<1>13. Emision(l.quien, f)
  BY <1>4, <1>5, <1>9, <1>11, <1>12 DEF Emision, k
<1>14. QED
  BY <1>3, <1>6, <1>7, <1>13 DEF f, l

LEMMA EmisionesBien ==
  ASSUME EnSuTurnoB, NEW r \in Peticiones, B!Emite(r) \/ B!Rota(r)
  PROVE  InvBodega'
<1> DEFINE u == peticionesB[r].quien
<1>1. r \in Actores /\ ~B!En(r, "NINGUNA")
  BY DEF B!Emite, B!Rota, B!En, Actores
<1>2. /\ B!TypeOK /\ Seguidos /\ UnDueno /\ u \in Usuarios
      /\ ~solapo => CerradasDelTodo
      /\ ~solapo' => ~solapo
  BY <1>1, AlSeguir DEF EnSuTurnoB, Orden
<1>3. PICK f \in B!Tokens :
         /\ Emision(u, f)
         /\ \/ f = B!Siguiente
            \/ /\ \E t \in B!Emitidos : f = tokens[t].familia /\ u = tokens[t].quien
               /\ ~solapo => ~Cerrada(f)
  BY EmiteEs, RotaEs
<1>4. UNCHANGED <<rol, latido, asignado, barridoB>> /\ B!Sigue(r, B!Libre)
  BY DEF B!Emite, B!Rota, B!Termina
<1>5. /\ Seguidos' /\ UnDueno'
      /\ \A t \in B!Emitidos : t \in B!Emitidos' /\ tokens'[t].quien = tokens[t].quien
  BY <1>2, <1>3, EmisionBien
<1>6. ~solapo' => CerradasDelTodo'
  BY <1>2, <1>3, EmisionEnAbierta
<1>7. tokens' \in [B!Tokens -> B!Filas]
  BY <1>3 DEF Emision
<1>8. QED
  BY <1>1, <1>4, <1>5, <1>6, <1>7, LibreB, LibreVale, ConTokensBien

LEMMA RevocadosCierra ==
  ASSUME B!TypeOK, NEW ts \in SUBSET B!Tokens, tokens' = B!Revocados(ts, "CERRADO")
  PROVE  Cierre(ts)
<1>1. \A t \in B!Tokens : tokens[t] \in B!Filas
  BY DEF B!TypeOK
<1>2. \A t \in B!Tokens :
         /\ [tokens[t] EXCEPT !.estado = "CERRADO", !.hace = FALSE] \in B!Filas
         /\ [tokens[t] EXCEPT !.estado = "CERRADO", !.hace = FALSE].quien = tokens[t].quien
         /\ [tokens[t] EXCEPT !.estado = "CERRADO", !.hace = FALSE].familia = tokens[t].familia
         /\ [tokens[t] EXCEPT !.estado = "CERRADO", !.hace = FALSE].estado = "CERRADO"
  BY <1>1 DEF B!Filas
<1>3. tokens' = [t \in B!Tokens |->
                    IF t \in ts /\ tokens[t].estado = "VIVO"
                    THEN [tokens[t] EXCEPT !.estado = "CERRADO", !.hace = FALSE]
                    ELSE tokens[t]]
  BY DEF B!Revocados, B!Vivos
<1>4. QED
  BY <1>1, <1>2, <1>3 DEF Cierre

LEMMA RevocacionesBien ==
  ASSUME EnSuTurnoB, NEW r \in Peticiones, B!RevocaFamilia(r) \/ B!Cierra(r)
  PROVE  InvBodega'
<1> DEFINE x == peticionesB[r]
           ts == IF B!RevocaFamilia(r) THEN B!DeFamilia(tokens[x.tok].familia) ELSE x.cierra
           l == IF B!RevocaFamilia(r) \/ ~x.sale THEN B!Libre ELSE [x EXCEPT !.op = "SALDRA"]
<1>1. r \in Actores /\ ~B!En(r, "NINGUNA")
  BY DEF B!RevocaFamilia, B!Cierra, B!En, Actores
<1>2. /\ B!TypeOK /\ Seguidos /\ UnDueno /\ x \in B!Lecturas /\ x.quien \in Usuarios
      /\ ~solapo => CerradasDelTodo /\ ValeB(x)
      /\ ~solapo' => ~solapo
  BY <1>1, AlSeguir DEF EnSuTurnoB, Orden
<1>3. /\ tokens' = B!Revocados(ts, "CERRADO")
      /\ B!Sigue(r, l)
      /\ UNCHANGED <<rol, latido, asignado, barridoB>>
      /\ ~B!RevocaFamilia(r) => x.op = "CERRAR"
  BY DEF B!RevocaFamilia, B!Cierra, B!Termina, B!Pasa, B!En
<1>4. ts \in SUBSET B!Tokens
  BY <1>2 DEF B!DeFamilia, B!Emitidos, B!Lecturas, B!Tokens
<1>5. ~solapo =>
        \A t \in ts, y \in B!Emitidos :
           (tokens[t].familia = tokens[y].familia /\ tokens[y].estado = "VIVO") => y \in ts
  BY <1>2, <1>3 DEF B!DeFamilia, ValeB
<1>6. "SALDRA" \in B!Ops
  BY DEF B!Ops
<1>7. l \in B!Lecturas /\ l.op \in {"NINGUNA", "SALDRA"} /\ DatosB(l)
  <2>1. CASE B!RevocaFamilia(r) \/ ~x.sale
    BY <2>1, LibreB, LibreVale
  <2>2. CASE ~(B!RevocaFamilia(r) \/ ~x.sale)
    <3>1. l \in B!Lecturas /\ l.op = "SALDRA" /\ l.quien = x.quien
      BY <1>2, <1>6, <2>2, PasaEs
    <3>2. QED
      BY <1>2, <3>1 DEF DatosB
  <2>3. QED
    BY <2>1, <2>2
<1> HIDE DEF x, ts, l
<1>8. Cierre(ts)
  BY <1>2, <1>3, <1>4, RevocadosCierra
<1>9. /\ B!Emitidos' = B!Emitidos /\ Seguidos' /\ UnDueno'
      /\ \A t \in B!Emitidos : t \in B!Emitidos' /\ tokens'[t].quien = tokens[t].quien
  BY <1>2, <1>4, <1>8, CierreBien
<1>10. ~solapo' => CerradasDelTodo'
  BY <1>2, <1>4, <1>5, <1>8, <1>9, CierreDelTodo
<1>11. tokens' \in [B!Tokens -> B!Filas]
  BY <1>8 DEF Cierre
<1>12. QED
  BY <1>1, <1>3, <1>7, <1>9, <1>10, <1>11, ConTokensBien

-----------------------------------------------------------------------------
(* The warehouse: the clock, the worker and the rest.                      *)

\* Time only takes away: no token comes back to life, no session is fresh again.
LEMMA VenceEs ==
  ASSUME B!TypeOK, NEW t \in B!Tokens, B!VenceGracia(t) \/ B!DejaDeEstarFresco(t)
  PROVE  /\ Cierre({})
         /\ \A x \in B!Tokens : tokens'[x].fresco => tokens[x].fresco
<1>1. tokens[t] \in B!Filas /\ \A x \in B!Tokens : tokens[x] \in B!Filas
  BY DEF B!TypeOK
<1>2. PICK f \in B!Filas : /\ tokens' = [tokens EXCEPT ![t] = f]
                           /\ f.quien = tokens[t].quien /\ f.familia = tokens[t].familia
                           /\ f.estado = tokens[t].estado /\ (f.fresco => tokens[t].fresco)
  <2>1. CASE B!VenceGracia(t)
    <3>1. [tokens[t] EXCEPT !.hace = FALSE] \in B!Filas
      BY <1>1 DEF B!Filas
    <3>2. tokens' = [tokens EXCEPT ![t] = [tokens[t] EXCEPT !.hace = FALSE]]
      BY <2>1 DEF B!VenceGracia
    <3>3. QED
      BY <1>1, <3>1, <3>2 DEF B!Filas
  <2>2. CASE B!DejaDeEstarFresco(t)
    <3>1. [tokens[t] EXCEPT !.fresco = FALSE, !.hace = FALSE] \in B!Filas
      BY <1>1 DEF B!Filas
    <3>2. tokens' = [tokens EXCEPT ![t] = [tokens[t] EXCEPT !.fresco = FALSE, !.hace = FALSE]]
      BY <2>2 DEF B!DejaDeEstarFresco, B!TypeOK
    <3>3. QED
      BY <1>1, <3>1, <3>2 DEF B!Filas
  <2>3. QED
    BY <2>1, <2>2
<1>3. QED
  BY <1>1, <1>2 DEF Cierre, B!TypeOK

LEMMA VenceBien ==
  ASSUME EnSuTurnoB, NEW t \in B!Tokens, B!VenceGracia(t) \/ B!DejaDeEstarFresco(t)
  PROVE  InvBodega'
<1>1. /\ B!TypeOK /\ Seguidos /\ UnDueno /\ ConSusDatosB
      /\ peticionesB[BARRENDERO].op \in {"NINGUNA", "SALIR"}
      /\ ~solapo' => /\ CerradasDelTodo /\ LeidoValeB /\ SalenSinSesion /\ BarridoAlDia
      /\ ~solapo' /\ ~desvio' => B!QuienSalioNoTraePedidos
  BY DEF EnSuTurnoB, InvBodega, Orden
<1>2. UNCHANGED <<rol, latido, asignado, peticionesB, barridoB>>
  BY DEF B!VenceGracia, B!DejaDeEstarFresco
<1>3. Cierre({}) /\ \A x \in B!Tokens : tokens'[x].fresco => tokens[x].fresco
  BY <1>1, VenceEs
<1>4. /\ B!Emitidos' = B!Emitidos /\ Seguidos' /\ UnDueno' /\ B!Emitidos \subseteq B!Tokens
      /\ \A x \in B!Emitidos : /\ x \in B!Emitidos'
                               /\ tokens'[x].quien = tokens[x].quien
  BY <1>1, <1>3, CierreBien DEF B!Emitidos
<1>5. \A x \in B!Emitidos : /\ tokens'[x].familia = tokens[x].familia
                            /\ tokens'[x].estado = tokens[x].estado
                            /\ tokens'[x].fresco => tokens[x].fresco
  BY <1>3, <1>4 DEF Cierre
<1>6. B!TypeOK'
  BY <1>1, <1>2, <1>3 DEF Cierre, B!TypeOK, B!Actores, B!Tokens, B!Filas, B!Lecturas, B!Ops
<1>7. ConSusDatosB'
  BY <1>1, <1>2, <1>4 DEF ConSusDatosB, DatosB, B!Libre
<1>8. ~solapo' => CerradasDelTodo'
  BY <1>1, <1>4, <1>5 DEF CerradasDelTodo, Cerrada
<1>9. ~solapo' => LeidoValeB'
  <2> SUFFICES ASSUME ~solapo', NEW s \in Actores PROVE ValeB(peticionesB[s])'
    BY DEF LeidoValeB
  <2>1. ValeB(peticionesB[s]) /\ DatosB(peticionesB[s]) /\ peticionesB[s].cierra \subseteq B!Tokens
    BY <1>1 DEF LeidoValeB, ConSusDatosB, B!TypeOK, Actores, B!Actores, B!Lecturas
  <2>2. \A x \in B!Tokens : tokens'[x].familia = tokens[x].familia
    BY <1>3 DEF Cierre
  <2>3. QED
    BY <1>2, <1>4, <1>5, <2>1, <2>2 DEF ValeB, DatosB, Cerrada
<1>10. ~solapo' => SalenSinSesion'
  <2> SUFFICES ASSUME ~solapo', NEW s \in Peticiones PROVE ValeSalir(peticionesB[s])'
    BY DEF SalenSinSesion
  <2>1. ValeSalir(peticionesB[s])
    BY <1>1 DEF SalenSinSesion
  <2>2. QED
    BY <1>2, <1>4, <1>5, <2>1 DEF ValeSalir, B!HaySesionViva, B!Vivos, B!De
<1>11. ~solapo' => BarridoAlDia'
  BY <1>1, <1>2 DEF BarridoAlDia
<1>12. ~solapo' /\ ~desvio' => B!QuienSalioNoTraePedidos'
  BY <1>1, <1>2 DEF B!QuienSalioNoTraePedidos, B!EnManos
<1>13. peticionesB'[BARRENDERO].op \in {"NINGUNA", "SALIR"}
  BY <1>1, <1>2
<1>14. QED
  BY <1>4, <1>6, <1>7, <1>8, <1>9, <1>10, <1>11, <1>12, <1>13 DEF InvBodega

\* A step that touches neither the tokens nor the requests under way.
LEMMA SinPeticionBien ==
  ASSUME EnSuTurnoB, UNCHANGED <<rol, tokens, peticionesB>>,
         latido' \in [Usuarios -> {"NULO", "RECIENTE", "VIEJO"}],
         asignado' \in [Pedidos -> Usuarios \cup {NADIE}],
         barridoB' \in SUBSET Usuarios,
         ~solapo' => BarridoAlDia',
         ~solapo' /\ ~desvio' => B!QuienSalioNoTraePedidos'
  PROVE  InvBodega'
<1>1. /\ B!TypeOK /\ Seguidos /\ UnDueno /\ ConSusDatosB
      /\ peticionesB[BARRENDERO].op \in {"NINGUNA", "SALIR"}
      /\ ~solapo' => CerradasDelTodo /\ LeidoValeB /\ SalenSinSesion
  BY DEF EnSuTurnoB, InvBodega, Orden
<1>2. B!Emitidos' = B!Emitidos /\ B!Tokens' = B!Tokens
  BY DEF B!Emitidos, B!Tokens
<1>3. B!TypeOK'
  BY <1>1 DEF B!TypeOK, B!Actores, B!Tokens, B!Filas, B!Lecturas, B!Ops
<1>4. Seguidos' /\ UnDueno' /\ ConSusDatosB'
  BY <1>1, <1>2 DEF Seguidos, UnDueno, ConSusDatosB, DatosB, B!Libre
<1>5. ~solapo' => CerradasDelTodo' /\ LeidoValeB'
  BY <1>1, <1>2 DEF CerradasDelTodo, LeidoValeB, ValeB, Cerrada
<1>6. ~solapo' => SalenSinSesion'
  BY <1>1, <1>2 DEF SalenSinSesion, ValeSalir, B!HaySesionViva, B!Vivos, B!De
<1>7. QED
  BY <1>1, <1>3, <1>4, <1>5, <1>6 DEF InvBodega

LEMMA SueltasBien ==
  ASSUME EnSuTurnoB,
         (\E u \in Usuarios : B!SueltaPuestos(u) \/ B!VenceLatido(u)) \/ (\E p \in Pedidos : B!Surte(p))
  PROVE  InvBodega'
<1>1. B!TypeOK /\ (~solapo' => BarridoAlDia)
  BY DEF EnSuTurnoB, InvBodega, Orden
<1>2. UNCHANGED <<rol, tokens, peticionesB, barridoB>>
  BY DEF B!SueltaPuestos, B!VenceLatido, B!Surte
<1>3. /\ latido' \in [Usuarios -> {"NULO", "RECIENTE", "VIEJO"}]
      /\ \A v \in Usuarios : latido'[v] = latido[v] \/ (latido[v] = "RECIENTE" /\ latido'[v] = "VIEJO")
  BY <1>1 DEF B!TypeOK, B!SueltaPuestos, B!VenceLatido, B!Surte
<1>4. /\ asignado' \in [Pedidos -> Usuarios \cup {NADIE}]
      /\ \A p \in Pedidos : asignado'[p] \in {asignado[p], NADIE}
  BY <1>1 DEF B!TypeOK, B!SueltaPuestos, B!VenceLatido, B!Surte, B!Devueltos
<1>5. ~solapo' => BarridoAlDia'
  <2>1. barridoB \subseteq Usuarios /\ (peticionesB[BARRENDERO].op = "SALIR" => peticionesB[BARRENDERO].quien \in Usuarios)
    BY <1>1 DEF B!TypeOK, EnSuTurnoB, InvBodega, ConSusDatosB, DatosB, Actores
  <2>2. QED
    BY <1>1, <1>2, <1>3, <2>1 DEF BarridoAlDia
<1>6. ~solapo' /\ ~desvio' => B!QuienSalioNoTraePedidos'
  BY <1>3, <1>4, QuienSalioBien
<1>7. barridoB' \in SUBSET Usuarios
  BY <1>1, <1>2 DEF B!TypeOK
<1>8. QED
  BY <1>2, <1>3, <1>4, <1>5, <1>6, <1>7, SinPeticionBien

LEMMA EmpiezaBarridoBien ==
  ASSUME EnSuTurnoB, B!EmpiezaBarrido
  PROVE  InvBodega'
<1>1. /\ UNCHANGED <<rol, tokens, latido, asignado, peticionesB>> /\ B!TypeOK
      /\ barridoB' = {u \in Usuarios : latido[u] = "VIEJO"}
      /\ peticionesB[BARRENDERO].op = "NINGUNA"
  BY DEF B!EmpiezaBarrido, B!Vencidos, B!En, EnSuTurnoB, InvBodega
<1>2. BarridoAlDia'
  BY <1>1 DEF BarridoAlDia
<1>3. ~solapo' /\ ~desvio' => B!QuienSalioNoTraePedidos'
  BY <1>1, QuienSalioBien
<1>4. QED
  BY <1>1, <1>2, <1>3, SinPeticionBien DEF B!TypeOK

LEMMA BarreBien ==
  ASSUME EnSuTurnoB, NEW u \in Usuarios, B!Barre(u)
  PROVE  InvBodega'
<1> DEFINE l == [B!Libre EXCEPT !.op = "SALIR", !.quien = u]
<1>1. l \in B!Lecturas /\ l.op = "SALIR" /\ l.quien = u
  BY CeroCabe DEF B!Lecturas, B!Libre, B!Ops
<1>2. /\ B!Sigue(BARRENDERO, l) /\ UNCHANGED <<rol, tokens, latido, asignado>>
      /\ u \in barridoB /\ barridoB' = barridoB \ {u}
      /\ BARRENDERO \in Actores
  BY DEF B!Barre, Actores
<1> HIDE DEF l
<1>3. B!TypeOK /\ (~solapo' => BarridoAlDia)
  BY DEF EnSuTurnoB, InvBodega, Orden
<1>4. DatosB(l) /\ ValeB(l)
  BY <1>1 DEF DatosB, ValeB
<1>5. peticionesB'[BARRENDERO] = l
  BY <1>1, <1>2, <1>3, SigueBienB
<1>6. ~solapo' => BarridoAlDia'
  BY <1>1, <1>2, <1>3, <1>5 DEF BarridoAlDia
<1>7. ~solapo' /\ ~desvio' => B!QuienSalioNoTraePedidos'
  BY <1>2, QuienSalioBien
<1>8. /\ latido' \in [Usuarios -> {"NULO", "RECIENTE", "VIEJO"}]
      /\ asignado' \in [Pedidos -> Usuarios \cup {NADIE}]
      /\ barridoB' \in SUBSET Usuarios
  BY <1>2, <1>3 DEF B!TypeOK
<1>9. QED
  BY <1>1, <1>2, <1>4, <1>6, <1>7, <1>8, SinTokensBien

LEMMA BodegaBien ==
  ASSUME InvBodega, Orden, Orden', B!Next /\ DeBodegaMC
  PROVE  InvBodega'
<1>1. EnSuTurnoB
  BY DEF EnSuTurnoB, DeBodegaMC
<1>2. ASSUME NEW r \in Peticiones, B!DeSesion(r) PROVE InvBodega'
  <2>1. ASSUME NEW u \in Usuarios, B!LeeEntrar(r, u) \/ B!LeeCerrar(r, u) PROVE InvBodega'
    BY <1>1, <2>1, LeeEntrarBien, LeeCerrarBien
  <2>2. ASSUME NEW t \in B!Tokens, B!LeeRenovar(r, t) PROVE InvBodega'
    BY <1>1, <2>2, LeeRenovarBien
  <2>3. CASE B!Entra(r) \/ B!Emite(r) \/ B!Rota(r)
    BY <1>1, <2>3, EntraBien, EmisionesBien
  <2>4. CASE B!Relee(r) \/ B!Cuenta(r) \/ B!MiraSesiones(r)
    BY <1>1, <2>4, MiraBien
  <2>5. CASE B!RevocaFamilia(r) \/ B!Cierra(r)
    BY <1>1, <2>5, RevocacionesBien
  <2>6. QED
    BY <1>2, <2>1, <2>2, <2>3, <2>4, <2>5 DEF B!DeSesion
<1>3. ASSUME NEW r \in Peticiones, B!DeBodega(r) PROVE InvBodega'
  <2>1. ASSUME NEW u \in Usuarios, B!LeeLatido(r, u) PROVE InvBodega'
    BY <1>1, <2>1, LeeLatidoBien
  <2>2. ASSUME NEW u \in Usuarios, NEW p \in Pedidos, B!LeeTomar(r, u, p) PROVE InvBodega'
    BY <1>1, <2>2, LeeTomarBien
  <2>3. CASE B!Revive(r) \/ B!Late(r) \/ B!Toma(r)
    BY <1>1, <2>3, MiraBien, LateBien, TomaBien
  <2>4. QED
    BY <1>3, <2>1, <2>2, <2>3 DEF B!DeBodega
<1>4. ASSUME NEW r \in Actores, B!Sale(r) PROVE InvBodega'
  BY <1>1, <1>4, SaleBien
<1>5. ASSUME NEW r \in Peticiones, B!Abandona(r) PROVE InvBodega'
  BY <1>1, <1>5, MiraBien
<1>6. CASE (\E u \in Usuarios : B!SueltaPuestos(u)) \/ (\E p \in Pedidos : B!Surte(p))
  BY <1>1, <1>6, SueltasBien
<1>7. CASE B!Trabajador
  <2>1. BARRENDERO \in Actores
    BY DEF Actores
  <2>2. ASSUME NEW u \in Usuarios, B!Barre(u) PROVE InvBodega'
    BY <1>1, <2>2, BarreBien
  <2>3. QED
    BY <1>1, <1>4, <1>7, <2>1, <2>2, EmpiezaBarridoBien DEF B!Trabajador
<1>8. CASE B!Reloj
  <2>1. ASSUME NEW t \in B!Tokens, B!VenceGracia(t) \/ B!DejaDeEstarFresco(t) PROVE InvBodega'
    BY <1>1, <2>1, VenceBien
  <2>2. CASE \E u \in Usuarios : B!VenceLatido(u)
    BY <1>1, <2>2, SueltasBien
  <2>3. QED
    BY <1>8, <2>1, <2>2 DEF B!Reloj
<1>9. QED
  BY <1>2, <1>3, <1>4, <1>5, <1>6, <1>7, <1>8 DEF B!Next, Actores

-----------------------------------------------------------------------------
(* Both.                                                                   *)

LEMMA InitBien == MCInit => IInv
<1> SUFFICES ASSUME MCInit PROVE IInv
  OBVIOUS
<1>1. Init /\ B!Init /\ solapo = FALSE /\ desvio = FALSE
  BY DEF MCInit
<1>2. /\ \A r \in Actores : peticiones[r] = Libre
      /\ \A r \in Actores : peticionesB[r] = B!Libre
      /\ barrido = {} /\ barridoB = {}
      /\ BARRENDERO \in Actores
  BY <1>1 DEF Init, B!Init, Actores, B!Actores
<1>3. Orden
  BY <1>1, <1>2 DEF Orden, UnoSolo, Actores
<1>4. InvMostradores
  <2>1. TypeOK
    BY <1>1, LibreEsLectura DEF Init, TypeOK, EstadosPedido
  <2>2. ConSusDatos /\ LeidoVale
    BY <1>2, LibreEsLectura DEF ConSusDatos, LeidoVale, Vale, Libre
  <2>3. LlamadoPresente /\ ConQuienLoRegrese
    BY <1>1 DEF Init, LlamadoPresente, ConQuienLoRegrese, Anunciado
  <2>4. QED
    BY <2>1, <2>2, <2>3 DEF InvMostradores
<1>5. InvBodega
  <2>1. B!NoEmitido \in B!Filas
    BY CeroCabe DEF B!NoEmitido, B!Filas
  <2>2. B!TypeOK
    BY <1>1, <2>1, LibreB DEF B!Init, B!TypeOK
  <2>3. \A t \in B!Tokens : tokens[t].estado = "NO_EMITIDO" /\ tokens[t].familia = 0
    BY <1>1 DEF B!Init, B!NoEmitido
  <2>4. B!Emitidos = {}
    BY <2>3 DEF B!Emitidos
  <2>5. Seguidos
    <3>1. 1..0 = {}
      OBVIOUS
    <3>2. QED
      BY <2>3, <2>4, <3>1, CeroCabe DEF Seguidos
  <2>6. UnDueno /\ CerradasDelTodo
    BY <2>4 DEF UnDueno, CerradasDelTodo
  <2>7. ConSusDatosB /\ LeidoValeB /\ SalenSinSesion
    BY <1>2, LibreVale DEF ConSusDatosB, LeidoValeB, SalenSinSesion, Actores
  <2>8. BarridoAlDia
    BY <1>2, LibreB DEF BarridoAlDia
  <2>9. B!QuienSalioNoTraePedidos
    BY <1>1, UsuariosAssumption DEF B!Init, B!QuienSalioNoTraePedidos, B!EnManos
  <2>10. QED
    BY <1>2, <2>2, <2>5, <2>6, <2>7, <2>8, <2>9, LibreB DEF InvBodega
<1>6. QED
  BY <1>3, <1>4, <1>5 DEF IInv

\* Each part takes its steps and leaves the other as it was.
LEMMA MostradoresQuietos ==
  ASSUME InvMostradores, UNCHANGED vars, solapo => solapo', desvio => desvio',
         solapo \in BOOLEAN, solapo' \in BOOLEAN, desvio' \in BOOLEAN
  PROVE  InvMostradores'
<1>1. UNCHANGED <<pedidos, cola, mostradores, activo, peticiones, barrido>>
  BY DEF vars
<1>2. TypeOK' /\ ConSusDatos'
  BY <1>1 DEF InvMostradores, TypeOK, ConSusDatos, Datos, Libre
<1>3. ~solapo' => LeidoVale' /\ LlamadoPresente'
  BY <1>1 DEF InvMostradores, LeidoVale, Vale, EnTienda, LlamadoPresente
<1>4. ~solapo' /\ ~desvio' => ConQuienLoRegrese'
  BY <1>1 DEF InvMostradores, ConQuienLoRegrese, LoRegresa, Anunciado, En
<1>5. QED
  BY <1>2, <1>3, <1>4 DEF InvMostradores

LEMMA BodegaQuieta ==
  ASSUME InvBodega, Orden, Orden', UNCHANGED varsB, solapo => solapo', desvio => desvio'
  PROVE  InvBodega'
<1>1. UNCHANGED <<rol, tokens, latido, asignado, peticionesB, barridoB>>
  BY DEF varsB
<1>2. /\ B!TypeOK /\ Seguidos /\ UnDueno /\ ConSusDatosB
      /\ peticionesB[BARRENDERO].op \in {"NINGUNA", "SALIR"}
      /\ ~solapo' => CerradasDelTodo /\ LeidoValeB /\ SalenSinSesion /\ BarridoAlDia
      /\ ~solapo' /\ ~desvio' => B!QuienSalioNoTraePedidos
  BY DEF InvBodega, Orden
<1>3. B!Emitidos' = B!Emitidos /\ B!Tokens' = B!Tokens
  BY <1>1 DEF B!Emitidos, B!Tokens
<1>4. B!TypeOK'
  BY <1>1, <1>2 DEF B!TypeOK, B!Actores, B!Tokens, B!Filas, B!Lecturas, B!Ops
<1>5. Seguidos' /\ UnDueno' /\ ConSusDatosB'
  BY <1>1, <1>2, <1>3 DEF Seguidos, UnDueno, ConSusDatosB, DatosB, B!Libre
<1>6. ~solapo' => CerradasDelTodo' /\ LeidoValeB'
  BY <1>1, <1>2, <1>3 DEF CerradasDelTodo, LeidoValeB, ValeB, Cerrada
<1>7. ~solapo' => SalenSinSesion'
  BY <1>1, <1>2, <1>3 DEF SalenSinSesion, ValeSalir, B!HaySesionViva, B!Vivos, B!De
<1>8. ~solapo' => BarridoAlDia'
  BY <1>1, <1>2 DEF BarridoAlDia
<1>9. ~solapo' /\ ~desvio' => B!QuienSalioNoTraePedidos'
  BY <1>1, <1>2 DEF B!QuienSalioNoTraePedidos, B!EnManos
<1>10. QED
  BY <1>1, <1>2, <1>4, <1>5, <1>6, <1>7, <1>8, <1>9 DEF InvBodega

LEMMA PasoBien == IInv /\ [MCNext]_varsMC => IInv'
<1> SUFFICES ASSUME IInv, MCNext \/ UNCHANGED varsMC PROVE IInv'
  OBVIOUS
<1>1. Orden /\ InvMostradores /\ InvBodega
  BY DEF IInv
<1>2. Orden'
  BY <1>1, OrdenBien
<1>3. solapo \in BOOLEAN /\ solapo' \in BOOLEAN /\ desvio' \in BOOLEAN
  BY <1>1, <1>2 DEF Orden
<1>4. CASE Next /\ DeMostradoresMC
  <2>1. InvMostradores'
    BY <1>1, <1>4, MostradoresBien
  <2>2. UNCHANGED varsB /\ (solapo => solapo') /\ (desvio => desvio')
    BY <1>4 DEF DeMostradoresMC
  <2>3. QED
    BY <1>1, <1>2, <2>1, <2>2, BodegaQuieta DEF IInv
<1>5. CASE B!Next /\ DeBodegaMC
  <2>1. InvBodega'
    BY <1>1, <1>2, <1>5, BodegaBien
  <2>2. UNCHANGED vars /\ (solapo => solapo') /\ (desvio => desvio')
    BY <1>5 DEF DeBodegaMC
  <2>3. QED
    BY <1>1, <1>2, <1>3, <2>1, <2>2, MostradoresQuietos DEF IInv
<1>6. CASE UNCHANGED varsMC
  <2>1. UNCHANGED vars /\ UNCHANGED varsB /\ (solapo => solapo') /\ (desvio => desvio')
    BY <1>6 DEF varsMC
  <2>2. QED
    BY <1>1, <1>2, <1>3, <2>1, BodegaQuieta, MostradoresQuietos DEF IInv
<1>7. QED
  BY <1>4, <1>5, <1>6 DEF MCNext

\* The invariant holds always: while nobody has overlapped, a request commits
\* on what it read.
THEOREM Invariancia == MCSpec => []IInv
  BY InitBien, PasoBien, PTL DEF MCSpec

\* The counters, the line and the requests, and the tokens, the heartbeats and
\* the orders in hand, always have their types, overlaps included.
THEOREM TipoCorrecto == MCSpec => [](TypeOK /\ B!TypeOK)
<1>1. IInv => TypeOK /\ B!TypeOK
  BY DEF IInv, InvMostradores, InvBodega
<1>2. QED
  BY <1>1, Invariancia, PTL

\* Nobody is left announced on the TV in front of a counter with nobody.
THEOREM AnunciadoAnteAlguien == MCSpec => []AnunciadoConOperadorEnOrden
<1>1. IInv => AnunciadoConOperadorEnOrden
  BY DEF IInv, InvMostradores, AnunciadoConOperadorEnOrden, AnunciadoConOperador,
         ConQuienLoRegrese, LoRegresa, En
<1>2. QED
  BY <1>1, Invariancia, PTL

\* No customer is called who is not in the store: no screen would show them.
THEOREM NadieLlamadoAusente == MCSpec => []LlamadoPresenteSiNadieCoincide
<1>1. IInv => LlamadoPresenteSiNadieCoincide
  BY DEF IInv, InvMostradores, LlamadoPresenteSiNadieCoincide
<1>2. QED
  BY <1>1, Invariancia, PTL

\* Whoever left the warehouse left their orders there.
THEOREM NadieSeLlevaPedidos == MCSpec => []QuienSalioNoTraePedidosEnOrden
<1>1. IInv => QuienSalioNoTraePedidosEnOrden
  BY DEF IInv, InvBodega, QuienSalioNoTraePedidosEnOrden
<1>2. QED
  BY <1>1, Invariancia, PTL

-----------------------------------------------------------------------------
(* What a step may never do.                                               *)

\* Only a login and a refresh write the family of a token.
LEMMA FamiliasQuietas ==
  ASSUME InvBodega, B!Next, \A r \in Peticiones : ~B!Emite(r) /\ ~B!Rota(r)
  PROVE  \A t \in B!Tokens : tokens'[t].familia = tokens[t].familia
<1>1. B!TypeOK
  BY DEF InvBodega
<1>2. CASE UNCHANGED tokens
  BY <1>2
<1>3. ASSUME NEW ts, ts \in SUBSET B!Tokens, Cierre(ts)
      PROVE  \A t \in B!Tokens : tokens'[t].familia = tokens[t].familia
  BY <1>3 DEF Cierre
<1>4. ASSUME NEW r \in Peticiones, B!RevocaFamilia(r)
      PROVE  \A t \in B!Tokens : tokens'[t].familia = tokens[t].familia
  <2>1. B!DeFamilia(tokens[peticionesB[r].tok].familia) \in SUBSET B!Tokens
    BY DEF B!DeFamilia, B!Emitidos
  <2>2. QED
    BY <1>1, <1>3, <1>4, <2>1, RevocadosCierra DEF B!RevocaFamilia
<1>5. ASSUME NEW r \in Peticiones, B!Cierra(r)
      PROVE  \A t \in B!Tokens : tokens'[t].familia = tokens[t].familia
  <2>1. peticionesB[r].cierra \in SUBSET B!Tokens
    BY <1>1 DEF B!TypeOK, B!Actores, B!Lecturas
  <2>2. QED
    BY <1>1, <1>3, <1>5, <2>1, RevocadosCierra DEF B!Cierra
<1>6. ASSUME NEW t \in B!Tokens, B!VenceGracia(t) \/ B!DejaDeEstarFresco(t)
      PROVE  \A x \in B!Tokens : tokens'[x].familia = tokens[x].familia
  BY <1>1, <1>3, <1>6, VenceEs
<1>7. \/ UNCHANGED tokens
      \/ \E r \in Peticiones : B!RevocaFamilia(r) \/ B!Cierra(r)
      \/ \E t \in B!Tokens : B!VenceGracia(t) \/ B!DejaDeEstarFresco(t)
  BY DEF B!Next, B!DeSesion, B!DeBodega, B!Sale, B!Abandona, B!SueltaPuestos, B!Surte,
         B!Trabajador, B!Reloj, B!LeeEntrar, B!LeeCerrar, B!LeeRenovar, B!Entra, B!Relee,
         B!Cuenta, B!MiraSesiones, B!LeeLatido, B!LeeTomar, B!Revive, B!Late, B!Toma,
         B!EmpiezaBarrido, B!Barre, B!VenceLatido, B!Recibe
<1>8. QED
  BY <1>2, <1>4, <1>5, <1>6, <1>7

\* No step adds a token to a session that was closed on purpose.
THEOREM NingunaSesionRevive == MCSpec => SesionCerradaNoRevive
<1> DEFINE NoRevive ==
             ~solapo' => \A t \in B!Tokens :
                (t \notin B!Emitidos /\ tokens'[t].familia \in B!Tokens \ {t})
                   => \A x \in B!DeFamilia(tokens'[t].familia) : tokens[x].estado # "CERRADO"
<1>1. IInv /\ [MCNext]_varsMC => [NoRevive]_varsMC
  <2> SUFFICES ASSUME IInv, MCNext, ~solapo', NEW t \in B!Tokens, t \notin B!Emitidos,
                      tokens'[t].familia \in B!Tokens \ {t},
                      NEW x \in B!DeFamilia(tokens'[t].familia)
               PROVE  tokens[x].estado # "CERRADO"
    OBVIOUS
  <2>1. InvBodega /\ tokens[t].familia = 0
    BY DEF IInv, InvBodega, Seguidos
  <2>2. tokens'[t].familia # tokens[t].familia
    BY <2>1 DEF B!Tokens
  <2>3. PICK r \in Peticiones : B!Emite(r) \/ B!Rota(r)
    <3>1. ~UNCHANGED tokens
      BY <2>2
    <3>2. B!Next
      BY <3>1 DEF MCNext, DeMostradoresMC, varsB
    <3>3. QED
      BY <2>1, <2>2, <3>2, FamiliasQuietas
  <2>4. EnSuTurnoB /\ ~solapo
    <3>1. DeBodegaMC
      BY <2>2 DEF MCNext, DeMostradoresMC, varsB
    <3>2. Orden /\ Orden'
      BY OrdenBien DEF IInv
    <3>3. QED
      BY <2>1, <3>1, <3>2 DEF EnSuTurnoB, DeBodegaMC, Orden
  <2>5. PICK f \in B!Tokens : Emision(peticionesB[r].quien, f) /\ (f = B!Siguiente \/ ~Cerrada(f))
    BY <2>3, <2>4, EmiteEs, RotaEs
  <2>6. t = B!Siguiente /\ tokens'[t].familia = f
    BY <2>2, <2>5 DEF Emision, B!Nuevo
  <2>7. ~Cerrada(f)
    BY <2>5, <2>6
  <2>8. QED
    BY <2>6, <2>7 DEF Cerrada, B!DeFamilia
<1>2. QED
  BY <1>1, Invariancia, PTL DEF MCSpec, SesionCerradaNoRevive

\* Nobody is taken out of the warehouse by closing one of two sessions.
THEOREM NadieSaleSiSigueEnOtra == MCSpec => NadieSaleConOtraSesion
<1> DEFINE NoSale ==
             ~solapo' => \A u \in Usuarios :
                (latido[u] # "NULO" /\ latido'[u] = "NULO" /\ B!HaySesionViva(u))
                   => latido[u] = "VIEJO"
<1>1. IInv /\ [MCNext]_varsMC => [NoSale]_varsMC
  <2> SUFFICES ASSUME IInv, MCNext, ~solapo', NEW u \in Usuarios,
                      latido[u] # "NULO", latido'[u] = "NULO", B!HaySesionViva(u)
               PROVE  latido[u] = "VIEJO"
    OBVIOUS
  <2>1. InvBodega /\ Orden /\ B!TypeOK
    BY DEF IInv, InvBodega
  <2>2. B!Next /\ DeBodegaMC
    BY DEF MCNext, DeMostradoresMC, varsB
  <2>3. ~solapo
    BY <2>1, <2>2 DEF DeBodegaMC, Orden
  <2>4. PICK r \in Actores : B!Sale(r)
    BY <2>1, <2>2
       DEF B!TypeOK, B!Next, B!DeSesion, B!DeBodega, B!Abandona, B!SueltaPuestos, B!Surte,
           B!Trabajador, B!Reloj, B!LeeEntrar, B!LeeCerrar, B!LeeRenovar, B!Entra, B!Emite, B!Rota,
           B!Relee, B!Cuenta, B!RevocaFamilia, B!Cierra, B!MiraSesiones, B!LeeLatido, B!LeeTomar,
           B!Revive, B!Late, B!Toma, B!EmpiezaBarrido, B!Barre, B!VenceLatido, B!VenceGracia,
           B!DejaDeEstarFresco, B!Recibe, Actores
  <2>5. u = peticionesB[r].quien /\ peticionesB[r].op = "SALIR"
    BY <2>1, <2>4 DEF B!Sale, B!En, B!TypeOK
  <2>6. SalenSinSesion /\ BarridoAlDia
    BY <2>1, <2>3 DEF InvBodega
  <2>7. QED
    BY <2>5, <2>6 DEF SalenSinSesion, ValeSalir, BarridoAlDia, Actores
<1>2. QED
  BY <1>1, Invariancia, PTL DEF MCSpec, NadieSaleConOtraSesion
=============================================================================
