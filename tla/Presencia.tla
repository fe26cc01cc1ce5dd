------------------------------ MODULE Presencia ------------------------------
(***************************************************************************)
(* Sessions and the presence of the warehouse.  A session is a family of   *)
(* refresh tokens, one of them alive at a time but for the grace of a      *)
(* lost race; a user is online while their heartbeat is recent.  Whoever   *)
(* closes their last session, or stops giving heartbeats, leaves the TV    *)
(* and gives back the orders they were picking.                            *)
(*                                                                         *)
(* A request reads in one step and writes in a later one.  Passwords, the  *)
(* lock after failed attempts and the access tokens are left out: a        *)
(* request counts as authenticated while its session was issued recently.  *)
(***************************************************************************)
EXTENDS Naturals, FiniteSets

CONSTANTS
    Usuarios,       \* who can pick orders: roles BODEGA and ADMIN
    Pedidos,        \* orders in EN_REVISION, which take a slot of their picker
    Peticiones,     \* requests that can be in flight at once
    MAX_TOKENS,     \* bound: refresh tokens ever issued
    NADIE,
    BARRENDERO

Tokens  == 1..MAX_TOKENS
Actores == Peticiones \cup {BARRENDERO}

VARIABLES
    rol,            \* Usuario.rol, which never changes here
    tokens,         \* the rows of RefreshToken
    latido,         \* Usuario.ultimoHeartbeat
    asignado,       \* Pedido.asignadoAId
    peticiones,     \* what each request in flight read, or Libre
    barrido         \* the users that the sweep still has to take out

vars == <<rol, tokens, latido, asignado, peticiones, barrido>>

-----------------------------------------------------------------------------
\* ROTADO: revoked, with replacedBy.  CERRADO: revoked without it.  hace: it
\* was rotated less than GRACIA_REFRESH_MS ago.  fresco: it was issued less
\* than SESION_VIVA_MS ago.  familia: the first token of the family.
Filas ==
    [quien : Usuarios \cup {NADIE}, familia : 0..MAX_TOKENS,
     estado : {"NO_EMITIDO", "VIVO", "ROTADO", "CERRADO"},
     hace : BOOLEAN, fresco : BOOLEAN]

NoEmitido == [quien |-> NADIE, familia |-> 0, estado |-> "NO_EMITIDO",
              hace |-> FALSE, fresco |-> FALSE]

Ops == {"NINGUNA", "ENTRAR", "EMITIR", "RENOVAR", "CONTAR", "REVOCAR", "CERRAR",
        "SALDRA", "SALIR", "LATIR", "REVIVIR", "TOMAR"}

\* tok: the token presented.  cierra: the tokens that a closing request found
\* alive.  sale: whether it is a logout, which also leaves the warehouse.
Lecturas ==
    [op : Ops, quien : Usuarios \cup {NADIE}, tok : 0..MAX_TOKENS, ped : Pedidos \cup {NADIE},
     cierra : SUBSET Tokens, sale : BOOLEAN]

Libre == [op |-> "NINGUNA", quien |-> NADIE, tok |-> 0, ped |-> NADIE, cierra |-> {}, sale |-> FALSE]

TypeOK ==
    /\ rol \in [Usuarios -> {"BODEGA", "ADMIN"}]
    /\ tokens \in [Tokens -> Filas]
    /\ latido \in [Usuarios -> {"NULO", "RECIENTE", "VIEJO"}]
    /\ asignado \in [Pedidos -> Usuarios \cup {NADIE}]
    /\ peticiones \in [Actores -> Lecturas]
    /\ barrido \in SUBSET Usuarios

Init ==
    /\ rol \in [Usuarios -> {"BODEGA", "ADMIN"}]
    /\ tokens = [t \in Tokens |-> NoEmitido]
    /\ latido = [u \in Usuarios |-> "NULO"]
    /\ asignado = [p \in Pedidos |-> NADIE]
    /\ peticiones = [r \in Actores |-> Libre]
    /\ barrido = {}

-----------------------------------------------------------------------------
Emitidos   == {t \in Tokens : tokens[t].estado # "NO_EMITIDO"}
De(u)      == {t \in Emitidos : tokens[t].quien = u}
DeFamilia(f) == {t \in Emitidos : tokens[t].familia = f}
Vivos(ts)  == {t \in ts : tokens[t].estado = "VIVO"}
Siguiente  == Cardinality(Emitidos) + 1

\* haySesionViva: not revoked and issued recently.
HaySesionViva(u) == \E t \in Vivos(De(u)) : tokens[t].fresco

\* The access token that came with a refresh token outlives its revocation.
Autenticado(u) == \E t \in De(u) : tokens[t].fresco

EnManos(u) == {p \in Pedidos : asignado[p] = u}

Nuevo(u, f) ==
    [quien |-> u, familia |-> f, estado |-> "VIVO", hace |-> FALSE, fresco |-> TRUE]

\* generateTokens.
Con(filas, u, f) == [filas EXCEPT ![Siguiente] = Nuevo(u, f)]

Revocados(ts, estado) ==
    [t \in Tokens |->
        IF t \in Vivos(ts)
        THEN [tokens[t] EXCEPT !.estado = estado, !.hace = (estado = "ROTADO")]
        ELSE tokens[t]]

-----------------------------------------------------------------------------
(* Requests.                                                               *)

En(r, op)   == peticiones[r].op = op
Sigue(r, l) == peticiones' = [peticiones EXCEPT ![r] = l]
Pasa(r, op) == Sigue(r, [peticiones[r] EXCEPT !.op = op])
Termina(r)  == Sigue(r, Libre)

Recibe(r, op, l) ==
    /\ En(r, "NINGUNA")
    /\ Sigue(r, [l EXCEPT !.op = op])
    /\ UNCHANGED <<rol, tokens, latido, asignado, barrido>>

\* A failure, a lost race or the death of the process.
Abandona(r) ==
    /\ peticiones[r] # Libre
    /\ Termina(r)
    /\ UNCHANGED <<rol, tokens, latido, asignado, barrido>>

-----------------------------------------------------------------------------
(* login and loginByKioskToken.                                            *)

LeeEntrar(r, u) ==
    /\ Siguiente \in Tokens
    /\ Recibe(r, "ENTRAR", [Libre EXCEPT !.quien = u])

\* marcarEntrada: a user of the warehouse is online before they have a session.
Entra(r) ==
    LET u == peticiones[r].quien
    IN  /\ En(r, "ENTRAR")
        /\ latido' = IF rol[u] = "BODEGA" THEN [latido EXCEPT ![u] = "RECIENTE"] ELSE latido
        /\ Pasa(r, "EMITIR")
        /\ UNCHANGED <<rol, tokens, asignado, barrido>>

\* The session of a login is a family of its own; the grace of a refresh adds
\* to the family of the token presented.
Emite(r) ==
    LET l == peticiones[r]
    IN  /\ En(r, "EMITIR")
        /\ Siguiente \in Tokens
        /\ tokens' = Con(tokens, l.quien, IF l.tok = 0 THEN Siguiente ELSE tokens[l.tok].familia)
        /\ Termina(r)
        /\ UNCHANGED <<rol, latido, asignado, barrido>>

-----------------------------------------------------------------------------
(* refreshToken.                                                           *)

LeeRenovar(r, t) ==
    /\ t \in Emitidos
    /\ Siguiente \in Tokens
    /\ Recibe(r, "RENOVAR", [Libre EXCEPT !.quien = tokens[t].quien, !.tok = t])

\* One transaction claims the token and issues its successor.
Rota(r) ==
    LET l == peticiones[r]
    IN  /\ En(r, "RENOVAR")
        /\ Vivos({l.tok}) # {}
        /\ Siguiente \in Tokens
        /\ tokens' = Con(Revocados({l.tok}, "ROTADO"), l.quien, tokens[l.tok].familia)
        /\ Termina(r)
        /\ UNCHANGED <<rol, latido, asignado, barrido>>

\* The race was lost, or the token was revoked already: it is read again.
Relee(r) ==
    LET t == peticiones[r].tok
    IN  /\ En(r, "RENOVAR")
        /\ Vivos({t}) = {}
        /\ Pasa(r, IF tokens[t].estado = "ROTADO" /\ tokens[t].hace THEN "CONTAR" ELSE "REVOCAR")
        /\ UNCHANGED <<rol, tokens, latido, asignado, barrido>>

CerradaNunca(f) == FALSE

\* A token revoked without a successor: the family was closed on purpose.
CerradaAProposito(f) == \E t \in DeFamilia(f) : tokens[t].estado = "CERRADO"

\* The grace of a race, but never in a family that was closed.
Cuenta(r) ==
    /\ En(r, "CONTAR")
    /\ Pasa(r, IF CerradaAProposito(tokens[peticiones[r].tok].familia) THEN "REVOCAR" ELSE "EMITIR")
    /\ UNCHANGED <<rol, tokens, latido, asignado, barrido>>

\* revocarFamilia.
RevocaFamilia(r) ==
    /\ En(r, "REVOCAR")
    /\ tokens' = Revocados(DeFamilia(tokens[peticiones[r].tok].familia), "CERRADO")
    /\ Termina(r)
    /\ UNCHANGED <<rol, latido, asignado, barrido>>

-----------------------------------------------------------------------------
(* logout, changePassword and resetearPassword.                            *)

\* logout: the session of this device, or all of them without a token of
\* theirs.  changePassword: the other sessions, or all.  resetearPassword: all.
Sesion(u) == {DeFamilia(tokens[t].familia) : t \in De(u)}
Cierres(u) ==
    [ts : Sesion(u) \cup {De(u)}, sale : {TRUE}]
    \cup [ts : {De(u) \ f : f \in Sesion(u)} \cup {De(u)}, sale : {FALSE}]

LeeCerrar(r, u) ==
    \E c \in Cierres(u) :
        /\ Autenticado(u) \/ (c.ts = De(u) /\ ~c.sale)
        /\ Recibe(r, "CERRAR", [Libre EXCEPT !.quien = u, !.cierra = Vivos(c.ts), !.sale = c.sale])

\* The update revokes the rows it found alive, if they still are; a logout
\* goes on to leave the warehouse.
Cierra(r) ==
    /\ En(r, "CERRAR")
    /\ tokens' = Revocados(peticiones[r].cierra, "CERRADO")
    /\ IF peticiones[r].sale THEN Pasa(r, "SALDRA") ELSE Termina(r)
    /\ UNCHANGED <<rol, latido, asignado, barrido>>

NoMiraSesiones(r) ==
    /\ En(r, "SALDRA")
    /\ Pasa(r, "SALIR")
    /\ UNCHANGED <<rol, tokens, latido, asignado, barrido>>

\* Only when no other session of the user is alive.
MiraSesiones(r) ==
    /\ En(r, "SALDRA")
    /\ IF HaySesionViva(peticiones[r].quien) THEN Termina(r) ELSE Pasa(r, "SALIR")
    /\ UNCHANGED <<rol, tokens, latido, asignado, barrido>>

SinDevolver(u) == asignado

Devueltos(u) == [p \in Pedidos |-> IF p \in EnManos(u) THEN NADIE ELSE asignado[p]]

\* salio: one transaction.
Sale(r) ==
    LET u == peticiones[r].quien
    IN  /\ En(r, "SALIR")
        /\ latido' = [latido EXCEPT ![u] = "NULO"]
        /\ asignado' = Devueltos(u)
        /\ Termina(r)
        /\ UNCHANGED <<rol, tokens, barrido>>

\* soltar, of an ADMIN who goes to another store: salio with soloPedidos.
SueltaPuestos(u) ==
    /\ rol[u] = "ADMIN"
    /\ Autenticado(u)
    /\ EnManos(u) # {}
    /\ asignado' = Devueltos(u)
    /\ UNCHANGED <<rol, tokens, latido, peticiones, barrido>>

-----------------------------------------------------------------------------
(* heartbeat: an ADMIN only writes it; a user of the warehouse who was not *)
(* online needs a live session to come back.                               *)

LeeLatido(r, u) ==
    /\ Autenticado(u)
    /\ Recibe(r, IF rol[u] = "ADMIN" \/ latido[u] = "RECIENTE" THEN "LATIR" ELSE "REVIVIR",
              [Libre EXCEPT !.quien = u])

Revive(r) ==
    /\ En(r, "REVIVIR")
    /\ IF HaySesionViva(peticiones[r].quien) THEN Pasa(r, "LATIR") ELSE Termina(r)
    /\ UNCHANGED <<rol, tokens, latido, asignado, barrido>>

Late(r) ==
    /\ En(r, "LATIR")
    /\ latido' = [latido EXCEPT ![peticiones[r].quien] = "RECIENTE"]
    /\ Termina(r)
    /\ UNCHANGED <<rol, tokens, asignado, barrido>>

-----------------------------------------------------------------------------
(* An order is taken; who takes it need not be online.                     *)

LeeTomar(r, u, p) ==
    /\ Autenticado(u)
    /\ asignado[p] = NADIE
    /\ Recibe(r, "TOMAR", [Libre EXCEPT !.quien = u, !.ped = p])

Toma(r) ==
    LET l == peticiones[r]
    IN  /\ En(r, "TOMAR")
        /\ asignado[l.ped] = NADIE
        /\ asignado' = [asignado EXCEPT ![l.ped] = l.quien]
        /\ Termina(r)
        /\ UNCHANGED <<rol, tokens, latido, barrido>>

\* The picker finishes with it, or gives it back.
Surte(p) ==
    /\ asignado[p] # NADIE
    /\ asignado' = [asignado EXCEPT ![p] = NADIE]
    /\ UNCHANGED <<rol, tokens, latido, peticiones, barrido>>

-----------------------------------------------------------------------------
(* Time, and the worker.                                                   *)

VenceGracia(t) ==
    /\ tokens[t].hace
    /\ tokens' = [tokens EXCEPT ![t].hace = FALSE]
    /\ UNCHANGED <<rol, latido, asignado, peticiones, barrido>>

\* The heartbeats of a device stop well before its session is no longer fresh.
DejaDeEstarFresco(t) ==
    /\ tokens[t].fresco
    /\ tokens' = [tokens EXCEPT ![t].fresco = FALSE, ![t].hace = FALSE]
    /\ UNCHANGED <<rol, latido, asignado, peticiones, barrido>>

VenceLatido(u) ==
    /\ latido[u] = "RECIENTE"
    /\ latido' = [latido EXCEPT ![u] = "VIEJO"]
    /\ UNCHANGED <<rol, tokens, asignado, peticiones, barrido>>

VencidosDeBodega == {u \in Usuarios : latido[u] = "VIEJO" /\ rol[u] = "BODEGA"}

\* salirInactivos: a heartbeat before the limit; null is not before anything.
Vencidos == {u \in Usuarios : latido[u] = "VIEJO"}

EmpiezaBarrido ==
    /\ barrido = {}
    /\ En(BARRENDERO, "NINGUNA")
    /\ Vencidos # {}
    /\ barrido' = Vencidos
    /\ UNCHANGED <<rol, tokens, latido, asignado, peticiones>>

Barre(u) ==
    /\ u \in barrido
    /\ En(BARRENDERO, "NINGUNA")
    /\ barrido' = barrido \ {u}
    /\ Sigue(BARRENDERO, [Libre EXCEPT !.op = "SALIR", !.quien = u])
    /\ UNCHANGED <<rol, tokens, latido, asignado>>

-----------------------------------------------------------------------------
DeSesion(r) ==
    \/ \E u \in Usuarios : LeeEntrar(r, u) \/ LeeCerrar(r, u)
    \/ \E t \in Tokens : LeeRenovar(r, t)
    \/ Entra(r) \/ Emite(r) \/ Rota(r) \/ Relee(r) \/ Cuenta(r) \/ RevocaFamilia(r)
    \/ Cierra(r) \/ MiraSesiones(r)

DeBodega(r) ==
    \/ \E u \in Usuarios : LeeLatido(r, u)
    \/ \E u \in Usuarios, p \in Pedidos : LeeTomar(r, u, p)
    \/ Revive(r) \/ Late(r) \/ Toma(r)

Trabajador == EmpiezaBarrido \/ (\E u \in Usuarios : Barre(u)) \/ Sale(BARRENDERO)

Reloj == \/ \E t \in Tokens : VenceGracia(t) \/ DejaDeEstarFresco(t)
         \/ \E u \in Usuarios : VenceLatido(u)

Next ==
    \/ \E r \in Peticiones : DeSesion(r) \/ DeBodega(r) \/ Sale(r) \/ Abandona(r)
    \/ \E u \in Usuarios : SueltaPuestos(u)
    \/ \E p \in Pedidos : Surte(p)
    \/ Trabajador
    \/ Reloj

\* Time passes and the worker runs; nobody else has to act.
Equidad ==
    /\ WF_vars(Trabajador)
    /\ \A t \in Tokens : WF_vars(DejaDeEstarFresco(t))
    /\ \A u \in Usuarios : WF_vars(VenceLatido(u))

Spec == Init /\ [][Next]_vars /\ Equidad

-----------------------------------------------------------------------------
(* Properties.                                                             *)

\* A session that was closed is not opened again ("la familia no se reabre"):
\* no token is issued in a family that was closed on purpose.
SesionCerradaNoRevive ==
    [][\A t \in Tokens :
         (t \notin Emitidos /\ tokens'[t].familia \in Tokens \ {t})
            => \A x \in DeFamilia(tokens'[t].familia) : tokens[x].estado # "CERRADO"]_vars

\* Closing one device does not take the orders from whoever goes on in another
\* ("un bodeguero que surte en la tablet B y cierra el teléfono A no se fue").
NadieSaleConOtraSesion ==
    [][\A u \in Usuarios :
         (latido[u] # "NULO" /\ latido'[u] = "NULO" /\ HaySesionViva(u)) => latido[u] = "VIEJO"]_vars

Entrando(u) == \E r \in Peticiones : peticiones[r].quien = u /\ peticiones[r].op \in {"ENTRAR", "EMITIR"}

\* Whoever has no live session any more leaves the TV in the end, and their
\* orders with them.
QuienSeFueSale ==
    \A u \in Usuarios :
        (latido[u] # "NULO" /\ ~HaySesionViva(u))
            ~> (HaySesionViva(u) \/ Entrando(u) \/ (latido[u] = "NULO" /\ EnManos(u) = {}))

\* "Sin esto sus pedidos quedaban asignados a alguien que ya no está": whoever
\* is out of the warehouse has nothing in their hands.
QuienSalioNoTraePedidos ==
    \A u \in Usuarios : latido[u] = "NULO" => EnManos(u) = {}

=============================================================================
