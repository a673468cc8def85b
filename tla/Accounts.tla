------------------------------- MODULE Accounts ------------------------------
(***************************************************************************)
(* The accounts of the dashboard: the table of users behind                 *)
(* internal/database, the handlers of /api with their middleware, and the   *)
(* server that is started again on the same file. A statement is one step;  *)
(* what a handler has read or been told before may be out of date by then.  *)
(*                                                                          *)
(* SQLite makes the id of a row, 32 digits without hyphens; models.User     *)
(* keeps it as a uuid.UUID, which writes itself with hyphens. The ids of    *)
(* this model are numbers in one of these two spellings, and the column     *)
(* only equals an argument of its own spelling.                             *)
(***************************************************************************)
EXTENDS Naturals, FiniteSets

CONSTANTS
    Names,     \* user names; a name has its e-mail address with it
    MaxIds,    \* bound: how many rows are made
    MaxHeld    \* bound: how many logins and requests, or tokens, there are at a time

ASSUME AccountsAssumption == MaxIds \in Nat /\ MaxHeld \in Nat /\ "admin" \in Names

VARIABLES
    up,        \* the server runs
    made,      \* the rows made so far
    users,     \* the table
    logins,    \* the rows that handlers of /auth/login have read
    tokens,    \* the claims of the tokens that have not expired
    requests   \* admin requests past AuthMiddleware and AdminMiddleware

vars == <<up, made, users, logins, tokens, requests>>

Ids == 1..MaxIds
Key(id, as) == [id |-> id, as |-> as]
Roles == {"user", "admin"}
Row(id, name, role) == [id |-> id, name |-> name, role |-> role]
Rows == [id : Ids, name : Names, role : Roles]
DeleteOps == [key : [id : Ids, as : {"stored", "shown"}]]
CreateOps == [name : Names, role : Roles]

Init ==
    /\ up = FALSE /\ made = 0 /\ users = {}
    /\ logins = {} /\ tokens = {} /\ requests = {}

-----------------------------------------------------------------------------
(* The table.                                                              *)

\* Mutant: an id that is free is given again, as INTEGER PRIMARY KEY does.
CreateUserRowReused(name, role) ==
    \E id \in Ids :
        /\ \A u \in users : u.name # name /\ u.id # id
        /\ made' = IF id > made THEN id ELSE made
        /\ users' = users \cup {Row(id, name, role)}

\* username and email are UNIQUE; the column id has a default of its own, and
\* RETURNING puts it where uuid.New() was.
CreateUserRow(name, role) ==
    /\ \A u \in users : u.name # name
    /\ made < MaxIds
    /\ made' = made + 1
    /\ users' = users \cup {Row(made + 1, name, role)}

\* The rows that WHERE id = key finds.
Found(key) == {u \in users : key = Key(u.id, "stored")}

-----------------------------------------------------------------------------
(* The server.                                                             *)

\* An empty table of users gets the default admin.
StartEmpty ==
    /\ ~up /\ users = {}
    /\ up' = TRUE
    /\ CreateUserRow("admin", "admin")
    /\ UNCHANGED <<logins, tokens, requests>>

Start ==
    /\ ~up /\ users # {}
    /\ up' = TRUE
    /\ UNCHANGED <<made, users, logins, tokens, requests>>

\* The file stays, and so do the tokens: the secret is configured.
Stop ==
    /\ up
    /\ up' = FALSE
    /\ logins' = {} /\ requests' = {}
    /\ UNCHANGED <<made, users, tokens>>

-----------------------------------------------------------------------------
(* The handlers.                                                           *)

RoomToHold == Cardinality(logins) + Cardinality(requests) < MaxHeld

\* The row has been read and the right password given; comparing takes its time.
Login(u) ==
    /\ up /\ RoomToHold
    /\ logins' = logins \cup {u}
    /\ UNCHANGED <<up, made, users, tokens, requests>>

GenerateToken(u) ==
    /\ up /\ Cardinality(tokens \cup {u}) <= MaxHeld
    /\ logins' = logins \ {u}
    /\ tokens' = tokens \cup {u}
    /\ UNCHANGED <<up, made, users, requests>>

TokenExpires(claims) ==
    /\ tokens' = tokens \ {claims}
    /\ UNCHANGED <<up, made, users, logins, requests>>

\* Mutant: registering takes the role from the request, as CreateUserByAdmin does.
RegisterAnyRole(name) ==
    /\ up
    /\ \E role \in Roles : CreateUserRow(name, role)
    /\ UNCHANGED <<up, logins, tokens, requests>>

Register(name) ==
    /\ up
    /\ CreateUserRow(name, "user")
    /\ UNCHANGED <<up, logins, tokens, requests>>

\* AuthMiddleware trusts the claims and AdminMiddleware their role.
Admit(claims, op) ==
    /\ up /\ RoomToHold
    /\ claims.role = "admin"
    /\ requests' = requests \cup {[by |-> claims, op |-> op]}
    /\ UNCHANGED <<up, made, users, logins, tokens>>

AdmitDelete(claims) == \E op \in DeleteOps : op.key.id <= made /\ Admit(claims, op)
AdmitCreate(claims) == \E op \in CreateOps : Admit(claims, op)

Leave(r) == requests' = requests \ {r} /\ UNCHANGED <<up, logins, tokens>>

CreateUserByAdmin(r) ==
    /\ r.op \in CreateOps
    /\ CreateUserRow(r.op.name, r.op.role)
    /\ Leave(r)

\* A name that is taken.
CreateUserFails(r) ==
    /\ r.op \in CreateOps
    /\ \E u \in users : u.name = r.op.name
    /\ Leave(r)
    /\ UNCHANGED <<made, users>>

\* The claims hold the id with hyphens; only that spelling is known as one's own.
IsOneself(r) == r.op.key = Key(r.by.id, "shown")

DeleteUser(r) ==
    /\ r.op \in DeleteOps /\ ~IsOneself(r)
    /\ Found(r.op.key) # {}
    /\ users' = users \ Found(r.op.key)
    /\ Leave(r)
    /\ UNCHANGED made

DeleteUserFails(r) ==
    /\ r.op \in DeleteOps
    /\ IsOneself(r) \/ Found(r.op.key) = {}
    /\ Leave(r)
    /\ UNCHANGED <<made, users>>

-----------------------------------------------------------------------------

Next ==
    \/ StartEmpty \/ Start \/ Stop
    \/ \E u \in users : Login(u)
    \/ \E u \in logins : GenerateToken(u)
    \/ \E name \in Names : Register(name)
    \/ \E claims \in tokens :
        TokenExpires(claims) \/ AdmitDelete(claims) \/ AdmitCreate(claims)
    \/ \E r \in requests :
        CreateUserByAdmin(r) \/ CreateUserFails(r) \/ DeleteUser(r) \/ DeleteUserFails(r)

Spec == Init /\ [][Next]_vars

-----------------------------------------------------------------------------

\* Every variable has its type.
TypeOK ==
    /\ up \in BOOLEAN
    /\ made \in 0..MaxIds
    /\ users \subseteq Rows
    /\ logins \subseteq Rows /\ tokens \subseteq Rows
    /\ requests \subseteq [by : Rows, op : DeleteOps \cup CreateOps]

Claims == logins \cup tokens \cup {r.by : r \in requests}

\* What a handler or a token says of its user is what the table says, or the
\* user's row is gone: no claims point to the row of somebody else, however long
\* ago they were read and whoever has taken the name since.
ClaimsMatchRow ==
    \A claims \in Claims, u \in users : claims.id = u.id => claims = u

\* An admin is made by the start on an empty table or by the request of somebody
\* whose claims say admin; registering, logging in and restarting make none.
AdminsComeFromAdmins ==
    [][\A u \in users' \ users : u.role = "admin" =>
          \/ ~up /\ users = {}
          \/ \E r \in requests \ requests' :
                r.by.role = "admin" /\ r.op = [name |-> u.name, role |-> "admin"]]_vars

\* A request to delete a user by the id that the interface lists, made by another
\* admin, deletes that user.
ListedUserIsDeleted ==
    [][\A r \in requests \ requests' :
          up' /\ r.op \in DeleteOps /\ r.op.key.as = "shown" /\ ~IsOneself(r) =>
              \A u \in users' : u.id # r.op.key.id]_vars

=============================================================================
