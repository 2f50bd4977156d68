------------------------------ MODULE Accounts ------------------------------
(***************************************************************************)
(* The users table, UserService (backend/app/services/user_service.py) and *)
(* the bearer tokens of backend/app/security/jwt.py: registration, login   *)
(* and the dependencies that find the caller and check the role.           *)
(*                                                                         *)
(* A password stands for its hash and a token for the claims signed in it: *)
(* bcrypt and the signature are taken to work.  No endpoint changes or     *)
(* deletes a user, and none clears is_active: a row stays as it was        *)
(* inserted.                                                               *)
(***************************************************************************)
CONSTANTS Email, Password,
          Token,          \* the tokens: one per login, and one of an earlier session
          None,           \* Python's None: no row, no token
          Admin,          \* the email of the administrator that seed_db.py made
          AdminPassword,
          EarlierToken    \* the token of an earlier session of the administrator

Roles == {"admin", "researcher", "farmer", "security_analyst"}
User == [password : Password, role : Roles]

ASSUME AccountsAssumption ==
    /\ Admin \in Email /\ AdminPassword \in Password /\ EarlierToken \in Token
    /\ None \notin User \union Roles \union Email \union Token

VARIABLES users,   \* per email, its row or None: the column is unique
          sub,     \* per token, the email of the user it was issued to, or None
          expired  \* the tokens whose exp has passed

accounts == <<users, sub, expired>>

AccountsInit ==
    /\ users = [e \in Email |->
                  IF e = Admin THEN [password |-> AdminPassword, role |-> "admin"] ELSE None]
    /\ sub = [k \in Token |-> IF k = EarlierToken THEN Admin ELSE None]
    /\ expired = {}

AccountsTypeOK ==
    /\ users \in [Email -> User \union {None}]
    /\ sub \in [Token -> Email \union {None}]
    /\ expired \subseteq Token

\* get_by_email
Exists(e) == users[e] # None

\* The guard of login_access_token.
Authenticates(e, p) == Exists(e) /\ users[e].password = p

\* get_current_user and the role it finds; None is the 401.
RoleOf(k) ==
    IF k = None \/ k \in expired \/ sub[k] = None THEN None ELSE users[sub[k]].role

Issue(k, e) == sub' = [sub EXCEPT ![k] = e] /\ UNCHANGED <<users, expired>>

\* Fault: the row of an email that has one is replaced.
Upsert(e, p) ==
    /\ users' = [users EXCEPT ![e] = [password |-> p, role |-> "farmer"]]
    /\ UNCHANGED <<sub, expired>>

\* The INSERT of UserService.create, which the unique email refuses when the
\* email got a row after it was looked up.  The page sends no role.
InsertUser(e, p) ==
    /\ ~Exists(e)
    /\ users' = [users EXCEPT ![e] = [password |-> p, role |-> "farmer"]]
    /\ UNCHANGED <<sub, expired>>

\* jwt_access_token_expire_minutes after it was issued.
ExpireToken(k) ==
    /\ sub[k] # None /\ k \notin expired
    /\ expired' = expired \union {k}
    /\ UNCHANGED <<users, sub>>
=============================================================================
