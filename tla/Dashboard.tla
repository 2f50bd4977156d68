----------------------------- MODULE Dashboard ------------------------------
(***************************************************************************)
(* The pages of frontend/src/components/Dashboard.jsx, open in several     *)
(* browser tabs that share one localStorage, and the requests they send to *)
(* the API through frontend/src/services/api.js.                           *)
(*                                                                         *)
(* A handler runs up to its await in one action and from its answer to its *)
(* end in another; answers come in any order, or are lost.  The server     *)
(* answers a request in one action, a registration in two.  The two calls  *)
(* of a Promise.all are one request, which fails when either does.  What   *)
(* the panels show is known by the request that brought it, and the data   *)
(* of the server by a version that every simulation moves on.              *)
(***************************************************************************)
EXTENDS Naturals, FiniteSets, Accounts

CONSTANTS Tab,          \* the browser tabs
          Panel,        \* the panels that are visited, out of Panels
          Form,         \* what is typed into the forms, pairs of Email and Password
          MaxRequests,  \* bound on the requests of a behaviour
          MaxForms,     \* bound on the logins and registrations among them
          Failing       \* the requests that may fail or be lost

Panels == {"overview", "devices", "audit", "blockchain", "ml_analytics"}
Simulations == {"data_tampering", "ml_anomaly"}
Forms == {"login", "register"}
Slot == 1..MaxRequests

\* reloads is the simulation whose result a load was sent for.
Request ==
    [tab : Tab \union {None}, kind : Panel \union Simulations \union Forms,
     form : Form \union {None}, token : Token \union {None},
     reloads : Slot \union {None}, at : {"sent", "checked", "answered", "received"},
     reply : {"ok", "401", "403", "error", "none"}, version : Nat]

ASSUME DashboardAssumption ==
    /\ "overview" \in Panel /\ Panel \subseteq Panels
    /\ Form \subseteq [email : Email, password : Password]
    /\ {MaxRequests, MaxForms} \subseteq Nat
    /\ Slot \subseteq Token /\ Failing \subseteq Slot
    /\ EarlierToken \notin Slot /\ None \notin Tab /\ None \notin Form
    /\ None \notin Slot /\ None \notin Simulations /\ None \notin Request

VARIABLES req,     \* the requests, numbered in the order they were sent
          page,    \* per tab, the state of its component
          stored,  \* localStorage's token
          version  \* how often a simulation has changed what the panels show

vars == <<accounts, req, page, stored, version>>

Page ==
    [authed : BOOLEAN, panel : Panel, type : Simulations \union {None},
     running : SUBSET Simulations, result : Slot \union {None},
     analytics : BOOLEAN, shown : [Panel -> Slot \union {None}]]

Sent == {r \in Slot : req[r] # None}
Awaited(t) == {r \in Sent : req[r].tab = t /\ req[r].at # "received"}
-----------------------------------------------------------------------------
(***************************************************************************)
(* Sending.  The numbers are handed out in order, and a tab sends only     *)
(* when enough of them are left for what the answers will make it send.    *)
(***************************************************************************)
NextSlot == Cardinality(Sent) + 1
Owed == {r \in Sent : /\ req[r].tab # None /\ req[r].at # "received"
                      /\ req[r].kind \in Simulations \union {"login"}}
Room(n) == Cardinality(Sent) + Cardinality(Owed) + n <= MaxRequests

\* The interceptor of api.js takes the token when the request is sent.
NewRequest(t, kind, form, token, sim) ==
    [tab |-> t, kind |-> kind, form |-> form, token |-> token, reloads |-> sim,
     at |-> "sent", reply |-> "none", version |-> 0]

Settled ==
    [tab |-> None, kind |-> "overview", form |-> None, token |-> None, reloads |-> None,
     at |-> "received", reply |-> "error", version |-> 0]

Blank(authed) ==
    [authed |-> authed, panel |-> "overview", type |-> None, running |-> {},
     result |-> None, analytics |-> FALSE, shown |-> [q \in Panel |-> None]]

\* What loadData does to the page before its await.
Loading(p) == [p EXCEPT !.analytics = @ \/ p.panel = "ml_analytics"]

Init ==
    /\ AccountsInit
    /\ req = [r \in Slot |-> None]
    /\ stored \in {None, EarlierToken}
    /\ page \in [Tab -> {Blank(FALSE), Blank(stored # None)}]
    /\ version = 0

\* What a page that goes away leaves behind: simulations and registrations the
\* server has yet to see, and the accounts made.  Nothing else reaches anyone.
Outlives(r) ==
    \/ req[r].kind = "register"
    \/ req[r].kind \in Simulations /\ req[r].at = "sent"

\* Opening or reloading the page in t: its old page waits for no answer.
OpenPage(t) ==
    LET left == [r \in Slot |->
                   IF req[r] = None \/ req[r].tab # t THEN req[r]
                   ELSE IF Outlives(r) THEN [req[r] EXCEPT !.tab = None] ELSE Settled]
    IN  /\ page' = [page EXCEPT ![t] = Blank(stored # None)]
        /\ IF stored = None
           THEN req' = left
           ELSE /\ Room(1)
                /\ req' = [left EXCEPT ![NextSlot] = NewRequest(t, "overview", None, stored, None)]
        /\ UNCHANGED <<accounts, stored, version>>

\* handleLogin and handleRegister up to their await.
Submit(t, kind, form) ==
    /\ ~page[t].authed
    /\ Room(IF kind = "login" THEN 2 ELSE 1)
    /\ Cardinality({r \in Sent : req[r].kind \in Forms}) < MaxForms
    /\ req' = [req EXCEPT ![NextSlot] = NewRequest(t, kind, form, None, None)]
    /\ UNCHANGED <<accounts, page, stored, version>>

\* A click on another panel and the effect that follows it.
SelectPanel(t, q) ==
    LET p == [page[t] EXCEPT !.panel = q] IN
    /\ page[t].authed /\ q # page[t].panel
    /\ Room(1)
    /\ page' = [page EXCEPT ![t] = Loading(p)]
    /\ req' = [req EXCEPT ![NextSlot] = NewRequest(t, q, None, stored, None)]
    /\ UNCHANGED <<accounts, stored, version>>

\* Fault: each button is disabled by its own flag alone.
SimulateOwnButton(t, kind) ==
    /\ page[t].authed /\ page[t].panel = "overview" /\ kind \notin page[t].running
    /\ Room(2)
    /\ page' = [page EXCEPT ![t].type = kind, ![t].result = None,
                            ![t].running = @ \union {kind}]
    /\ req' = [req EXCEPT ![NextSlot] = NewRequest(t, kind, None, stored, None)]
    /\ UNCHANGED <<accounts, stored, version>>

\* runSimulation and runMLSimulation up to their await: either flag disables
\* both buttons, which only the overview has.
Simulate(t, kind) ==
    /\ page[t].authed /\ page[t].panel = "overview" /\ page[t].running = {}
    /\ Room(2)
    /\ page' = [page EXCEPT ![t].type = kind, ![t].result = None,
                            ![t].running = @ \union {kind}]
    /\ req' = [req EXCEPT ![NextSlot] = NewRequest(t, kind, None, stored, None)]
    /\ UNCHANGED <<accounts, stored, version>>
-----------------------------------------------------------------------------
(***************************************************************************)
(* The server                                                              *)
(***************************************************************************)
\* The roles that may call an endpoint, as each router declares them.
SummaryRoles == {"admin", "security_analyst"}      \* /devices/health/summary
ModelRoles == Roles                                \* /ml/models
DeviceRoles == Roles                               \* /devices
AuditRoles == {"researcher", "admin"}              \* /audit/logs
BlockRoles == {"researcher", "admin"}              \* /blockchain/blocks
DriftRoles == {"admin", "researcher"}              \* /drift/check
CompareRoles == {"admin", "researcher"}            \* /ml/compare
SimulationRoles == {"admin", "researcher"}         \* /attack-sim

\* A panel needs the roles of every endpoint it loads from.
Needs(kind) ==
    CASE kind = "overview" -> SummaryRoles \intersect ModelRoles
      [] kind = "devices" -> DeviceRoles
      [] kind = "audit" -> AuditRoles
      [] kind = "blockchain" -> BlockRoles
      [] kind = "ml_analytics" -> DriftRoles \intersect CompareRoles
      [] OTHER -> SimulationRoles

Answer(r, reply, v) ==
    req' = [req EXCEPT ![r].at = "answered", ![r].reply = reply, ![r].version = v]

\* login_access_token; the number of the request names the token.
ServeLogin(r) ==
    LET f == req[r].form IN
    /\ IF Authenticates(f.email, f.password)
       THEN Answer(r, "ok", 0) /\ Issue(r, f.email)
       ELSE Answer(r, "401", 0) /\ UNCHANGED accounts
    /\ UNCHANGED version

\* register_user: the email is looked up, and then inserted.
ServeRegister(r) ==
    LET f == req[r].form IN
    /\ \/ /\ req[r].at = "sent" /\ Exists(f.email)
          /\ Answer(r, "401", 0) /\ UNCHANGED accounts
       \/ /\ req[r].at = "sent" /\ ~Exists(f.email)
          /\ req' = [req EXCEPT ![r].at = "checked"] /\ UNCHANGED accounts
       \/ /\ req[r].at = "checked"
          /\ InsertUser(f.email, f.password) /\ Answer(r, "ok", 0)
       \/ /\ req[r].at = "checked" /\ Exists(f.email)
          /\ Answer(r, "error", 0) /\ UNCHANGED accounts
    /\ UNCHANGED version

\* The endpoints of the panels and of the simulations: the token, the role,
\* and then the work.
ServeData(r) ==
    LET role == RoleOf(req[r].token)
        change == IF req[r].kind \in Simulations THEN 1 ELSE 0
    IN  /\ IF role = None THEN Answer(r, "401", 0) /\ UNCHANGED version
           ELSE IF role \notin Needs(req[r].kind) THEN Answer(r, "403", 0) /\ UNCHANGED version
           ELSE version' = version + change /\ Answer(r, "ok", version')
        /\ UNCHANGED accounts

Serve(r) ==
    /\ req[r] # None /\ req[r].at \in {"sent", "checked"}
    /\ CASE req[r].kind = "login" -> ServeLogin(r)
         [] req[r].kind = "register" -> ServeRegister(r)
         [] OTHER -> ServeData(r)
    /\ UNCHANGED <<page, stored>>

\* The server fails, or the request or its answer is lost, whether or not the
\* work was done.
Fail(r) ==
    /\ r \in Failing
    /\ req[r] # None /\ req[r].at # "received" /\ req[r].reply # "error"
    /\ Answer(r, "error", 0)
    /\ UNCHANGED <<accounts, page, stored, version>>

\* The expiry of a token that nobody holds would change nothing.
Expire(k) ==
    /\ k = stored \/ \E r \in Sent : req[r].token = k
    /\ ExpireToken(k)
    /\ UNCHANGED <<req, page, stored, version>>
-----------------------------------------------------------------------------
(***************************************************************************)
(* Answers                                                                 *)
(***************************************************************************)
\* What was sent with the request plays no part any more, nor does a request
\* without success unless it was the reload of a result.
Received(r) ==
    IF req[r].kind = "login" \/ (req[r].reply # "ok" /\ req[r].reloads = None)
    THEN [req EXCEPT ![r] = Settled]
    ELSE [req EXCEPT ![r].at = "received", ![r].token = None]

\* Fault: a forbidden load signs out too.
UnauthorizedOrForbidden(reply) == reply \in {"401", "403"}

\* error.response?.status === 401
Unauthorized(reply) == reply = "401"

\* The end of handleLogin: the token is stored, and the effect loads the panel
\* when the tab was signed out.
ReceiveLogin(r, t) ==
    LET p == page[t] IN
    IF req[r].reply # "ok"
    THEN req' = Received(r) /\ UNCHANGED <<page, stored>>
    ELSE /\ stored' = r
         /\ IF p.authed
            THEN req' = Received(r) /\ UNCHANGED page
            ELSE /\ page' = [page EXCEPT ![t] = Loading([p EXCEPT !.authed = TRUE])]
                 /\ req' = [Received(r) EXCEPT ![NextSlot] = NewRequest(t, p.panel, None, r, None)]

\* The end of handleRegister: an alert, and the login form.
ReceiveRegister(r, t) == req' = Received(r) /\ UNCHANGED <<page, stored>>

\* The end of loadData.  The analytics catch their errors themselves, so a 401
\* does not sign out there.
ReceiveLoad(r, t) ==
    LET p == page[t]
        q == req[r].kind
        shown == IF req[r].reply = "ok" THEN [p.shown EXCEPT ![q] = r] ELSE p.shown
    IN  /\ req' = Received(r)
        /\ IF q # "ml_analytics" /\ Unauthorized(req[r].reply)
           THEN page' = [page EXCEPT ![t].authed = FALSE] /\ stored' = None
           ELSE /\ page' = [page EXCEPT ![t].shown = shown,
                                        ![t].analytics = @ /\ q # "ml_analytics"]
                /\ UNCHANGED stored

\* Fault: what the simulation changed is not loaded again.
ReceiveSimulationNoReload(r, t) ==
    LET p == [page[t] EXCEPT !.running = @ \ {req[r].kind}] IN
    /\ page' = [page EXCEPT ![t] = IF req[r].reply = "ok" THEN [p EXCEPT !.result = r] ELSE p]
    /\ req' = Received(r)
    /\ UNCHANGED stored

\* The end of runSimulation and runMLSimulation.  loadData is that of the page
\* that was clicked: it loads the overview, whatever panel is selected by now.
ReceiveSimulation(r, t) ==
    LET p == [page[t] EXCEPT !.running = @ \ {req[r].kind}] IN
    /\ IF req[r].reply = "ok"
       THEN /\ page' = [page EXCEPT ![t] = [p EXCEPT !.result = r]]
            /\ req' = [Received(r) EXCEPT ![NextSlot] = NewRequest(t, "overview", None, stored, r)]
       ELSE page' = [page EXCEPT ![t] = p] /\ req' = Received(r)
    /\ UNCHANGED stored

Receive(r) ==
    /\ req[r] # None /\ req[r].at = "answered" /\ req[r].tab # None
    /\ LET t == req[r].tab IN
       CASE req[r].kind = "login" -> ReceiveLogin(r, t)
         [] req[r].kind = "register" -> ReceiveRegister(r, t)
         [] req[r].kind \in Simulations -> ReceiveSimulation(r, t)
         [] OTHER -> ReceiveLoad(r, t)
    /\ UNCHANGED <<accounts, version>>

Next ==
    \/ \E t \in Tab :
          \/ OpenPage(t)
          \/ \E kind \in Forms, form \in Form : Submit(t, kind, form)
          \/ \E q \in Panel : SelectPanel(t, q)
          \/ \E kind \in Simulations : Simulate(t, kind)
    \/ \E r \in Slot : Serve(r) \/ Fail(r) \/ Receive(r)
    \/ \E k \in Token : Expire(k)

Spec == Init /\ [][Next]_vars

(***************************************************************************)
(* Properties                                                              *)
(***************************************************************************)
TypeOK ==
    /\ AccountsTypeOK
    /\ req \in [Slot -> Request \union {None}] /\ Sent = 1..Cardinality(Sent)
    /\ page \in [Tab -> Page]
    /\ stored \in Token \union {None}
    /\ version \in Nat

\* The simulations a tab waits for are those its buttons are disabled for, at
\* most one; "Running" is taken back when the result comes, and the result is
\* shown under the name of the simulation it belongs to (Dashboard.jsx:354).
ButtonsHonest ==
    \A t \in Tab :
        LET awaited == {r \in Awaited(t) : req[r].kind \in Simulations}
            shows == page[t].result
        IN  /\ Cardinality(awaited) <= 1
            /\ page[t].running = {req[r].kind : r \in awaited}
            /\ shows # None => page[t].running = {} /\ req[shows].kind = page[t].type

\* The analytics panel says that it loads only while a load is on its way.
SpinnerHonest ==
    \A t \in Tab :
        page[t].analytics => \E r \in Awaited(t) : req[r].kind = "ml_analytics"

\* Every account has the password its registrant was told was accepted, and
\* every token belongs to an account whose password was given for it.
AccountsOwned ==
    \A r \in Sent : req[r].kind \in Forms /\ req[r].reply = "ok" =>
        /\ Authenticates(req[r].form.email, req[r].form.password)
        /\ req[r].kind = "login" => sub[r] = req[r].form.email

DashboardInv == TypeOK /\ ButtonsHonest /\ SpinnerHonest

\* "Reload data to reflect changes" (Dashboard.jsx:123): a tab that shows the
\* result of a simulation shows an overview at least as recent, unless the load
\* sent for it is still on its way or failed, or one sent before it came later.
FreshUnlessOverlapped ==
    \A t \in Tab : page[t].result # None =>
        \E r \in Sent :
            LET shows == page[t].shown["overview"] IN
            /\ req[r].tab = t /\ req[r].kind = "overview" /\ req[r].reloads = page[t].result
            /\ \/ req[r].at # "received" \/ req[r].reply # "ok"
               \/ shows # None /\ (shows < r \/ req[shows].version >= req[page[t].result].version)

\* Only the late answer to a request that was sent without the present token
\* ends a session that has not expired: a role that does not suffice, a failure
\* or a lost answer never signs anyone out.
SessionsLast ==
    [][stored # None /\ stored \notin expired /\ stored' = None =>
         \E r \in Sent : /\ req[r].at = "answered" /\ req'[r].at = "received"
                         /\ req[r].token # stored]_vars
=============================================================================
