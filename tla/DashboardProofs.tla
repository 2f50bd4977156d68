-------------------------- MODULE DashboardProofs ---------------------------
(***************************************************************************)
(* The accounts, the sessions and the pages of the dashboard, for any      *)
(* number of tabs, requests, users and tokens: IInv is about accounts and  *)
(* tokens, AllInv adds what the pages show and what they wait for.         *)
(***************************************************************************)
EXTENDS Dashboard, FiniteSetTheorems, TLAPS

\* What a record of a request says is true of the accounts: its token was
\* issued, a data request was refused for an expired token, a registrant or a
\* login was accepted with the password of the account.
RecordOK(q, r) ==
    /\ q \in Request
    /\ q.kind \in Forms => q.form \in Form
    /\ q.token # None => sub[q.token] # None
    /\ q.kind \notin Forms /\ q.reply = "401" /\ q.token # None => q.token \in expired
    /\ q.kind \in Forms /\ q.reply = "ok" => Authenticates(q.form.email, q.form.password)
    /\ q.kind = "login" /\ q.reply = "ok" => sub[r] = q.form.email

RecordsOK == \A r \in Slot : req[r] # None => RecordOK(req[r], r)

\* Tokens belong to accounts, and the one that is stored was issued.
TokensOK ==
    /\ stored \in Token \union {None}
    /\ stored # None => sub[stored] # None
    /\ \A k \in Token : sub[k] # None => Exists(sub[k])

IInv ==
    /\ AccountsTypeOK /\ version \in Nat
    /\ page \in [Tab -> Page]
    /\ req \in [Slot -> Request \union {None}]
    /\ TokensOK /\ RecordsOK

LEMMA SettledOK == ASSUME NEW r PROVE RecordOK(Settled, r) /\ Settled # None
  BY DashboardAssumption DEF RecordOK, Settled, Request, Forms, Simulations

\* A request as it is sent: nothing has been answered.
LEMMA NewOK ==
    ASSUME TokensOK, NEW t \in Tab, NEW kind \in Panel \union Simulations \union Forms,
           NEW form \in Form \union {None}, kind \in Forms => form \in Form,
           NEW token \in Token \union {None}, token # None => sub[token] # None,
           NEW s \in Slot \union {None}, NEW r
    PROVE  RecordOK(NewRequest(t, kind, form, token, s), r)
<1>1. NewRequest(t, kind, form, token, s) \in Request
  BY DEF NewRequest, Request
<1>. QED  BY <1>1 DEF RecordOK, NewRequest

\* What is received or left behind keeps only what it said.
LEMMA ReceivedOK ==
    ASSUME NEW r \in Slot, req[r] # None, RecordOK(req[r], r)
    PROVE  /\ RecordOK([req[r] EXCEPT !.at = "received", !.token = None], r)
           /\ RecordOK([req[r] EXCEPT !.tab = None], r)
<1>1. [req[r] EXCEPT !.at = "received", !.token = None] \in Request
  BY DEF RecordOK, Request
<1>2. [req[r] EXCEPT !.tab = None] \in Request
  BY DEF RecordOK, Request
<1>. QED  BY <1>1, <1>2 DEF RecordOK, Request

\* The accounts only grow: what a record says stays true.
LEMMA StillOK ==
    ASSUME AccountsTypeOK, AccountsTypeOK', NEW q, NEW r \in Slot, RecordOK(q, r),
           \A e \in Email : users[e] # None => users'[e] = users[e],
           \A k \in Token : sub[k] # None => sub'[k] # None,
           expired \subseteq expired',
           sub'[r] = sub[r]
    PROVE  RecordOK(q, r)'
  BY DashboardAssumption DEF RecordOK, Authenticates, Exists, Request

\* Records that change are sound, and the accounts stay.
LEMMA RecordsStep ==
    ASSUME IInv, UNCHANGED accounts, req' = [r \in Slot |-> req'[r]],
           \A r \in Slot : req'[r] = req[r] \/ (req'[r] # None /\ RecordOK(req'[r], r))
    PROVE  /\ AccountsTypeOK' /\ RecordsOK'
           /\ req' \in [Slot -> Request \union {None}]
<1>1. users' = users /\ sub' = sub /\ expired' = expired
  BY DEF accounts
<1>2. AccountsTypeOK'
  BY <1>1 DEF IInv, AccountsTypeOK
<1>3. \A r \in Slot : req'[r] \in Request \union {None}
  BY DEF IInv, RecordOK
<1>4. RecordsOK'
  BY <1>1 DEF IInv, RecordsOK, RecordOK, Authenticates, Exists
<1>. QED  BY <1>2, <1>3, <1>4

\* One record is replaced, and perhaps a new request is sent.
LEMMA OneRecord ==
    ASSUME IInv, UNCHANGED accounts, NEW n, NEW q, NEW new,
           q # None, new # None, NEW r \in Slot,
           RecordOK(q, r), \A s \in Slot : RecordOK(new, s),
           \/ req' = [req EXCEPT ![r] = q]
           \/ req' = [req EXCEPT ![n] = new]
           \/ req' = [[req EXCEPT ![r] = q] EXCEPT ![n] = new]
    PROVE  /\ AccountsTypeOK' /\ RecordsOK'
           /\ req' \in [Slot -> Request \union {None}]
<1>1. req = [s \in Slot |-> req[s]]
  BY DEF IInv
<1>2. req' = [s \in Slot |-> req'[s]]
  BY <1>1
<1>3. \A s \in Slot : req'[s] = req[s] \/ (req'[s] # None /\ RecordOK(req'[s], s))
  BY <1>1
<1>. QED  BY <1>2, <1>3, RecordsStep

\* What the handlers do to a page keeps its type.
LEMMA PageTyped ==
    ASSUME NEW p \in Page
    PROVE  /\ Loading(p) \in Page
           /\ [p EXCEPT !.authed = TRUE] \in Page
           /\ [p EXCEPT !.authed = FALSE] \in Page
           /\ \A q \in Panel : [p EXCEPT !.panel = q] \in Page
           /\ \A k \in Simulations :
                 [p EXCEPT !.type = k, !.result = None, !.running = @ \union {k}] \in Page
           /\ \A k : [p EXCEPT !.running = @ \ {k}] \in Page
           /\ \A r \in Slot : [p EXCEPT !.result = r] \in Page
           /\ \A q \in Panel, r \in Slot, b \in BOOLEAN :
                 [p EXCEPT !.shown = [p.shown EXCEPT ![q] = r], !.analytics = b] \in Page
           /\ \A b \in BOOLEAN : [p EXCEPT !.shown = p.shown, !.analytics = b] \in Page
  BY DEF Page, Loading

LEMMA BlankOK == ASSUME NEW b \in BOOLEAN PROVE Blank(b) \in Page
  BY DashboardAssumption DEF Blank, Page

-----------------------------------------------------------------------------
LEMMA InitOK == Init => IInv
<1>. SUFFICES ASSUME Init PROVE IInv
  OBVIOUS
<1>1. AccountsTypeOK
  BY AccountsAssumption DEF Init, AccountsInit, AccountsTypeOK, User, Roles
<1>2. page \in [Tab -> Page]
  <2>1. Blank(FALSE) \in Page /\ Blank(stored # None) \in Page
    BY BlankOK
  <2>. QED  BY <2>1 DEF Init
<1>3. TokensOK
  BY AccountsAssumption DEF Init, AccountsInit, TokensOK, Exists, User, Roles
<1>. QED  BY <1>1, <1>2, <1>3 DEF Init, IInv, RecordsOK

LEMMA OpenPageTyped ==
    ASSUME IInv, NEW t \in Tab, OpenPage(t) PROVE IInv'
<1>. DEFINE left == [r \in Slot |->
                       IF req[r] = None \/ req[r].tab # t THEN req[r]
                       ELSE IF Outlives(r) THEN [req[r] EXCEPT !.tab = None] ELSE Settled]
            new == NewRequest(t, "overview", None, stored, None)
<1>1. UNCHANGED <<accounts, stored, version>> /\ page' = [page EXCEPT ![t] = Blank(stored # None)]
  BY DEF OpenPage
<1>2. req' = left \/ req' = [left EXCEPT ![NextSlot] = new]
  BY DEF OpenPage
<1>3. new # None /\ \A r : RecordOK(new, r)
  <2>1. TokensOK
    BY DEF IInv
  <2>2. \A r : RecordOK(new, r)
    BY <2>1, NewOK, DashboardAssumption DEF TokensOK, Forms, Panels
  <2>. QED  BY <2>2, DashboardAssumption DEF RecordOK
<1>4. \A r \in Slot : left[r] = req[r] \/ (left[r] # None /\ RecordOK(left[r], r))
  <2>. TAKE r \in Slot
  <2>1. CASE req[r] = None
    BY <2>1
  <2>2. CASE req[r] # None
    <3>1. RecordOK(req[r], r)
      BY <2>2 DEF IInv, RecordsOK
    <3>2. RecordOK([req[r] EXCEPT !.tab = None], r) /\ [req[r] EXCEPT !.tab = None] # None
      BY <2>2, <3>1, ReceivedOK, DashboardAssumption DEF RecordOK
    <3>. QED  BY <2>2, <3>2, SettledOK
  <2>. QED  BY <2>1, <2>2
<1>5. req' = [r \in Slot |-> req'[r]]
  BY <1>2
<1>6. \A r \in Slot : req'[r] = req[r] \/ (req'[r] # None /\ RecordOK(req'[r], r))
  <2>. HIDE DEF new
  <2>1. \A r \in Slot : req'[r] = left[r] \/ req'[r] = new
    BY <1>2
  <2>. HIDE DEF left
  <2>. QED  BY <1>3, <1>4, <2>1
<1>7. AccountsTypeOK' /\ RecordsOK' /\ req' \in [Slot -> Request \union {None}]
  BY <1>1, <1>5, <1>6, RecordsStep
<1>8. page' \in [Tab -> Page]
  <2>1. Blank(stored # None) \in Page
    BY BlankOK
  <2>. QED  BY <1>1, <2>1 DEF IInv
<1>9. TokensOK' /\ version' \in Nat
  BY <1>1 DEF IInv, TokensOK, accounts, Exists
<1>. QED  BY <1>7, <1>8, <1>9 DEF IInv

\* The accounts, the token and the version stay: what is left to show is the
\* page and the new request.
LEMMA SendOK ==
    ASSUME IInv, UNCHANGED <<accounts, stored, version>>, NEW t \in Tab,
           NEW kind \in Panel \union Simulations \union Forms,
           NEW form \in Form \union {None}, kind \in Forms => form \in Form,
           NEW token, token = None \/ token = stored,
           NEW p \in Page, page' = page \/ page' = [page EXCEPT ![t] = p],
           req' = [req EXCEPT ![NextSlot] = NewRequest(t, kind, form, token, None)]
    PROVE  IInv'
<1>. DEFINE new == NewRequest(t, kind, form, token, None)
<1>1. TokensOK
  BY DEF IInv
<1>2. \A r : RecordOK(new, r)
  BY <1>1, NewOK DEF TokensOK
<1>3. new # None
  BY <1>2, DashboardAssumption DEF RecordOK
<1>. HIDE DEF new
<1>4. \A r \in Slot : req'[r] = req[r] \/ (req'[r] # None /\ RecordOK(req'[r], r))
  <2>1. req' = [req EXCEPT ![NextSlot] = new]
    BY DEF new
  <2>. QED  BY <1>2, <1>3, <2>1 DEF IInv
<1>5. req' = [r \in Slot |-> req'[r]]
  BY DEF IInv
<1>6. AccountsTypeOK' /\ RecordsOK' /\ req' \in [Slot -> Request \union {None}]
  BY <1>4, <1>5, RecordsStep
<1>7. page' \in [Tab -> Page] /\ version' \in Nat
  BY DEF IInv
<1>8. TokensOK'
  BY <1>1 DEF TokensOK, accounts, Exists
<1>. QED  BY <1>6, <1>7, <1>8 DEF IInv

LEMMA UserOK ==
    ASSUME IInv, NEW t \in Tab,
           \/ \E kind \in Forms, form \in Form : Submit(t, kind, form)
           \/ \E q \in Panel : SelectPanel(t, q)
           \/ \E kind \in Simulations : Simulate(t, kind)
    PROVE  IInv'
<1>0. page[t] \in Page
  BY DEF IInv
<1>1. ASSUME NEW kind \in Forms, NEW form \in Form, Submit(t, kind, form) PROVE IInv'
  <2>1. page' = page /\ UNCHANGED <<accounts, stored, version>>
        /\ req' = [req EXCEPT ![NextSlot] = NewRequest(t, kind, form, None, None)]
    BY <1>1 DEF Submit
  <2>. QED  BY <1>0, <2>1, SendOK
<1>2. ASSUME NEW q \in Panel, SelectPanel(t, q) PROVE IInv'
  <2>. DEFINE p == Loading([page[t] EXCEPT !.panel = q])
  <2>1. p \in Page
    BY <1>0, PageTyped
  <2>2. /\ page' = [page EXCEPT ![t] = p] /\ UNCHANGED <<accounts, stored, version>>
        /\ req' = [req EXCEPT ![NextSlot] = NewRequest(t, q, None, stored, None)]
    BY <1>2 DEF SelectPanel
  <2>3. q \notin Forms
    BY DashboardAssumption DEF Panels, Forms
  <2>. HIDE DEF p
  <2>. QED  BY <2>1, <2>2, <2>3, SendOK
<1>3. ASSUME NEW kind \in Simulations, Simulate(t, kind) PROVE IInv'
  <2>. DEFINE p == [page[t] EXCEPT !.type = kind, !.result = None, !.running = @ \union {kind}]
  <2>1. p \in Page
    BY <1>0, PageTyped
  <2>2. page' = [page EXCEPT ![t] = p]
    BY <1>3 DEF Simulate, IInv
  <2>3. /\ UNCHANGED <<accounts, stored, version>>
        /\ req' = [req EXCEPT ![NextSlot] = NewRequest(t, kind, None, stored, None)]
    BY <1>3 DEF Simulate
  <2>4. kind \notin Forms
    BY DEF Simulations, Forms
  <2>. HIDE DEF p
  <2>. QED  BY <2>1, <2>2, <2>3, <2>4, SendOK
<1>. QED  BY <1>1, <1>2, <1>3

-----------------------------------------------------------------------------
\* Answers that touch neither accounts nor version.
LEMMA PlainAnswerOK ==
    ASSUME IInv, NEW r \in Slot, req[r] # None, UNCHANGED <<accounts, page, stored>>,
           NEW v \in Nat, version' \in Nat,
           NEW reply \in {"ok", "401", "403", "error"}, Answer(r, reply, v),
           reply = "ok" => req[r].kind \notin Forms,
           reply = "401" /\ req[r].kind \notin Forms /\ req[r].token # None
              => req[r].token \in expired
    PROVE  IInv'
<1>. DEFINE q == [req[r] EXCEPT !.at = "answered", !.reply = reply, !.version = v]
<1>1. RecordOK(req[r], r) /\ TokensOK
  BY DEF IInv, RecordsOK
<1>2. /\ q \in Request
      /\ q.kind = req[r].kind /\ q.form = req[r].form /\ q.token = req[r].token
      /\ q.reply = reply
  BY <1>1 DEF RecordOK, Request
<1>3. req' = [req EXCEPT ![r] = q]
  BY DEF Answer, IInv
<1>. HIDE DEF q
<1>4. RecordOK(q, r)
  <2>1. q.kind = "login" => q.kind \in Forms
    BY DEF Forms
  <2>. QED  BY <1>1, <1>2, <2>1 DEF RecordOK
<1>5. q # None
  BY <1>2, DashboardAssumption
<1>6. AccountsTypeOK' /\ RecordsOK' /\ req' \in [Slot -> Request \union {None}]
  <2>1. req' = [s \in Slot |-> req'[s]]
    BY <1>3 DEF IInv
  <2>2. \A s \in Slot : req'[s] = req[s] \/ (req'[s] # None /\ RecordOK(req'[s], s))
    BY <1>3, <1>4, <1>5 DEF IInv
  <2>. QED  BY <2>1, <2>2, RecordsStep
<1>7. TokensOK'
  BY <1>1 DEF TokensOK, accounts, Exists
<1>. QED  BY <1>6, <1>7 DEF IInv

\* Answers with which the accounts grow.
LEMMA GrowingAnswerOK ==
    ASSUME IInv, NEW r \in Slot, req[r] # None, req[r].kind \in Forms,
           UNCHANGED <<page, stored, version>>, Answer(r, "ok", 0),
           AccountsTypeOK',
           \A e \in Email : users[e] # None => users'[e] = users[e],
           \A k \in Token : sub[k] # None => sub'[k] # None,
           \A k \in Token : k # r => sub'[k] = sub[k],
           req[r].kind # "login" => sub' = sub,
           expired' = expired,
           users'[req[r].form.email] # None,
           users'[req[r].form.email].password = req[r].form.password,
           req[r].kind = "login" => sub'[r] = req[r].form.email
    PROVE  IInv'
<1>0. PICK q : q = [req[r] EXCEPT !.at = "answered", !.reply = "ok", !.version = 0]
  OBVIOUS
<1>1. RecordOK(req[r], r) /\ TokensOK /\ AccountsTypeOK
  BY DEF IInv, RecordsOK
<1>2. /\ q \in Request
      /\ q.kind = req[r].kind /\ q.form = req[r].form /\ q.token = req[r].token
      /\ q.reply = "ok"
  BY <1>0, <1>1 DEF RecordOK, Request
<1>3. req' = [req EXCEPT ![r] = q]
  BY <1>0 DEF Answer, IInv
<1>4. RecordOK(q, r)'
  <2>1. q.token # None => sub'[q.token] # None
    BY <1>1, <1>2 DEF RecordOK, Request
  <2>2. q.kind \in Forms => q.form \in Form
    BY <1>1, <1>2 DEF RecordOK
  <2>3. users'[q.form.email] # None /\ users'[q.form.email].password = q.form.password
    BY <1>2
  <2>4. q.kind = "login" => sub'[r] = q.form.email
    BY <1>2
  <2>5. q.kind \in Forms /\ q.reply # "401"
    BY <1>2
  <2>. QED  BY <1>2, <2>1, <2>2, <2>3, <2>4, <2>5 DEF RecordOK, Authenticates, Exists
<1>5. RecordsOK'
  <2>. SUFFICES ASSUME NEW s \in Slot, req'[s] # None PROVE RecordOK(req[s], s)'
    BY DEF RecordsOK
  <2>1. CASE s = r
    <3>1. req'[s] = q
      BY <1>3, <2>1 DEF IInv
    <3>. QED  BY <1>4, <2>1, <3>1 DEF RecordOK, Authenticates, Exists
  <2>2. CASE s # r
    <3>0. PICK w : w = req[s]
      OBVIOUS
    <3>1. req'[s] = w
      BY <1>3, <2>2, <3>0 DEF IInv
    <3>2. RecordOK(w, s)
      BY <3>0, <3>1 DEF IInv, RecordsOK
    <3>3. sub'[s] = sub[s]
      BY <2>2, DashboardAssumption
    <3>4. RecordOK(w, s)'
      BY <1>1, <3>2, <3>3, StillOK
    <3>. QED  BY <3>1, <3>4 DEF RecordOK, Authenticates, Exists
  <2>. QED  BY <2>1, <2>2
<1>6. TokensOK'
  <2>1. stored' \in Token \union {None} /\ (stored' # None => sub'[stored'] # None)
    BY <1>1 DEF TokensOK
  <2>2. ASSUME NEW k \in Token, sub'[k] # None PROVE users'[sub'[k]] # None
    <3>1. CASE sub'[k] = sub[k]
      BY <1>1, <2>2, <3>1 DEF TokensOK, Exists, AccountsTypeOK
    <3>2. CASE sub'[k] # sub[k]
      <4>1. sub'[k] = req[r].form.email
        BY <3>2
      <4>. QED  BY <4>1
    <3>. QED  BY <3>1, <3>2
  <2>. QED  BY <2>1, <2>2 DEF TokensOK, Exists
<1>7. req' \in [Slot -> Request \union {None}]
  BY <1>2, <1>3 DEF IInv
<1>. QED  BY <1>5, <1>6, <1>7 DEF IInv

LEMMA ServeLoginOK ==
    ASSUME IInv, NEW r \in Slot, req[r] # None, req[r].kind = "login",
           UNCHANGED <<page, stored>>, ServeLogin(r)
    PROVE  IInv'
<1>1. /\ req[r].form \in Form /\ req[r].form.email \in Email
      /\ req[r].kind \in Forms /\ version \in Nat
  BY DashboardAssumption DEF IInv, RecordsOK, RecordOK, Forms
<1>2. CASE Authenticates(req[r].form.email, req[r].form.password)
  <2>1. Answer(r, "ok", 0) /\ Issue(r, req[r].form.email) /\ UNCHANGED version
    BY <1>2 DEF ServeLogin
  <2>2. /\ sub' = [sub EXCEPT ![r] = req[r].form.email] /\ users' = users /\ expired' = expired
        /\ sub \in [Token -> Email \union {None}] /\ r \in Token
    BY <2>1, DashboardAssumption DEF Issue, IInv, AccountsTypeOK
  <2>3. AccountsTypeOK'
    BY <1>1, <2>2 DEF IInv, AccountsTypeOK
  <2>4. \A k \in Token : sub[k] # None => sub'[k] # None
    BY <1>1, <2>2, AccountsAssumption
  <2>5. (\A k \in Token : k # r => sub'[k] = sub[k]) /\ sub'[r] = req[r].form.email
    BY <2>2
  <2>6. users'[req[r].form.email] # None /\ users'[req[r].form.email].password = req[r].form.password
    BY <1>2, <2>2 DEF Authenticates, Exists
  <2>. QED  BY <1>1, <2>1, <2>2, <2>3, <2>4, <2>5, <2>6, GrowingAnswerOK
<1>3. CASE ~Authenticates(req[r].form.email, req[r].form.password)
  <2>1. Answer(r, "401", 0) /\ UNCHANGED <<accounts, version>>
    BY <1>3 DEF ServeLogin
  <2>. QED  BY <1>1, <2>1, PlainAnswerOK
<1>. QED  BY <1>2, <1>3

LEMMA ServeRegisterOK ==
    ASSUME IInv, NEW r \in Slot, req[r] # None, req[r].kind = "register",
           UNCHANGED <<page, stored>>, ServeRegister(r)
    PROVE  IInv'
<1>1. /\ req[r].form \in Form /\ req[r].form \in [email : Email, password : Password]
      /\ req[r].kind \in Forms /\ version \in Nat
  BY DashboardAssumption DEF IInv, RecordsOK, RecordOK, Forms
<1>2. ASSUME Answer(r, "401", 0), UNCHANGED <<accounts, version>> PROVE IInv'
  BY <1>1, <1>2, PlainAnswerOK
<1>3. ASSUME Answer(r, "error", 0), UNCHANGED <<accounts, version>> PROVE IInv'
  BY <1>1, <1>3, PlainAnswerOK
<1>4. ASSUME req' = [req EXCEPT ![r].at = "checked"], UNCHANGED <<accounts, version>> PROVE IInv'
  <2>0. PICK q : q = [req[r] EXCEPT !.at = "checked"]
    OBVIOUS
  <2>1. req' = [req EXCEPT ![r] = q]
    BY <1>4, <2>0 DEF IInv
  <2>2. RecordOK(req[r], r)
    BY DEF IInv, RecordsOK
  <2>3. RecordOK(q, r) /\ q # None
    BY <2>0, <2>2, DashboardAssumption DEF RecordOK, Request
  <2>4. req' = [s \in Slot |-> req'[s]]
    BY <2>1 DEF IInv
  <2>5. \A s \in Slot : req'[s] = req[s] \/ (req'[s] # None /\ RecordOK(req'[s], s))
    BY <2>1, <2>3 DEF IInv
  <2>6. AccountsTypeOK' /\ RecordsOK' /\ req' \in [Slot -> Request \union {None}]
    BY <1>4, <2>4, <2>5, RecordsStep
  <2>7. TokensOK'
    BY <1>4 DEF IInv, TokensOK, accounts, Exists
  <2>. QED  BY <1>4, <2>6, <2>7 DEF IInv
<1>5. ASSUME InsertUser(req[r].form.email, req[r].form.password), Answer(r, "ok", 0),
             UNCHANGED version
      PROVE  IInv'
  <2>. DEFINE row == [password |-> req[r].form.password, role |-> "farmer"]
              e == req[r].form.email
  <2>1. /\ users' = [users EXCEPT ![e] = row] /\ sub' = sub /\ expired' = expired
        /\ users \in [Email -> User \union {None}] /\ users[e] = None
        /\ e \in Email
    BY <1>1, <1>5 DEF InsertUser, Exists, IInv, AccountsTypeOK
  <2>2. row \in User /\ row # None /\ row.password = req[r].form.password
    <3>1. row \in User
      BY <1>1 DEF User, Roles
    <3>. QED  BY <3>1, AccountsAssumption
  <2>. HIDE DEF row
  <2>3. AccountsTypeOK'
    BY <2>1, <2>2 DEF IInv, AccountsTypeOK
  <2>4. \A x \in Email : users[x] # None => users'[x] = users[x]
    BY <2>1
  <2>5. users'[e] = row
    BY <2>1
  <2>. QED  BY <1>1, <1>5, <2>1, <2>2, <2>3, <2>4, <2>5, GrowingAnswerOK
<1>. QED  BY <1>2, <1>3, <1>4, <1>5 DEF ServeRegister

LEMMA ServeDataOK ==
    ASSUME IInv, NEW r \in Slot, req[r] # None, req[r].kind \notin Forms,
           UNCHANGED <<page, stored>>, ServeData(r)
    PROVE  IInv'
<1>1. RecordOK(req[r], r) /\ version \in Nat /\ TokensOK /\ AccountsTypeOK
  BY DEF IInv, RecordsOK
<1>2. UNCHANGED accounts
  BY DEF ServeData
<1>3. CASE RoleOf(req[r].token) = None
  <2>1. Answer(r, "401", 0) /\ UNCHANGED version
    BY <1>3 DEF ServeData
  <2>2. req[r].token # None => req[r].token \in expired
    <3>. SUFFICES ASSUME req[r].token # None, req[r].token \notin expired PROVE FALSE
      OBVIOUS
    <3>1. req[r].token \in Token /\ sub[req[r].token] # None
      BY <1>1 DEF RecordOK, Request
    <3>2. sub[req[r].token] \in Email /\ users[sub[req[r].token]] \in User
      BY <1>1, <3>1 DEF TokensOK, AccountsTypeOK, Exists
    <3>3. users[sub[req[r].token]].role \in Roles
      BY <3>2 DEF User
    <3>4. RoleOf(req[r].token) = users[sub[req[r].token]].role
      BY <3>1 DEF RoleOf
    <3>. QED  BY <1>3, <3>3, <3>4, AccountsAssumption
  <2>. QED  BY <1>1, <1>2, <2>1, <2>2, PlainAnswerOK
<1>4. CASE RoleOf(req[r].token) # None /\ RoleOf(req[r].token) \notin Needs(req[r].kind)
  <2>1. Answer(r, "403", 0) /\ UNCHANGED version
    BY <1>4 DEF ServeData
  <2>. QED  BY <1>1, <1>2, <2>1, PlainAnswerOK
<1>5. CASE RoleOf(req[r].token) # None /\ RoleOf(req[r].token) \in Needs(req[r].kind)
  <2>0. PICK c \in Nat : version' = version + c /\ Answer(r, "ok", version')
    BY <1>5 DEF ServeData
  <2>1. version' \in Nat
    BY <1>1, <2>0
  <2>. QED  BY <1>2, <2>0, <2>1, PlainAnswerOK
<1>. QED  BY <1>3, <1>4, <1>5

LEMMA ServeOK == ASSUME IInv, NEW r \in Slot, Serve(r) PROVE IInv'
  BY ServeLoginOK, ServeRegisterOK, ServeDataOK DEF Serve, Forms

LEMMA FailOK == ASSUME IInv, NEW r \in Slot, Fail(r) PROVE IInv'
<1>1. req[r] # None /\ Answer(r, "error", 0) /\ UNCHANGED <<accounts, page, stored, version>>
      /\ version \in Nat
  BY DEF Fail, IInv
<1>. QED  BY <1>1, PlainAnswerOK

LEMMA ExpireOK == ASSUME IInv, NEW k \in Token, Expire(k) PROVE IInv'
<1>1. /\ UNCHANGED <<req, page, stored, version, users, sub>>
      /\ expired' = expired \union {k}
  BY DEF Expire, ExpireToken
<1>2. AccountsTypeOK'
  BY <1>1 DEF IInv, AccountsTypeOK
<1>3. RecordsOK'
  BY <1>1 DEF IInv, RecordsOK, RecordOK, Authenticates, Exists
<1>. QED  BY <1>1, <1>2, <1>3 DEF IInv, TokensOK, Exists

-----------------------------------------------------------------------------
\* What is left of a request that was received.
LEMMA ReceivedFunction ==
    ASSUME IInv, NEW r \in Slot, req[r] # None
    PROVE  \E q : q # None /\ RecordOK(q, r) /\ Received(r) = [req EXCEPT ![r] = q]
<1>0. PICK q : q = [req[r] EXCEPT !.at = "received", !.token = None]
  OBVIOUS
<1>1. RecordOK(q, r)
  BY <1>0, ReceivedOK DEF IInv, RecordsOK
<1>2. q # None
  BY <1>1, DashboardAssumption DEF RecordOK
<1>3. Received(r) = [req EXCEPT ![r] = Settled] \/ Received(r) = [req EXCEPT ![r] = q]
  BY <1>0 DEF Received, IInv
<1>. QED  BY <1>1, <1>2, <1>3, SettledOK

\* A handler has its answer, stores or removes a token, and perhaps sends.
LEMMA ReceiveStepOK ==
    ASSUME IInv, NEW r \in Slot, req[r] # None, UNCHANGED <<accounts, version>>,
           NEW t \in Tab, NEW p \in Page, page' = page \/ page' = [page EXCEPT ![t] = p],
           stored' \in Token \union {None}, stored' # None => sub[stored'] # None,
           NEW kind \in Panel, NEW token, token = stored \/ token = stored',
           NEW s \in Slot \union {None},
           \/ req' = Received(r)
           \/ req' = [Received(r) EXCEPT ![NextSlot] = NewRequest(t, kind, None, token, s)]
    PROVE  IInv'
<1>1. TokensOK
  BY DEF IInv
<1>2. PICK q : q # None /\ RecordOK(q, r) /\ Received(r) = [req EXCEPT ![r] = q]
  BY ReceivedFunction
<1>3. PICK new : new = NewRequest(t, kind, None, token, s)
  OBVIOUS
<1>4. \A x : RecordOK(new, x)
  <2>1. token \in Token \union {None} /\ (token # None => sub[token] # None)
    BY <1>1 DEF TokensOK
  <2>2. kind \notin Forms
    BY DashboardAssumption DEF Panels, Forms
  <2>. QED  BY <1>1, <1>3, <2>1, <2>2, NewOK
<1>5. new # None
  BY <1>4, DashboardAssumption DEF RecordOK
<1>6. req' = [x \in Slot |-> req'[x]]
  BY <1>2 DEF IInv
<1>7. \A x \in Slot : req'[x] = req[x] \/ (req'[x] # None /\ RecordOK(req'[x], x))
  BY <1>2, <1>3, <1>4, <1>5 DEF IInv
<1>8. AccountsTypeOK' /\ RecordsOK' /\ req' \in [Slot -> Request \union {None}]
  BY <1>6, <1>7, RecordsStep
<1>9. TokensOK'
  BY <1>1 DEF TokensOK, accounts, Exists
<1>. QED  BY <1>8, <1>9 DEF IInv

LEMMA ReceiveOK == ASSUME IInv, NEW r \in Slot, Receive(r) PROVE IInv'
<1>. DEFINE t == req[r].tab
<1>1. /\ req[r] # None /\ RecordOK(req[r], r) /\ UNCHANGED <<accounts, version>>
      /\ t \in Tab /\ page[t] \in Page
      /\ stored \in Token \union {None} /\ (stored # None => sub[stored] # None)
  BY DEF Receive, IInv, RecordsOK, RecordOK, Request, TokensOK
<1>2. page[t].panel \in Panel /\ "overview" \in Panel
  BY <1>1, DashboardAssumption DEF Page
<1>3. CASE req[r].kind = "login"
  <2>1. ReceiveLogin(r, t)
    BY <1>3 DEF Receive, Simulations
  <2>2. CASE req[r].reply # "ok"
    <3>1. req' = Received(r) /\ UNCHANGED <<page, stored>>
      BY <2>1, <2>2 DEF ReceiveLogin
    <3>. QED  BY <1>1, <1>2, <3>1, ReceiveStepOK
  <2>3. CASE req[r].reply = "ok"
    <3>1. stored' = r /\ r \in Token /\ sub[r] # None
      <4>1. sub[r] = req[r].form.email /\ req[r].form \in Form
        BY <1>1, <1>3, <2>3 DEF RecordOK, Forms
      <4>. QED  BY <2>1, <2>3, <4>1, AccountsAssumption, DashboardAssumption DEF ReceiveLogin
    <3>. DEFINE p == Loading([page[t] EXCEPT !.authed = TRUE])
    <3>2. p \in Page
      BY <1>1, PageTyped
    <3>3. page' = page \/ page' = [page EXCEPT ![t] = p]
      BY <2>1, <2>3 DEF ReceiveLogin
    <3>4. \/ req' = Received(r)
          \/ req' = [Received(r) EXCEPT ![NextSlot] = NewRequest(t, page[t].panel, None, r, None)]
      BY <2>1, <2>3 DEF ReceiveLogin
    <3>. HIDE DEF p, t
    <3>. QED  BY <1>1, <1>2, <3>1, <3>2, <3>3, <3>4, ReceiveStepOK
  <2>. QED  BY <2>2, <2>3
<1>4. CASE req[r].kind = "register"
  <2>1. req' = Received(r) /\ UNCHANGED <<page, stored>>
    BY <1>4 DEF Receive, ReceiveRegister, Simulations
  <2>. QED  BY <1>1, <1>2, <2>1, ReceiveStepOK
<1>5. CASE req[r].kind \in Simulations
  <2>1. ReceiveSimulation(r, t)
    BY <1>5 DEF Receive, Simulations
  <2>. DEFINE p == [page[t] EXCEPT !.running = @ \ {req[r].kind}]
              shown == [p EXCEPT !.result = r]
  <2>2. p \in Page
    BY <1>1, PageTyped
  <2>3. shown \in Page
    BY <2>2, PageTyped
  <2>4. page' = [page EXCEPT ![t] = p] \/ page' = [page EXCEPT ![t] = shown]
    BY <2>1 DEF ReceiveSimulation
  <2>5. \/ req' = Received(r)
        \/ req' = [Received(r) EXCEPT ![NextSlot] = NewRequest(t, "overview", None, stored, r)]
    BY <2>1 DEF ReceiveSimulation
  <2>6. stored' = stored
    BY <2>1 DEF ReceiveSimulation
  <2>. HIDE DEF p, shown, t
  <2>. QED  BY <1>1, <1>2, <2>2, <2>3, <2>4, <2>5, <2>6, ReceiveStepOK
<1>6. CASE req[r].kind \notin Forms \union Simulations
  <2>1. ReceiveLoad(r, t) /\ req' = Received(r)
    BY <1>6 DEF Receive, ReceiveLoad, Forms
  <2>2. req[r].kind \in Panel
    BY <1>1, <1>6 DEF RecordOK, Request
  <2>3. CASE page' = [page EXCEPT ![t].authed = FALSE] /\ stored' = None
    <3>. DEFINE p == [page[t] EXCEPT !.authed = FALSE]
    <3>1. p \in Page
      BY <1>1, PageTyped
    <3>2. page' = [page EXCEPT ![t] = p]
      BY <2>3
    <3>. HIDE DEF p, t
    <3>. QED  BY <1>1, <1>2, <2>1, <2>3, <3>1, <3>2, ReceiveStepOK
  <2>4. CASE ~(page' = [page EXCEPT ![t].authed = FALSE] /\ stored' = None)
    <3>. DEFINE shown == IF req[r].reply = "ok"
                         THEN [page[t].shown EXCEPT ![req[r].kind] = r] ELSE page[t].shown
                b == page[t].analytics /\ req[r].kind # "ml_analytics"
                p == [page[t] EXCEPT !.shown = shown, !.analytics = b]
    <3>1. p \in Page
      <4>1. b \in BOOLEAN
        OBVIOUS
      <4>. HIDE DEF b, t
      <4>. QED  BY <1>1, <2>2, <4>1, PageTyped
    <3>2. page' = [page EXCEPT ![t] = p] /\ stored' = stored
      BY <2>1, <2>4 DEF ReceiveLoad
    <3>. HIDE DEF p, t
    <3>. QED  BY <1>1, <1>2, <2>1, <3>1, <3>2, ReceiveStepOK
  <2>. QED  BY <2>3, <2>4
<1>. QED  BY <1>3, <1>4, <1>5, <1>6 DEF Forms

LEMMA NextOK == ASSUME IInv, [Next]_vars PROVE IInv'
<1>1. ASSUME NEW t \in Tab, OpenPage(t) PROVE IInv'
  BY <1>1, OpenPageTyped
<1>2. ASSUME NEW t \in Tab,
             \/ \E kind \in Forms, form \in Form : Submit(t, kind, form)
             \/ \E q \in Panel : SelectPanel(t, q)
             \/ \E kind \in Simulations : Simulate(t, kind)
      PROVE  IInv'
  BY <1>2, UserOK
<1>3. ASSUME NEW r \in Slot, Serve(r) \/ Fail(r) \/ Receive(r) PROVE IInv'
  BY <1>3, ServeOK, FailOK, ReceiveOK
<1>4. ASSUME NEW k \in Token, Expire(k) PROVE IInv'
  BY <1>4, ExpireOK
<1>5. CASE UNCHANGED vars
  <2>1. UNCHANGED <<users, sub, expired, req, page, stored, version>>
    BY <1>5 DEF vars, accounts
  <2>2. RecordsOK'
    BY <2>1 DEF IInv, RecordsOK, RecordOK, Authenticates, Exists
  <2>. QED  BY <2>1, <2>2 DEF IInv, AccountsTypeOK, TokensOK, Exists
<1>. QED  BY <1>1, <1>2, <1>3, <1>4, <1>5 DEF Next

\* Typed, and only tokens that were issued, records that are true.
THEOREM DashboardInvariant == Spec => []IInv
<1>. QED  BY InitOK, NextOK, PTL DEF Spec

\* Whatever the order of two registrations of one email and of the logins
\* (UserService.create, login_access_token): a password that was accepted stays
\* that of its account.
THEOREM AccountsKept == Spec => []AccountsOwned
<1>1. IInv => AccountsOwned
  BY DEF IInv, RecordsOK, RecordOK, AccountsOwned, Sent, Forms
<1>. QED  BY <1>1, DashboardInvariant, PTL

\* No role that does not suffice, no failure and no lost answer signs anyone
\* out (loadData): a session that has not expired ends with the answer to a
\* request that was sent with another token, or without one.
THEOREM SessionsOutlast == Spec => SessionsLast
<1>1. ASSUME IInv, Next, stored # None, stored \notin expired, stored' = None
      PROVE  \E r \in Sent : /\ req[r].at = "answered" /\ req'[r].at = "received"
                             /\ req[r].token # stored
  <2>1. PICK r \in Slot : Receive(r)
    BY <1>1 DEF Next, OpenPage, Submit, SelectPanel, Simulate, Serve, Fail, Expire
  <2>2. /\ req[r] # None /\ req[r].at = "answered" /\ RecordOK(req[r], r)
        /\ r \in Sent
    BY <1>1, <2>1 DEF Receive, IInv, RecordsOK, Sent
  <2>3. req[r].kind \notin Forms /\ req[r].reply = "401" /\ req' = Received(r)
    BY <1>1, <2>1, AccountsAssumption, DashboardAssumption
    DEF Receive, ReceiveLogin, ReceiveRegister, ReceiveSimulation, ReceiveLoad,
        Unauthorized, Forms
  <2>4. req'[r].at = "received"
    BY <1>1, <2>2, <2>3 DEF Received, Settled, IInv, RecordOK, Request
  <2>5. req[r].token # stored
    BY <1>1, <2>2, <2>3 DEF RecordOK
  <2>. QED  BY <2>2, <2>4, <2>5
<1>2. IInv /\ [Next]_vars =>
        [stored # None /\ stored \notin expired /\ stored' = None =>
            \E r \in Sent : /\ req[r].at = "answered" /\ req'[r].at = "received"
                            /\ req[r].token # stored]_vars
  BY <1>1
<1>. QED  BY <1>2, DashboardInvariant, PTL DEF Spec, SessionsLast
-----------------------------------------------------------------------------
(***************************************************************************)
(* What the tabs show: the numbers of the requests, the versions of their  *)
(* answers, and the pages.                                                 *)
(***************************************************************************)
\* Numbers are handed out in order, and enough of them are left for what the
\* answers on their way will make the tabs send.
Numbered ==
    /\ Sent = 1..Cardinality(Sent)
    /\ Cardinality(Sent) + Cardinality(Owed) <= MaxRequests

\* A reload was sent for a result that had come, and everything that was sent
\* after it and answered is at least as recent as that result.
Chained ==
    \A r \in Slot : req[r] # None =>
        /\ req[r].version <= version
        /\ req[r].reloads # None =>
              LET x == req[r].reloads IN
              /\ req[x] # None /\ req[x].at = "received"
              /\ \A s \in Slot :
                    req[s] # None /\ r <= s /\ req[s].kind \notin Forms /\ req[s].reply = "ok"
                       => req[x].version <= req[s].version

\* A request of tab t that is on its way, and one that has come.
Awaits(t, r) == req[r] # None /\ req[r].tab = t /\ req[r].at # "received"
Has(t, r) == req[r] # None /\ req[r].tab = t /\ req[r].at = "received"
Simulates(t, r) == Awaits(t, r) /\ req[r].kind \in Simulations

RunningOK(t) ==
    /\ \A r \in Slot : Simulates(t, r) =>
          page[t].running = {req[r].kind} /\ page[t].type = req[r].kind
    /\ \A r, s \in Slot : Simulates(t, r) /\ Simulates(t, s) => r = s
    /\ page[t].running # {} => \E r \in Slot : Simulates(t, r)

ResultOK(t) ==
    LET x == page[t].result IN
    x # None =>
        /\ page[t].running = {}
        /\ Has(t, x) /\ req[x].kind \in Simulations /\ req[x].kind = page[t].type

ShownOK(t) ==
    \A q \in Panel :
        LET x == page[t].shown[q] IN x # None => Has(t, x) /\ req[x].kind = q

SpinnerOK(t) ==
    page[t].analytics => \E r \in Slot : Awaits(t, r) /\ req[r].kind = "ml_analytics"

\* The reload r of the result x of tab t: on its way, failed, shown or overtaken.
Reloads(t, r, x) ==
    /\ req[r] # None /\ req[r].tab = t /\ req[r].kind = "overview" /\ req[r].reloads = x
    /\ \/ req[r].at # "received" \/ req[r].reply # "ok"
       \/ LET shows == page[t].shown["overview"] IN
          shows # None /\ (shows < r \/ req[shows].version >= req[x].version)

FreshOK(t) ==
    page[t].result # None => \E r \in Slot : Reloads(t, r, page[t].result)

PageOK(t) == RunningOK(t) /\ ResultOK(t) /\ ShownOK(t) /\ SpinnerOK(t) /\ FreshOK(t)
PagesOK == \A t \in Tab : PageOK(t)

AllInv == IInv /\ Numbered /\ Chained /\ PagesOK

\* How a record goes on, the data being at version v after the step.
Follows(q, w, v) ==
    /\ w \in Request
    /\ w.reloads = None \/ w.reloads = q.reloads
    /\ q.at = "received" => w.at = "received" /\ w.version <= q.version
    /\ w.version <= v
    /\ w.kind \notin Forms /\ w.reply = "ok" =>
          w.version = v \/ (q.kind \notin Forms /\ q.reply = "ok" /\ w.version = q.version)

\* Of the records that have a number, those of simulations and logins that a tab waits for.
OwedIn(g) ==
    {r \in Slot : /\ g[r] # None /\ g[r].tab # None /\ g[r].at # "received"
                  /\ g[r].kind \in Simulations \union {"login"}}

LEMMA OwedIs == Owed = OwedIn(req)
  BY DEF Owed, OwedIn, Sent

LEMMA FollowsAll ==
    ASSUME NEW q \in Request, NEW v \in Nat, q.version <= v
    PROVE  /\ Follows(q, q, v) /\ Follows(q, Settled, v)
           /\ Follows(q, [q EXCEPT !.tab = None], v)
           /\ Follows(q, [q EXCEPT !.at = "received", !.token = None], v)
           /\ q.at # "received" => Follows(q, [q EXCEPT !.at = "checked"], v)
           /\ \A reply \in {"ok", "401", "403", "error"} : \A u \in 0..v :
                 q.at # "received" /\ (reply = "ok" /\ q.kind \notin Forms => u = v) =>
                   Follows(q, [q EXCEPT !.at = "answered", !.reply = reply, !.version = u], v)
<1>1. q.version \in Nat /\ q.kind \in Panel \union Simulations \union Forms
  BY DEF Request
<1>2. Follows(q, q, v)
  BY <1>1 DEF Follows
<1>3. Follows(q, Settled, v)
  <2>1. Settled \in Request
    BY SettledOK DEF RecordOK
  <2>2. Settled.reloads = None /\ Settled.at = "received" /\ Settled.version = 0 /\ Settled.reply = "error"
    BY DEF Settled
  <2>. QED  BY <1>1, <2>1, <2>2 DEF Follows
<1>4. Follows(q, [q EXCEPT !.tab = None], v)
  <2>1. [q EXCEPT !.tab = None] \in Request
    BY DEF Request
  <2>. QED  BY <1>1, <2>1 DEF Follows, Request
<1>5. Follows(q, [q EXCEPT !.at = "received", !.token = None], v)
  <2>1. [q EXCEPT !.at = "received", !.token = None] \in Request
    BY DEF Request
  <2>. QED  BY <1>1, <2>1 DEF Follows, Request
<1>6. q.at # "received" => Follows(q, [q EXCEPT !.at = "checked"], v)
  <2>1. [q EXCEPT !.at = "checked"] \in Request
    BY DEF Request
  <2>. QED  BY <1>1, <2>1 DEF Follows, Request
<1>7. ASSUME NEW reply \in {"ok", "401", "403", "error"}, NEW u \in 0..v, q.at # "received",
             reply = "ok" /\ q.kind \notin Forms => u = v
      PROVE  Follows(q, [q EXCEPT !.at = "answered", !.reply = reply, !.version = u], v)
  <2>. DEFINE w == [q EXCEPT !.at = "answered", !.reply = reply, !.version = u]
  <2>1. w \in Request
    <3>1. u \in Nat
      OBVIOUS
    <3>. QED  BY <3>1 DEF Request
  <2>2. w.reloads = q.reloads /\ w.version = u /\ w.reply = reply /\ w.kind = q.kind
    BY DEF Request
  <2>. HIDE DEF w
  <2>3. Follows(q, w, v)
    BY <1>7, <2>1, <2>2 DEF Follows
  <2>. QED  BY <2>3 DEF w
<1>. QED  BY <1>2, <1>3, <1>4, <1>5, <1>6, <1>7

\* Of a chained record, the part that a step needs.
LEMMA ChainedStep ==
    ASSUME IInv, Chained, version' \in Nat, version <= version',
           req' = [r \in Slot |-> req'[r]],
           \A r \in Slot : req[r] # None => Follows(req[r], req'[r], version'),
           \A r \in Slot : req[r] = None /\ req'[r] # None =>
              /\ \A s \in Slot : req'[s] # None => s <= r
              /\ req'[r].version = 0 /\ req'[r].reply = "none"
              /\ req'[r].reloads # None =>
                    /\ req'[r].reloads \in Slot /\ req'[req'[r].reloads] # None
                    /\ req'[req'[r].reloads].at = "received"
    PROVE  Chained'
<1>1. /\ req \in [Slot -> Request \union {None}] /\ version \in Nat
      /\ \A r \in Slot : req[r] # None => req[r] \in Request /\ req[r].version \in Nat
      /\ \A r \in Slot : req[r] # None /\ req[r].reloads # None => req[r].reloads \in Slot
      /\ Slot \subseteq Nat
  BY DEF IInv, Request, Slot
<1>. SUFFICES ASSUME NEW r \in Slot, req'[r] # None
              PROVE  /\ req'[r].version <= version'
                     /\ req'[r].reloads # None =>
                          LET x == req'[r].reloads IN
                          /\ req'[x] # None /\ req'[x].at = "received"
                          /\ \A s \in Slot :
                                /\ req'[s] # None /\ r <= s
                                /\ req'[s].kind \notin Forms /\ req'[s].reply = "ok"
                                => req'[x].version <= req'[s].version
  BY DEF Chained
<1>2. CASE req[r] = None
  <2>1. /\ req'[r].version = 0 /\ req'[r].reply = "none"
        /\ \A s \in Slot : req'[s] # None => s <= r
        /\ req'[r].reloads # None =>
              /\ req'[req'[r].reloads] # None /\ req'[req'[r].reloads].at = "received"
    BY <1>2
  <2>2. ASSUME NEW s \in Slot, req'[s] # None, r <= s PROVE req'[s].reply # "ok"
    <3>1. s = r
      BY <1>1, <2>1, <2>2
    <3>. QED  BY <2>1, <3>1
  <2>. QED  BY <2>1, <2>2
<1>3. CASE req[r] # None
  <2>. DEFINE x == req'[r].reloads
  <2>1. Follows(req[r], req'[r], version')
    BY <1>3
  <2>2. req'[r].version <= version'
    BY <2>1 DEF Follows
  <2>3. ASSUME x # None
        PROVE  /\ req'[x] # None /\ req'[x].at = "received"
               /\ \A s \in Slot :
                     req'[s] # None /\ r <= s /\ req'[s].kind \notin Forms /\ req'[s].reply = "ok"
                        => req'[x].version <= req'[s].version
    <3>1. x = req[r].reloads /\ x \in Slot
      BY <1>1, <1>3, <2>1, <2>3 DEF Follows
    <3>2. /\ req[x] # None /\ req[x].at = "received" /\ req[x].version <= version
          /\ \A s \in Slot :
                req[s] # None /\ r <= s /\ req[s].kind \notin Forms /\ req[s].reply = "ok"
                   => req[x].version <= req[s].version
      BY <1>3, <2>3, <3>1 DEF Chained
    <3>3. Follows(req[x], req'[x], version')
      BY <3>1, <3>2
    <3>4. /\ req'[x] # None /\ req'[x].at = "received" /\ req'[x].version <= req[x].version
          /\ req'[x].version \in Nat /\ req[x].version \in Nat
      BY <1>1, <3>1, <3>2, <3>3, DashboardAssumption DEF Follows, Request
    <3>5. ASSUME NEW s \in Slot, req'[s] # None, r <= s, req'[s].kind \notin Forms, req'[s].reply = "ok"
          PROVE  req'[x].version <= req'[s].version
      <4>1. req[s] # None
        BY <3>5
      <4>2. Follows(req[s], req'[s], version') /\ req[s].version \in Nat
        BY <1>1, <4>1
      <4>3. CASE req'[s].version = version'
        BY <1>1, <3>2, <3>4, <4>3
      <4>4. CASE req[s].kind \notin Forms /\ req[s].reply = "ok" /\ req'[s].version = req[s].version
        <5>1. req[x].version <= req[s].version
          BY <3>2, <3>5, <4>1, <4>4
        <5>. QED  BY <3>4, <4>2, <4>4, <5>1
      <4>. QED  BY <3>5, <4>2, <4>3, <4>4 DEF Follows
    <3>. QED  BY <3>4, <3>5
  <2>. QED  BY <2>2, <2>3
<1>. QED  BY <1>2, <1>3

LEMMA Counts ==
    /\ IsFiniteSet(Sent) /\ Cardinality(Sent) \in Nat
    /\ IsFiniteSet(Owed) /\ Cardinality(Owed) \in Nat
    /\ MaxRequests \in Nat /\ Owed \subseteq Sent /\ Sent \subseteq Slot
<1>1. MaxRequests \in Nat
  BY DashboardAssumption
<1>2. IsFiniteSet(Slot)
  BY <1>1, FS_Interval DEF Slot
<1>3. Owed \subseteq Sent /\ Sent \subseteq Slot
  BY DEF Owed, Sent
<1>. QED  BY <1>1, <1>2, <1>3, FS_Subset, FS_CardinalityType

\* While there is room the next number is free, and the highest.
LEMMA NextFree ==
    ASSUME Numbered, Cardinality(Sent) < MaxRequests
    PROVE  /\ NextSlot \in Slot /\ NextSlot \notin Sent /\ req[NextSlot] = None
           /\ \A s \in Sent : s < NextSlot
<1>1. NextSlot \in Slot
  BY Counts DEF NextSlot, Slot
<1>2. \A s \in Sent : s < NextSlot
  BY Counts DEF Numbered, NextSlot
<1>. QED  BY <1>1, <1>2, Counts DEF Sent, Slot

LEMMA NumberedStep ==
    ASSUME IInv, Numbered, req' = [r \in Slot |-> req'[r]],
           \/ Sent' = Sent /\ Owed' \subseteq Owed
           \/ /\ Sent' = Sent \union {NextSlot}
              /\ \/ Room(1) /\ Owed' \subseteq Owed
                 \/ Room(2) /\ Owed' \subseteq Owed \union {NextSlot}
                 \/ \E x \in Owed : Owed' \subseteq Owed \ {x}
    PROVE  Numbered'
<1>1. /\ Cardinality(Sent) \in Nat /\ Cardinality(Owed) \in Nat /\ MaxRequests \in Nat
      /\ IsFiniteSet(Sent) /\ IsFiniteSet(Owed)
      /\ Cardinality(Sent) + Cardinality(Owed) <= MaxRequests /\ Sent = 1..Cardinality(Sent)
  BY Counts DEF Numbered
<1>2. ASSUME NEW T, Owed' \subseteq T, IsFiniteSet(T)
      PROVE  Cardinality(Owed') <= Cardinality(T) /\ Cardinality(Owed') \in Nat /\ Cardinality(T) \in Nat
  BY <1>2, FS_Subset, FS_CardinalityType
<1>3. CASE Sent' = Sent /\ Owed' \subseteq Owed
  <2>1. Cardinality(Owed') <= Cardinality(Owed) /\ Cardinality(Owed') \in Nat
    BY <1>1, <1>2, <1>3
  <2>. QED  BY <1>1, <1>3, <2>1 DEF Numbered
<1>4. CASE /\ Sent' = Sent \union {NextSlot}
           /\ \/ Room(1) /\ Owed' \subseteq Owed
              \/ Room(2) /\ Owed' \subseteq Owed \union {NextSlot}
              \/ \E x \in Owed : Owed' \subseteq Owed \ {x}
  <2>1. Cardinality(Owed') \in Nat /\ Cardinality(Sent) + 1 + Cardinality(Owed') <= MaxRequests
    <3>1. CASE Room(1) /\ Owed' \subseteq Owed
      BY <1>1, <1>2, <3>1 DEF Room
    <3>2. CASE Room(2) /\ Owed' \subseteq Owed \union {NextSlot}
      <4>1. IsFiniteSet(Owed \union {NextSlot})
            /\ Cardinality(Owed \union {NextSlot}) <= Cardinality(Owed) + 1
        <5>1. NextSlot \notin Owed
          BY <1>1, Counts DEF NextSlot
        <5>2. /\ IsFiniteSet(Owed \union {NextSlot})
              /\ Cardinality(Owed \union {NextSlot}) = Cardinality(Owed) + 1
          BY <1>1, <5>1, FS_AddElement
        <5>. QED  BY <1>1, <5>2
      <4>. QED  BY <1>1, <1>2, <3>2, <4>1 DEF Room
    <3>3. ASSUME NEW x \in Owed, Owed' \subseteq Owed \ {x}
          PROVE  Cardinality(Owed') \in Nat /\ Cardinality(Sent) + 1 + Cardinality(Owed') <= MaxRequests
      <4>1. IsFiniteSet(Owed \ {x}) /\ Cardinality(Owed \ {x}) = Cardinality(Owed) - 1
        BY <1>1, FS_RemoveElement
      <4>. QED  BY <1>1, <1>2, <3>3, <4>1
    <3>. QED  BY <1>4, <3>1, <3>2, <3>3
  <2>2. NextSlot = Cardinality(Sent) + 1
    BY DEF NextSlot
  <2>3. NextSlot \notin Sent /\ Sent' = 1..Cardinality(Sent) + 1
    BY <1>1, <1>4, <2>2
  <2>4. Cardinality(Sent') = Cardinality(Sent) + 1
    BY <1>1, <1>4, <2>3, FS_AddElement
  <2>. QED  BY <2>1, <2>3, <2>4 DEF Numbered
<1>. QED  BY <1>3, <1>4

LEMMA RoomFree ==
    ASSUME Numbered, Room(1) \/ Room(2) \/ Owed # {}
    PROVE  /\ NextSlot \in Slot /\ req[NextSlot] = None
           /\ \A s \in Sent : s < NextSlot
<1>1. Owed # {} => Cardinality(Owed) # 0
  BY Counts, FS_EmptySet
<1>2. Cardinality(Sent) < MaxRequests
  BY <1>1, Counts DEF Numbered, Room
<1>. QED  BY <1>2, NextFree

LEMMA NewIs ==
    ASSUME NEW t, NEW kind, NEW form, NEW token, NEW s, NEW new, new = NewRequest(t, kind, form, token, s)
    PROVE  /\ new.tab = t /\ new.kind = kind /\ new.reloads = s /\ new.at = "sent"
           /\ new.reply = "none" /\ new.version = 0
  BY DEF NewRequest

\* The records go on, none is new: numbers and versions stay in order.
LEMMA RecordsStay ==
    ASSUME IInv, IInv', Numbered, Chained, version <= version',
           \A r \in Slot : IF req[r] = None THEN req'[r] = None
                           ELSE Follows(req[r], req'[r], version'),
           OwedIn(req') \subseteq Owed
    PROVE  Numbered' /\ Chained'
<1>1. /\ \A r \in Slot : req'[r] # None <=> req[r] # None
      /\ version \in Nat /\ version' \in Nat /\ req' = [r \in Slot |-> req'[r]]
  BY DashboardAssumption DEF Follows, IInv
<1>2. Owed' = OwedIn(req') /\ Sent' = Sent
  BY <1>1 DEF Owed, OwedIn, Sent
<1>3. Numbered'
  BY <1>1, <1>2, NumberedStep
<1>4. Chained'
  BY <1>1, ChainedStep
<1>. QED  BY <1>3, <1>4

\* What a load is sent for has come.
HasCome(g, s) == s # None => g[s] # None /\ g[s].at = "received"

\* There is room for a request, or an answer has made it.
Affords(g, kind) ==
    \/ Room(1) /\ kind \notin Simulations \union {"login"} /\ OwedIn(g) \subseteq Owed
    \/ Room(2) /\ OwedIn(g) \subseteq Owed
    \/ /\ kind \notin Simulations \union {"login"}
       /\ \E x \in Owed : OwedIn(g) \subseteq Owed \ {x}

\* They go on as g, and a request is sent.
LEMMA RecordsSend ==
    ASSUME IInv, IInv', Numbered, Chained, version <= version',
           NEW g, g = [r \in Slot |-> g[r]],
           \A r \in Slot : IF req[r] = None THEN g[r] = None ELSE Follows(req[r], g[r], version'),
           NEW t \in Tab, NEW kind \in Panel \union Simulations \union Forms,
           NEW form \in Form \union {None}, NEW token \in Token \union {None},
           NEW s \in Slot \union {None}, HasCome(g, s),
           NEW new, new = NewRequest(t, kind, form, token, s),
           req' = [g EXCEPT ![NextSlot] = new],
           Affords(g, kind)
    PROVE  /\ Numbered' /\ Chained'
           /\ NextSlot \in Slot /\ req[NextSlot] = None /\ req'[NextSlot] = new /\ new # None
           /\ \A r \in Slot \ {NextSlot} : req'[r] = g[r]
           /\ \A r \in Sent : r < NextSlot
<1>. DEFINE n == NextSlot
<1>1. /\ \A r \in Slot : g[r] # None <=> req[r] # None
      /\ version \in Nat /\ version' \in Nat
  BY DashboardAssumption DEF Follows, IInv
<1>2. Owed' = OwedIn(req')
  BY DEF Owed, OwedIn, Sent
<1>3. n \in Slot /\ req[n] = None /\ g[n] = None /\ \A x \in Sent : x < n
  <2>1. Room(1) \/ Room(2) \/ Owed # {}
    BY DEF Affords
  <2>. QED  BY <2>1, RoomFree
<1>4. new.kind = kind /\ new.reloads = s /\ new.reply = "none" /\ new.version = 0
  BY NewIs
<1>5. new # None
  <2>1. new \in Request
    BY DEF NewRequest, Request
  <2>. QED  BY <2>1, DashboardAssumption
<1>. HIDE DEF n
<1>6. req'[n] = new /\ \A r \in Slot \ {n} : req'[r] = g[r]
  BY <1>3 DEF n
<1>7. Sent' = Sent \union {n}
  BY <1>1, <1>3, <1>5, <1>6 DEF Sent
<1>8. /\ Owed' \subseteq OwedIn(g) \union {n}
      /\ new.kind \notin Simulations \union {"login"} => Owed' \subseteq OwedIn(g)
  BY <1>2, <1>6 DEF OwedIn
<1>9. \/ Room(1) /\ Owed' \subseteq Owed
      \/ Room(2) /\ Owed' \subseteq Owed \union {n}
      \/ \E x \in Owed : Owed' \subseteq Owed \ {x}
  BY <1>4, <1>8 DEF Affords
<1>10. req' = [r \in Slot |-> req'[r]]
  OBVIOUS
<1>11. Numbered'
  BY <1>7, <1>9, <1>10, NumberedStep DEF n
<1>12. \A r \in Slot : req[r] # None => Follows(req[r], req'[r], version')
  BY <1>3, <1>6
<1>13. \A r \in Slot : req[r] = None /\ req'[r] # None =>
          /\ \A x \in Slot : req'[x] # None => x <= r
          /\ req'[r].version = 0 /\ req'[r].reply = "none"
          /\ req'[r].reloads # None =>
                /\ req'[r].reloads \in Slot /\ req'[req'[r].reloads] # None
                /\ req'[req'[r].reloads].at = "received"
  <2>1. \A r \in Slot : req[r] = None /\ req'[r] # None => r = n
    BY <1>1, <1>6
  <2>2. \A x \in Slot : req'[x] # None => x <= n
    BY <1>1, <1>3, <1>6 DEF Sent, Slot
  <2>3. s # None => s \in Slot /\ s # n
    BY <1>3 DEF HasCome
  <2>4. s # None => req'[s] # None /\ req'[s].at = "received"
    BY <1>6, <2>3 DEF HasCome
  <2>. QED  BY <1>4, <1>6, <2>1, <2>2, <2>3, <2>4
<1>14. Chained'
  BY <1>1, <1>10, <1>12, <1>13, ChainedStep
<1>. QED  BY <1>3, <1>5, <1>6, <1>11, <1>14 DEF n

\* But for x, what is on its way to tab t stays so and what has come stays as it is.
Keeps(t, x) ==
    \A r \in Slot \ {x} :
        req[r] # None /\ req[r].tab = t /\ req[r].kind \notin Forms =>
           IF req[r].at = "received" THEN req'[r] = req[r]
           ELSE /\ req'[r] # None /\ req'[r].tab = t /\ req'[r].kind = req[r].kind
                /\ req'[r].reloads = req[r].reloads /\ req'[r].at # "received"

\* No simulation is started in tab t.
StartsNone(t) == \A r \in Slot : Simulates(t, r)' => Simulates(t, r)

LEMMA FrameRunning ==
    ASSUME NEW t \in Tab, NEW x, Keeps(t, x), StartsNone(t),
           x \in Slot => ~Has(t, x) /\ ~Simulates(t, x),
           page'[t].running = page[t].running, page'[t].type = page[t].type,
           page'[t].result = page[t].result, page[t].result \in Slot \union {None},
           RunningOK(t), ResultOK(t)
    PROVE  RunningOK(t)' /\ ResultOK(t)'
<1>0. Simulations \cap Forms = {}
  BY DEF Simulations, Forms
<1>1. \A r \in Slot : Simulates(t, r) => Simulates(t, r)' /\ req'[r].kind = req[r].kind
  BY <1>0 DEF Keeps, Simulates, Awaits
<1>2. \A r \in Slot : Simulates(t, r)' => Simulates(t, r) /\ req'[r].kind = req[r].kind
  BY <1>1 DEF StartsNone
<1>3. RunningOK(t)'
  <2>1. \A r \in Slot : Simulates(t, r)' =>
           page'[t].running = {req'[r].kind} /\ page'[t].type = req'[r].kind
    BY <1>2 DEF RunningOK
  <2>2. \A r, s \in Slot : Simulates(t, r)' /\ Simulates(t, s)' => r = s
    BY <1>2 DEF RunningOK
  <2>3. page'[t].running # {} => \E r \in Slot : Simulates(t, r)'
    BY <1>1 DEF RunningOK
  <2>. QED  BY <2>1, <2>2, <2>3 DEF RunningOK
<1>4. ResultOK(t)'
  <2>1. \A r \in Slot : Has(t, r) /\ req[r].kind \in Simulations => req'[r] = req[r]
    BY <1>0 DEF Keeps, Has
  <2>. QED  BY <2>1 DEF ResultOK, Has
<1>. QED  BY <1>3, <1>4

LEMMA FrameShown ==
    ASSUME NEW t \in Tab, NEW x, Keeps(t, x), x \in Slot => ~Has(t, x),
           page[t].shown \in [Panel -> Slot \union {None}], page'[t].shown = page[t].shown,
           ShownOK(t)
    PROVE  /\ ShownOK(t)'
           /\ \A q \in Panel : page[t].shown[q] # None =>
                 req'[page[t].shown[q]] = req[page[t].shown[q]]
<1>1. \A q \in Panel : q \notin Forms
  BY DashboardAssumption DEF Panels, Forms
<1>2. \A r \in Slot : Has(t, r) /\ req[r].kind \in Panel => req'[r] = req[r]
  BY <1>1 DEF Keeps, Has
<1>. QED  BY <1>2 DEF ShownOK, Has

LEMMA FrameSpinner ==
    ASSUME NEW t \in Tab, NEW x, Keeps(t, x),
           x \in Slot => ~(Awaits(t, x) /\ req[x].kind = "ml_analytics"),
           page'[t].analytics => page[t].analytics, SpinnerOK(t)
    PROVE  SpinnerOK(t)'
<1>. SUFFICES ASSUME page'[t].analytics
              PROVE  \E r \in Slot : Awaits(t, r)' /\ req'[r].kind = "ml_analytics"
  BY DEF SpinnerOK
<1>1. PICK r \in Slot : Awaits(t, r) /\ req[r].kind = "ml_analytics"
  BY DEF SpinnerOK
<1>. QED  BY <1>1 DEF Keeps, Awaits, Forms

LEMMA FrameFresh ==
    ASSUME NEW t \in Tab, NEW x, Keeps(t, x),
           x \in Slot => ~Has(t, x) /\ (Awaits(t, x) => req[x].kind # "overview"),
           page[t].shown \in [Panel -> Slot \union {None}], page'[t].shown = page[t].shown,
           page'[t].result = page[t].result, page[t].result \in Slot \union {None},
           ResultOK(t), ShownOK(t), FreshOK(t)
    PROVE  FreshOK(t)'
<1>. SUFFICES ASSUME page[t].result # None PROVE \E r \in Slot : Reloads(t, r, page[t].result)'
  BY DEF FreshOK
<1>1. PICK r \in Slot : Reloads(t, r, page[t].result)
  BY DEF FreshOK
<1>2. PICK s \in Slot : s = page[t].result
  OBVIOUS
<1>3. "overview" \in Panel /\ "overview" \notin Forms /\ Simulations \cap Forms = {}
  BY DashboardAssumption DEF Panels, Forms, Simulations
<1>4. req'[s] = req[s]
  BY <1>2, <1>3 DEF ResultOK, Has, Keeps
<1>5. \A q \in Panel : page[t].shown[q] # None => req'[page[t].shown[q]] = req[page[t].shown[q]]
  BY FrameShown
<1>6. /\ req[r] # None /\ req[r].tab = t /\ req[r].kind = "overview" /\ req[r].reloads = s /\ r # x
  BY <1>1, <1>2 DEF Reloads, Awaits, Has
<1>7. CASE req[r].at # "received"
  <2>1. /\ req'[r] # None /\ req'[r].tab = t /\ req'[r].kind = "overview"
        /\ req'[r].reloads = s /\ req'[r].at # "received"
    BY <1>3, <1>6, <1>7 DEF Keeps
  <2>. QED  BY <1>2, <2>1 DEF Reloads
<1>8. CASE req[r].at = "received"
  <2>1. req'[r] = req[r]
    BY <1>3, <1>6, <1>8 DEF Keeps
  <2>2. PICK shows : shows = page[t].shown["overview"]
    OBVIOUS
  <2>3. shows # None => req'[shows] = req[shows]
    BY <1>3, <1>5, <2>2
  <2>. QED  BY <1>1, <1>2, <1>4, <2>1, <2>2, <2>3 DEF Reloads
<1>. QED  BY <1>7, <1>8

\* A tab whose page stays as it is.
LEMMA FrameTab ==
    ASSUME IInv, NEW t \in Tab, NEW x, Keeps(t, x), StartsNone(t),
           x \in Slot => ~Has(t, x) /\ (Awaits(t, x) => req[x].kind \in Forms),
           page'[t] = page[t], PageOK(t)
    PROVE  PageOK(t)'
<1>1. /\ page[t].result \in Slot \union {None}
      /\ page[t].shown \in [Panel -> Slot \union {None}]
  BY DEF IInv, Page
<1>2. x \in Slot =>
         /\ ~Has(t, x) /\ ~Simulates(t, x)
         /\ ~(Awaits(t, x) /\ req[x].kind = "ml_analytics")
         /\ (Awaits(t, x) => req[x].kind # "overview")
  BY DEF Simulates, Simulations, Forms
<1>3. RunningOK(t)' /\ ResultOK(t)'
  BY <1>1, <1>2, FrameRunning DEF PageOK
<1>4. ShownOK(t)'
  BY <1>1, <1>2, FrameShown DEF PageOK
<1>5. SpinnerOK(t)'
  BY <1>2, FrameSpinner DEF PageOK
<1>6. FreshOK(t)'
  BY <1>1, <1>2, FrameFresh DEF PageOK
<1>. QED  BY <1>3, <1>4, <1>5, <1>6 DEF PageOK

\* A tab whose requests and whose page stay as they are.
LEMMA OtherTab ==
    ASSUME IInv, NEW t \in Tab, page'[t] = page[t], PageOK(t),
           \A r \in Slot :
              \/ req'[r] = req[r]
              \/ (req[r] = None \/ req[r].tab # t) /\ (req'[r] = None \/ req'[r].tab # t)
    PROVE  PageOK(t)'
<1>1. Keeps(t, None) /\ StartsNone(t)
  BY DEF Keeps, StartsNone, Simulates, Awaits
<1>. QED  BY <1>1, FrameTab, DashboardAssumption

-----------------------------------------------------------------------------
\* The server answers, or looks up an email: the pages wait on.
LEMMA AnswerStep ==
    ASSUME AllInv, IInv', version <= version', UNCHANGED page,
           NEW r \in Slot, req[r] # None, req[r].at # "received",
           NEW w, Follows(req[r], w, version'), w.at # "received",
           w.tab = req[r].tab, w.kind = req[r].kind, w.reloads = req[r].reloads,
           req' = [req EXCEPT ![r] = w]
    PROVE  AllInv'
<1>1. /\ req = [s \in Slot |-> req[s]] /\ version' \in Nat
      /\ \A s \in Slot : req[s] # None => req[s] \in Request /\ req[s].version <= version'
  <2>1. \A s \in Slot : req[s] # None => req[s].version \in Nat /\ req[s].version <= version
    BY DEF AllInv, IInv, Request, Chained
  <2>. QED  BY <2>1 DEF AllInv, IInv
<1>2. w # None
  BY DashboardAssumption DEF Follows
<1>3. req'[r] = w /\ \A s \in Slot \ {r} : req'[s] = req[s]
  BY <1>1
<1>4. \A s \in Slot : IF req[s] = None THEN req'[s] = None ELSE Follows(req[s], req'[s], version')
  BY <1>1, <1>3, FollowsAll
<1>5. OwedIn(req') \subseteq Owed
  BY <1>3 DEF OwedIn, Owed, Sent
<1>6. Numbered' /\ Chained'
  BY <1>4, <1>5, RecordsStay DEF AllInv
<1>7. PagesOK'
  <2>. SUFFICES ASSUME NEW t \in Tab PROVE PageOK(t)'
    BY DEF PagesOK
  <2>1. Keeps(t, None) /\ StartsNone(t)
    BY <1>2, <1>3 DEF Keeps, StartsNone, Simulates, Awaits
  <2>. QED  BY <2>1, FrameTab, DashboardAssumption DEF AllInv, PagesOK
<1>. QED  BY <1>6, <1>7 DEF AllInv

LEMMA ServeStep ==
    ASSUME AllInv, IInv', NEW r \in Slot, Serve(r) \/ Fail(r) PROVE AllInv'
<1>1. /\ req[r] # None /\ req[r] \in Request /\ req[r].at # "received"
      /\ req[r].version <= version /\ version \in Nat
      /\ req = [s \in Slot |-> req[s]]
  BY DEF Serve, Fail, AllInv, IInv, Chained
<1>2. UNCHANGED page
  BY DEF Serve, Fail
<1>3. /\ version' \in Nat /\ version <= version'
      /\ \/ req' = [req EXCEPT ![r].at = "checked"]
         \/ \E reply \in {"ok", "401", "403", "error"} : \E u \in 0..version' :
               Answer(r, reply, u) /\ (reply = "ok" /\ req[r].kind \notin Forms => u = version')
  <2>1. CASE Fail(r)
    BY <1>1, <2>1 DEF Fail
  <2>2. CASE Serve(r) /\ req[r].kind \in Forms
    <3>1. ServeLogin(r) \/ ServeRegister(r)
      BY <2>2 DEF Serve, Forms
    <3>. QED  BY <1>1, <2>2, <3>1 DEF ServeLogin, ServeRegister
  <2>3. CASE Serve(r) /\ req[r].kind \notin Forms
    <3>1. ServeData(r)
      BY <2>3 DEF Serve, Forms
    <3>2. \/ version' = version /\ \E reply \in {"401", "403"} : Answer(r, reply, 0)
          \/ \E c \in Nat : version' = version + c /\ Answer(r, "ok", version')
      BY <3>1 DEF ServeData
    <3>. QED  BY <1>1, <3>2
  <2>. QED  BY <2>1, <2>2, <2>3
<1>4. req[r].version <= version'
  <2>1. req[r].version \in Nat
    BY <1>1 DEF Request
  <2>. QED  BY <1>1, <1>3, <2>1
<1>5. CASE req' = [req EXCEPT ![r].at = "checked"]
  <2>. DEFINE w == [req[r] EXCEPT !.at = "checked"]
  <2>1. req' = [req EXCEPT ![r] = w] /\ w.at # "received"
        /\ w.tab = req[r].tab /\ w.kind = req[r].kind /\ w.reloads = req[r].reloads
    BY <1>1, <1>5 DEF Request
  <2>2. Follows(req[r], w, version')
    BY <1>1, <1>3, <1>4, FollowsAll
  <2>. HIDE DEF w
  <2>. QED  BY <1>1, <1>2, <1>3, <2>1, <2>2, AnswerStep
<1>6. ASSUME NEW reply \in {"ok", "401", "403", "error"}, NEW u \in 0..version', Answer(r, reply, u),
             reply = "ok" /\ req[r].kind \notin Forms => u = version'
      PROVE  AllInv'
  <2>. DEFINE w == [req[r] EXCEPT !.at = "answered", !.reply = reply, !.version = u]
  <2>1. req' = [req EXCEPT ![r] = w] /\ w.at # "received"
        /\ w.tab = req[r].tab /\ w.kind = req[r].kind /\ w.reloads = req[r].reloads
    BY <1>1, <1>6 DEF Request, Answer
  <2>2. Follows(req[r], w, version')
    BY <1>1, <1>3, <1>4, <1>6, FollowsAll
  <2>. HIDE DEF w
  <2>. QED  BY <1>1, <1>2, <1>3, <2>1, <2>2, AnswerStep
<1>. QED  BY <1>3, <1>5, <1>6

\* Nothing that the requests and the pages depend on changes.
LEMMA IdleStep == ASSUME AllInv, IInv', UNCHANGED <<req, page, version>> PROVE AllInv'
<1>1. Numbered' /\ Chained'
  BY DEF AllInv, Numbered, Chained, Sent, Owed
<1>2. \A t \in Tab : PageOK(t)'
  BY OtherTab DEF AllInv, PagesOK
<1>. QED  BY <1>1, <1>2 DEF AllInv, PagesOK

-----------------------------------------------------------------------------
LEMMA InitAll == Init => AllInv
<1>. SUFFICES ASSUME Init PROVE AllInv
  OBVIOUS
<1>1. IInv
  BY InitOK
<1>2. \A r \in Slot : req[r] = None
  BY DEF Init
<1>3. Sent = {} /\ Owed = {}
  BY <1>2 DEF Sent, Owed
<1>4. Cardinality(Sent) = 0 /\ Cardinality(Owed) = 0
  BY <1>3, FS_EmptySet
<1>5. Numbered
  BY <1>3, <1>4, Counts DEF Numbered
<1>6. Chained
  BY <1>2 DEF Chained
<1>7. PagesOK
  <2>. SUFFICES ASSUME NEW t \in Tab PROVE PageOK(t)
    BY DEF PagesOK
  <2>1. /\ page[t].running = {} /\ page[t].result = None /\ page[t].analytics = FALSE
        /\ \A q \in Panel : page[t].shown[q] = None
    BY DEF Init, Blank
  <2>2. \A r \in Slot : ~Simulates(t, r)
    BY <1>2 DEF Simulates, Awaits
  <2>. QED  BY <2>1, <2>2 DEF PageOK, RunningOK, ResultOK, ShownOK, SpinnerOK, FreshOK
<1>. QED  BY <1>1, <1>5, <1>6, <1>7 DEF AllInv

\* The records as they are: they follow themselves.
LEMMA SelfFollows ==
    ASSUME AllInv, version' = version
    PROVE  /\ req = [r \in Slot |-> req[r]]
           /\ version \in Nat /\ version <= version'
           /\ \A r \in Slot : req[r] # None =>
                 /\ req[r] \in Request /\ req[r] # None /\ req[r].version <= version'
                 /\ Follows(req[r], req[r], version')
           /\ OwedIn(req) = Owed
<1>1. /\ req = [r \in Slot |-> req[r]] /\ version \in Nat
      /\ \A r \in Slot : req[r] # None => req[r] \in Request /\ req[r].version <= version
  BY DEF AllInv, IInv, Chained
<1>2. ASSUME NEW r \in Slot, req[r] # None PROVE Follows(req[r], req[r], version')
  <2>1. req[r] \in Request /\ version' \in Nat /\ req[r].version <= version'
    BY <1>1, <1>2
  <2>. QED  BY <2>1, FollowsAll
<1>. QED  BY <1>1, <1>2, OwedIs

LEMMA OpenPageStep ==
    ASSUME AllInv, IInv', NEW t \in Tab, OpenPage(t) PROVE AllInv'
<1>0. PICK left : left = [r \in Slot |->
                       IF req[r] = None \/ req[r].tab # t THEN req[r]
                       ELSE IF Outlives(r) THEN [req[r] EXCEPT !.tab = None] ELSE Settled]
  OBVIOUS
<1>1. PICK new : new = NewRequest(t, "overview", None, stored, None)
  OBVIOUS
<1>2. /\ page' = [page EXCEPT ![t] = Blank(stored # None)] /\ version' = version
      /\ \/ req' = left
         \/ Room(1) /\ req' = [left EXCEPT ![NextSlot] = new]
  BY <1>0, <1>1 DEF OpenPage
<1>3. /\ left = [r \in Slot |-> left[r]]
      /\ \A r \in Slot : IF req[r] = None THEN left[r] = None ELSE Follows(req[r], left[r], version')
  <2>1. \A r \in Slot : req[r] # None => Follows(req[r], left[r], version')
    BY <1>0, <1>2, SelfFollows, FollowsAll
  <2>. QED  BY <1>0, <2>1
<1>4. \A r \in Slot :
         \/ left[r] = req[r] /\ (req[r] = None \/ req[r].tab # t)
         \/ left[r] # None /\ left[r].tab = None /\ req[r] # None /\ req[r].tab = t
  <2>. TAKE r \in Slot
  <2>1. CASE req[r] = None \/ req[r].tab # t
    BY <1>0, <2>1
  <2>2. CASE req[r] # None /\ req[r].tab = t
    <3>1. left[r] = Settled \/ left[r] = [req[r] EXCEPT !.tab = None]
      BY <1>0, <2>2
    <3>2. left[r] \in Request
      BY <1>3, <2>2 DEF Follows
    <3>3. left[r].tab = None
      BY <3>1, <1>2, <2>2, SelfFollows DEF Settled, Request
    <3>. QED  BY <2>2, <3>2, <3>3, DashboardAssumption
  <2>. QED  BY <2>1, <2>2
<1>5. OwedIn(left) \subseteq Owed
  <2>1. \A r \in Slot : left[r] # None /\ left[r].tab # None => left[r] = req[r]
    BY <1>4
  <2>. QED  BY <2>1, OwedIs DEF OwedIn
<1>6. /\ Numbered' /\ Chained'
      /\ \A r \in Slot : \/ req'[r] = left[r]
                         \/ req[r] = None /\ left[r] = None /\ req'[r] = new /\ new # None
  <2>1. CASE req' = left
    <3>1. Numbered' /\ Chained'
      BY <1>2, <1>3, <1>5, <2>1, SelfFollows, RecordsStay DEF AllInv
    <3>. QED  BY <2>1, <3>1
  <2>2. CASE Room(1) /\ req' = [left EXCEPT ![NextSlot] = new]
    <3>1. /\ "overview" \in Panel \union Simulations \union Forms
          /\ "overview" \notin Simulations \union {"login"}
      BY DashboardAssumption DEF Simulations
    <3>2. stored \in Token \union {None} /\ version <= version'
      BY <1>2, SelfFollows DEF AllInv, IInv, TokensOK
    <3>3. Affords(left, "overview") /\ HasCome(left, None)
      BY <1>5, <2>2, <3>1 DEF Affords, HasCome
    <3>4. /\ Numbered' /\ Chained'
          /\ req[NextSlot] = None /\ req'[NextSlot] = new /\ new # None
          /\ \A r \in Slot \ {NextSlot} : req'[r] = left[r]
      BY <1>1, <1>3, <2>2, <3>1, <3>2, <3>3, RecordsSend DEF AllInv
    <3>. QED  BY <1>3, <3>4
  <2>. QED  BY <1>2, <2>1, <2>2
<1>7. PagesOK'
  <2>. SUFFICES ASSUME NEW u \in Tab PROVE PageOK(u)'
    BY DEF PagesOK
  <2>1. new.tab = t /\ new.kind = "overview"
    BY <1>1, NewIs
  <2>2. page'[t] = Blank(stored # None) /\ (u # t => page'[u] = page[u])
    BY <1>2 DEF AllInv, IInv
  <2>3. CASE u = t
    <3>1. \A r \in Slot : ~Simulates(t, r)'
      BY <1>4, <1>6, <2>1, DashboardAssumption DEF Simulates, Awaits, Simulations
    <3>2. /\ page'[t].running = {} /\ page'[t].result = None /\ page'[t].analytics = FALSE
          /\ \A q \in Panel : page'[t].shown[q] = None
      BY <2>2 DEF Blank
    <3>. QED  BY <2>3, <3>1, <3>2 DEF PageOK, RunningOK, ResultOK, ShownOK, SpinnerOK, FreshOK
  <2>4. CASE u # t
    <3>1. \A r \in Slot :
              \/ req'[r] = req[r]
              \/ (req[r] = None \/ req[r].tab # u) /\ (req'[r] = None \/ req'[r].tab # u)
      BY <1>4, <1>6, <2>1, <2>4, DashboardAssumption
    <3>. QED  BY <2>2, <2>4, <3>1, OtherTab DEF AllInv, PagesOK
  <2>. QED  BY <2>3, <2>4
<1>. QED  BY <1>6, <1>7 DEF AllInv

\* Tab t sends a request of its own accord; the other tabs do not notice.
LEMMA SendStep ==
    ASSUME AllInv, IInv', NEW t \in Tab,
           NEW kind \in Panel \union Simulations \union Forms,
           NEW form \in Form \union {None}, NEW token \in Token \union {None},
           NEW new, new = NewRequest(t, kind, form, token, None),
           req' = [req EXCEPT ![NextSlot] = new], version' = version,
           Room(2) \/ (Room(1) /\ kind \notin Simulations \union {"login"}),
           NEW p, page' = page \/ page' = [page EXCEPT ![t] = p]
    PROVE  /\ Numbered' /\ Chained' /\ \A u \in Tab : u # t => PageOK(u)'
           /\ NextSlot \in Slot /\ req[NextSlot] = None /\ req'[NextSlot] = new /\ new # None
           /\ \A r \in Slot \ {NextSlot} : req'[r] = req[r]
           /\ Keeps(t, None) /\ (kind \notin Simulations => StartsNone(t))
<1>1. /\ req = [r \in Slot |-> req[r]] /\ version <= version' /\ OwedIn(req) \subseteq Owed
      /\ \A r \in Slot : IF req[r] = None THEN req[r] = None ELSE Follows(req[r], req[r], version')
  BY SelfFollows
<1>2. /\ Numbered' /\ Chained'
      /\ NextSlot \in Slot /\ req[NextSlot] = None /\ req'[NextSlot] = new /\ new # None
      /\ \A r \in Slot \ {NextSlot} : req'[r] = req[r]
  <2>1. None \in Slot \union {None}
    OBVIOUS
  <2>2. Affords(req, kind) /\ HasCome(req, None)
    BY <1>1 DEF Affords, HasCome
  <2>3. IInv /\ Numbered /\ Chained
    BY DEF AllInv
  <2>. QED  BY <1>1, <2>1, <2>2, <2>3, RecordsSend
<1>3. new.tab = t /\ new.kind = kind
  BY NewIs
<1>4. ASSUME NEW u \in Tab, u # t PROVE PageOK(u)'
  <2>1. \A r \in Slot :
            \/ req'[r] = req[r]
            \/ (req[r] = None \/ req[r].tab # u) /\ (req'[r] = None \/ req'[r].tab # u)
    BY <1>2, <1>3, <1>4
  <2>2. IInv /\ PageOK(u) /\ page'[u] = page[u]
    BY <1>4 DEF AllInv, PagesOK, IInv
  <2>. QED  BY <2>1, <2>2, OtherTab
<1>5. Keeps(t, None)
  BY <1>2 DEF Keeps
<1>6. kind \notin Simulations => StartsNone(t)
  BY <1>2, <1>3 DEF StartsNone, Simulates, Awaits
<1>. QED  BY <1>2, <1>4, <1>5, <1>6

LEMMA SubmitStep ==
    ASSUME AllInv, IInv', NEW t \in Tab, NEW kind \in Forms, NEW form \in Form,
           Submit(t, kind, form)
    PROVE  AllInv'
<1>1. PICK new : new = NewRequest(t, kind, form, None, None)
  OBVIOUS
<1>2. kind \notin Simulations
  BY DEF Simulations, Forms
<1>3. /\ req' = [req EXCEPT ![NextSlot] = new] /\ version' = version /\ page' = page
      /\ Room(2) \/ (Room(1) /\ kind \notin Simulations \union {"login"})
  <2>1. CASE kind = "login"
    BY <1>1, <2>1 DEF Submit
  <2>2. CASE kind # "login"
    BY <1>1, <1>2, <2>2 DEF Submit
  <2>. QED  BY <2>1, <2>2
<1>4. /\ Numbered' /\ Chained' /\ \A u \in Tab : u # t => PageOK(u)'
      /\ Keeps(t, None) /\ StartsNone(t)
  BY <1>1, <1>2, <1>3, SendStep
<1>5. PageOK(t)'
  <2>1. IInv /\ PageOK(t) /\ page'[t] = page[t] /\ None \notin Slot
    BY <1>3, DashboardAssumption DEF AllInv, PagesOK
  <2>. QED  BY <1>4, <2>1, FrameTab
<1>. QED  BY <1>4, <1>5 DEF AllInv, PagesOK

\* What a tab shows and runs stays while a panel is loaded.
LEMMA SelectPanelStep ==
    ASSUME AllInv, IInv', NEW t \in Tab, NEW q \in Panel, SelectPanel(t, q) PROVE AllInv'
<1>0. PICK form \in Form \union {None} : form = None
  OBVIOUS
<1>1. PICK new : new = NewRequest(t, q, form, stored, None)
  OBVIOUS
<1>2. q \notin Simulations \union {"login"}
  BY DashboardAssumption DEF Simulations, Panels
<1>3. /\ req' = [req EXCEPT ![NextSlot] = new] /\ version' = version /\ Room(1)
      /\ page' = [page EXCEPT ![t] = Loading([page[t] EXCEPT !.panel = q])]
  BY <1>0, <1>1 DEF SelectPanel
<1>4. page[t] \in Page /\ page = [u \in Tab |-> page[u]] /\ stored \in Token \union {None}
  BY DEF AllInv, IInv, TokensOK
<1>5. /\ \A u \in Tab : u # t => page'[u] = page[u]
      /\ page'[t].running = page[t].running /\ page'[t].type = page[t].type
      /\ page'[t].result = page[t].result /\ page'[t].shown = page[t].shown
      /\ page'[t].analytics => page[t].analytics \/ q = "ml_analytics"
  BY <1>3, <1>4 DEF Loading, Page
<1>6. /\ Numbered' /\ Chained' /\ \A u \in Tab : u # t => PageOK(u)'
      /\ NextSlot \in Slot /\ req'[NextSlot] = new /\ new # None
      /\ Keeps(t, None) /\ StartsNone(t)
  <2>1. q \in Panel \union Simulations \union Forms
    OBVIOUS
  <2>2. /\ Room(2) \/ (Room(1) /\ q \notin Simulations \union {"login"})
        /\ stored \in Token \union {None} /\ q \notin Simulations
    BY <1>2, <1>3, <1>4, <1>5
  <2>3. PICK p : p = Loading([page[t] EXCEPT !.panel = q])
    OBVIOUS
  <2>. QED  BY <1>1, <1>3, <2>1, <2>2, <2>3, SendStep
<1>7. /\ None \notin Slot /\ PageOK(t)
      /\ page[t].result \in Slot \union {None} /\ page[t].shown \in [Panel -> Slot \union {None}]
  BY <1>4, DashboardAssumption DEF AllInv, PagesOK, Page
<1>8. RunningOK(t)' /\ ResultOK(t)'
  BY <1>5, <1>6, <1>7, FrameRunning DEF PageOK
<1>9. ShownOK(t)' /\ FreshOK(t)'
  BY <1>5, <1>6, <1>7, FrameShown, FrameFresh DEF PageOK
<1>10. SpinnerOK(t)'
  <2>1. CASE q = "ml_analytics"
    <3>1. new.tab = t /\ new.kind = "ml_analytics" /\ new.at = "sent"
      BY <1>1, <2>1, NewIs
    <3>. QED  BY <1>6, <3>1 DEF SpinnerOK, Awaits
  <2>2. CASE q # "ml_analytics"
    <3>1. page'[t].analytics => page[t].analytics
      BY <1>5, <2>2
    <3>. QED  BY <1>6, <1>7, <3>1, FrameSpinner DEF PageOK
  <2>. QED  BY <2>1, <2>2
<1>. QED  BY <1>6, <1>8, <1>9, <1>10 DEF AllInv, PagesOK, PageOK

\* The simulation that is started is the only one of its tab.
LEMMA SimulateStep ==
    ASSUME AllInv, IInv', NEW t \in Tab, NEW kind \in Simulations, Simulate(t, kind) PROVE AllInv'
<1>0. PICK form \in Form \union {None} : form = None
  OBVIOUS
<1>1. PICK new : new = NewRequest(t, kind, form, stored, None)
  OBVIOUS
<1>2. /\ req' = [req EXCEPT ![NextSlot] = new] /\ version' = version /\ Room(2)
      /\ page[t].running = {}
      /\ page' = [page EXCEPT ![t].type = kind, ![t].result = None, ![t].running = @ \union {kind}]
  BY <1>0, <1>1 DEF Simulate
<1>3. page[t] \in Page /\ page = [u \in Tab |-> page[u]] /\ stored \in Token \union {None}
  BY DEF AllInv, IInv, TokensOK
<1>4. /\ \A u \in Tab : u # t => page'[u] = page[u]
      /\ page'[t].running = {kind} /\ page'[t].type = kind /\ page'[t].result = None
      /\ page'[t].shown = page[t].shown /\ page'[t].analytics = page[t].analytics
  BY <1>2, <1>3 DEF Page
<1>5. /\ Numbered' /\ Chained' /\ \A u \in Tab : u # t => PageOK(u)'
      /\ NextSlot \in Slot /\ req'[NextSlot] = new /\ new # None
      /\ \A r \in Slot \ {NextSlot} : req'[r] = req[r]
      /\ Keeps(t, None)
  <2>1. kind \in Panel \union Simulations \union Forms
    OBVIOUS
  <2>2. /\ Room(2) \/ (Room(1) /\ kind \notin Simulations \union {"login"})
        /\ stored \in Token \union {None}
    BY <1>2, <1>3, <1>4
  <2>3. PICK p : page' = [page EXCEPT ![t] = p]
    BY <1>2, <1>3
  <2>4. version' = version /\ req' = [req EXCEPT ![NextSlot] = new]
    BY <1>2
  <2>. QED  BY <1>1, <2>1, <2>2, <2>3, <2>4, SendStep
<1>6. None \notin Slot /\ PageOK(t) /\ page[t].shown \in [Panel -> Slot \union {None}]
  BY <1>3, DashboardAssumption DEF AllInv, PagesOK, Page
<1>7. RunningOK(t)'
  <2>1. \A r \in Slot : ~Simulates(t, r)
    BY <1>2, <1>6 DEF PageOK, RunningOK
  <2>2. new.tab = t /\ new.kind = kind /\ new.at = "sent"
    BY <1>1, NewIs
  <2>3. \A r \in Slot : Simulates(t, r)' <=> r = NextSlot
    BY <1>5, <2>1, <2>2 DEF Simulates, Awaits
  <2>. QED  BY <1>4, <1>5, <2>2, <2>3 DEF RunningOK
<1>8. ResultOK(t)' /\ FreshOK(t)'
  BY <1>4 DEF ResultOK, FreshOK
<1>9. ShownOK(t)' /\ SpinnerOK(t)'
  BY <1>4, <1>5, <1>6, FrameShown, FrameSpinner DEF PageOK
<1>. QED  BY <1>5, <1>7, <1>8, <1>9 DEF AllInv, PagesOK, PageOK

-----------------------------------------------------------------------------
\* What is left of a request says the same, or nothing.
LEMMA ReceivedIs ==
    ASSUME AllInv, NEW r \in Slot, req[r] # None
    PROVE  \E w :
              /\ Received(r) = [req EXCEPT ![r] = w]
              /\ Follows(req[r], w, version) /\ w # None /\ w.at = "received"
              /\ \/ /\ w.tab = None
                    /\ req[r].kind = "login" \/ (req[r].reply # "ok" /\ req[r].reloads = None)
                 \/ /\ w.tab = req[r].tab /\ w.kind = req[r].kind /\ w.reply = req[r].reply
                    /\ w.reloads = req[r].reloads /\ w.version = req[r].version
<1>1. /\ req = [s \in Slot |-> req[s]] /\ version \in Nat
      /\ req[r] \in Request /\ req[r].version <= version
  BY DEF AllInv, IInv, Chained
<1>2. CASE req[r].kind = "login" \/ (req[r].reply # "ok" /\ req[r].reloads = None)
  <2>1. Received(r) = [req EXCEPT ![r] = Settled]
    BY <1>2 DEF Received
  <2>2. Follows(req[r], Settled, version) /\ Settled # None
    BY <1>1, FollowsAll, SettledOK
  <2>3. Settled.tab = None /\ Settled.at = "received"
    BY DEF Settled
  <2>. QED  BY <1>2, <2>1, <2>2, <2>3
<1>3. CASE ~(req[r].kind = "login" \/ (req[r].reply # "ok" /\ req[r].reloads = None))
  <2>1. PICK w : w = [req[r] EXCEPT !.at = "received", !.token = None]
    OBVIOUS
  <2>2. Received(r) = [req EXCEPT ![r] = w]
    BY <1>1, <1>3, <2>1 DEF Received
  <2>3. Follows(req[r], w, version)
    BY <1>1, <2>1, FollowsAll
  <2>4. w # None
    BY <2>3, DashboardAssumption DEF Follows
  <2>5. /\ w.at = "received" /\ w.tab = req[r].tab /\ w.kind = req[r].kind
        /\ w.reply = req[r].reply /\ w.reloads = req[r].reloads /\ w.version = req[r].version
    BY <1>1, <2>1 DEF Request
  <2>. QED  BY <2>2, <2>3, <2>4, <2>5
<1>. QED  BY <1>2, <1>3

\* What becomes of the records when tab t has the answer to r.
Came(t, r) ==
    /\ req[r] # None /\ req[r].tab = t /\ req[r].at = "answered"
    /\ req'[r] # None /\ req'[r].at = "received"
    /\ \/ /\ req'[r].tab = None
          /\ req[r].kind = "login" \/ (req[r].reply # "ok" /\ req[r].reloads = None)
       \/ /\ req'[r].tab = t /\ req'[r].kind = req[r].kind /\ req'[r].reply = req[r].reply
          /\ req'[r].reloads = req[r].reloads /\ req'[r].version = req[r].version

\* Nothing is sent, or one request of kind.
ThenSends(t, r, kind, s) ==
    \A x \in Slot \ {r} :
        \/ req'[x] = req[x]
        \/ /\ req[x] = None /\ req'[x] # None /\ req'[x].tab = t /\ req'[x].kind = kind
           /\ req'[x].reloads = s /\ req'[x].at = "sent"

LEMMA ReceiveStay ==
    ASSUME AllInv, IInv', NEW r \in Slot, req[r] # None, req[r].at = "answered",
           req' = Received(r), version' = version
    PROVE  /\ Numbered' /\ Chained' /\ Came(req[r].tab, r)
           /\ \A x \in Slot \ {r} : req'[x] = req[x]
<1>1. PICK w :
         /\ Received(r) = [req EXCEPT ![r] = w]
         /\ Follows(req[r], w, version) /\ w # None /\ w.at = "received"
         /\ \/ /\ w.tab = None
               /\ req[r].kind = "login" \/ (req[r].reply # "ok" /\ req[r].reloads = None)
            \/ /\ w.tab = req[r].tab /\ w.kind = req[r].kind /\ w.reply = req[r].reply
               /\ w.reloads = req[r].reloads /\ w.version = req[r].version
  BY ReceivedIs
<1>2. req'[r] = w /\ \A x \in Slot \ {r} : req'[x] = req[x]
  BY <1>1, SelfFollows
<1>3. \A x \in Slot : IF req[x] = None THEN req'[x] = None ELSE Follows(req[x], req'[x], version')
  BY <1>1, <1>2, SelfFollows
<1>4. OwedIn(req') \subseteq Owed
  BY <1>1, <1>2, OwedIs DEF OwedIn
<1>5. Numbered' /\ Chained'
  BY <1>3, <1>4, SelfFollows, RecordsStay DEF AllInv
<1>. QED  BY <1>1, <1>2, <1>5 DEF Came

\* A load of panel kind is sent with the answer to r.
SendsOn(r, t, kind, s) ==
    \E token \in Token \union {None}, form \in Form \union {None} :
        req' = [Received(r) EXCEPT ![NextSlot] = NewRequest(t, kind, form, token, s)]

LEMMA ReceiveSend ==
    ASSUME AllInv, IInv', NEW r \in Slot, req[r] # None, req[r].at = "answered", version' = version,
           req[r].kind \in Simulations \union {"login"}, NEW t \in Tab, req[r].tab = t,
           NEW kind \in Panel, NEW s \in {None, r}, SendsOn(r, t, kind, s)
    PROVE  /\ Numbered' /\ Chained' /\ Came(t, r) /\ ThenSends(t, r, kind, s)
           /\ NextSlot \in Slot /\ NextSlot # r /\ req'[NextSlot] # None
           /\ req'[NextSlot].tab = t /\ req'[NextSlot].kind = kind
           /\ req'[NextSlot].reloads = s /\ req'[NextSlot].at = "sent"
<1>1. PICK w :
         /\ Received(r) = [req EXCEPT ![r] = w]
         /\ Follows(req[r], w, version) /\ w # None /\ w.at = "received"
         /\ \/ /\ w.tab = None
               /\ req[r].kind = "login" \/ (req[r].reply # "ok" /\ req[r].reloads = None)
            \/ /\ w.tab = req[r].tab /\ w.kind = req[r].kind /\ w.reply = req[r].reply
               /\ w.reloads = req[r].reloads /\ w.version = req[r].version
  BY ReceivedIs
<1>2. PICK token \in Token \union {None}, form \in Form \union {None} :
         req' = [Received(r) EXCEPT ![NextSlot] = NewRequest(t, kind, form, token, s)]
  BY DEF SendsOn
<1>3. PICK g : g = Received(r)
  OBVIOUS
<1>4. PICK new : new = NewRequest(t, kind, form, token, s)
  OBVIOUS
<1>5. /\ g = [x \in Slot |-> g[x]] /\ g[r] = w /\ \A x \in Slot \ {r} : g[x] = req[x]
  BY <1>1, <1>3, SelfFollows
<1>6. \A x \in Slot : IF req[x] = None THEN g[x] = None ELSE Follows(req[x], g[x], version')
  BY <1>1, <1>5, SelfFollows
<1>7. r \in Owed /\ OwedIn(g) \subseteq Owed \ {r}
  <2>1. r \in Owed
    BY DashboardAssumption DEF Owed, Sent
  <2>2. \A x \in OwedIn(g) : x # r /\ g[x] = req[x]
    BY <1>1, <1>5 DEF OwedIn
  <2>. QED  BY <2>1, <2>2, OwedIs DEF OwedIn
<1>8. kind \notin Simulations \union {"login"} /\ kind \in Panel \union Simulations \union Forms
  BY DashboardAssumption DEF Panels, Simulations
<1>9. s \in Slot \union {None} /\ HasCome(g, s)
  BY <1>1, <1>5 DEF HasCome
<1>10. req' = [g EXCEPT ![NextSlot] = new] /\ version <= version' /\ IInv /\ Numbered /\ Chained
  BY <1>2, <1>3, <1>4, SelfFollows DEF AllInv
<1>11. /\ Numbered' /\ Chained'
       /\ NextSlot \in Slot /\ req[NextSlot] = None /\ req'[NextSlot] = new /\ new # None
       /\ \A x \in Slot \ {NextSlot} : req'[x] = g[x]
  <2>1. Affords(g, kind)
    BY <1>7, <1>8 DEF Affords
  <2>2. g = [x \in Slot |-> g[x]]
    BY <1>5
  <2>. QED  BY <1>4, <1>6, <1>8, <1>9, <1>10, <2>1, <2>2, RecordsSend
<1>12. new.tab = t /\ new.kind = kind /\ new.reloads = s /\ new.at = "sent"
  BY <1>4, NewIs
<1>13. NextSlot # r
  BY <1>11
<1>14. Came(t, r)
  BY <1>1, <1>5, <1>11, <1>13 DEF Came
<1>15. ThenSends(t, r, kind, s)
  BY <1>5, <1>11, <1>12 DEF ThenSends
<1>. QED  BY <1>11, <1>12, <1>13, <1>14, <1>15

\* What tab t had stays, and no simulation starts; the other tabs do not notice.
LEMMA CameFrames ==
    ASSUME AllInv, NEW t \in Tab, NEW r \in Slot, Came(t, r),
           NEW kind \in Panel, NEW s, ThenSends(t, r, kind, s),
           NEW p, page' = page \/ page' = [page EXCEPT ![t] = p]
    PROVE  /\ Keeps(t, r) /\ StartsNone(t) /\ ~Has(t, r)
           /\ \A u \in Tab : u # t => PageOK(u)'
<1>1. kind \notin Simulations
  BY DashboardAssumption DEF Panels, Simulations
<1>2. Keeps(t, r)
  BY DEF Keeps, ThenSends
<1>3. StartsNone(t)
  BY <1>1 DEF StartsNone, Simulates, Awaits, ThenSends, Came
<1>4. ASSUME NEW u \in Tab, u # t PROVE PageOK(u)'
  <2>1. \A x \in Slot :
            \/ req'[x] = req[x]
            \/ (req[x] = None \/ req[x].tab # u) /\ (req'[x] = None \/ req'[x].tab # u)
    <3>1. \A x \in Slot \ {r} :
            \/ req'[x] = req[x]
            \/ (req[x] = None \/ req[x].tab # u) /\ (req'[x] = None \/ req'[x].tab # u)
      BY <1>4 DEF ThenSends
    <3>2. req[r].tab # u /\ req'[r].tab # u
      BY <1>4, DashboardAssumption DEF Came
    <3>. QED  BY <3>1, <3>2
  <2>2. IInv /\ PageOK(u) /\ page'[u] = page[u]
    BY <1>4 DEF AllInv, PagesOK, IInv
  <2>. QED  BY <2>1, <2>2, OtherTab
<1>. QED  BY <1>2, <1>3, <1>4 DEF Has, Came

LEMMA ReceiveFormsStep ==
    ASSUME AllInv, IInv', NEW r \in Slot, req[r] # None, req[r].at = "answered",
           version' = version, NEW t \in Tab, req[r].tab = t, req[r].kind \in Forms,
           page' = page, req' = Received(r)
    PROVE  AllInv'
<1>1. /\ Numbered' /\ Chained' /\ Came(t, r) /\ ThenSends(t, r, "overview", None)
      /\ "overview" \in Panel
  BY ReceiveStay, DashboardAssumption DEF ThenSends
<1>2. /\ Keeps(t, r) /\ StartsNone(t) /\ ~Has(t, r)
      /\ \A u \in Tab : u # t => PageOK(u)'
  BY <1>1, CameFrames
<1>3. PageOK(t)'
  <2>1. IInv /\ PageOK(t) /\ page'[t] = page[t]
    BY DEF AllInv, PagesOK
  <2>. QED  BY <1>2, <2>1, FrameTab
<1>. QED  BY <1>1, <1>2, <1>3 DEF AllInv, PagesOK

\* The tab was signed out: it loads the panel it is at.
LEMMA SignedInStep ==
    ASSUME AllInv, IInv', NEW r \in Slot, req[r] # None, req[r].at = "answered",
           version' = version, NEW t \in Tab, req[r].tab = t, req[r].kind = "login",
           page' = [page EXCEPT ![t] = Loading([page[t] EXCEPT !.authed = TRUE])],
           SendsOn(r, t, page[t].panel, None)
    PROVE  AllInv'
<1>1. PICK q : q = page[t].panel
  OBVIOUS
<1>2. page[t] \in Page /\ page = [u \in Tab |-> page[u]] /\ q \in Panel
  BY <1>1 DEF AllInv, IInv, Page
<1>3. /\ page'[t].running = page[t].running /\ page'[t].type = page[t].type
      /\ page'[t].result = page[t].result /\ page'[t].shown = page[t].shown
      /\ page'[t].analytics => page[t].analytics \/ q = "ml_analytics"
  BY <1>1, <1>2 DEF Loading, Page
<1>4. /\ Numbered' /\ Chained' /\ Came(t, r) /\ ThenSends(t, r, q, None)
      /\ NextSlot \in Slot /\ req'[NextSlot] # None
      /\ req'[NextSlot].tab = t /\ req'[NextSlot].kind = q /\ req'[NextSlot].at = "sent"
  <2>1. req[r].kind \in Simulations \union {"login"} /\ None \in {None, r}
    OBVIOUS
  <2>2. SendsOn(r, t, q, None)
    BY <1>1
  <2>. QED  BY <1>2, <2>1, <2>2, ReceiveSend
<1>5. /\ Keeps(t, r) /\ StartsNone(t) /\ ~Has(t, r)
      /\ \A u \in Tab : u # t => PageOK(u)'
  <2>1. PICK p : p = Loading([page[t] EXCEPT !.authed = TRUE])
    OBVIOUS
  <2>. QED  BY <1>2, <1>4, <2>1, CameFrames
<1>6. /\ PageOK(t) /\ ~Simulates(t, r) /\ req[r].kind # "overview" /\ req[r].kind # "ml_analytics"
      /\ page[t].result \in Slot \union {None} /\ page[t].shown \in [Panel -> Slot \union {None}]
  BY <1>2 DEF AllInv, PagesOK, Page, Simulates, Simulations
<1>7. RunningOK(t)' /\ ResultOK(t)'
  BY <1>3, <1>5, <1>6, FrameRunning DEF PageOK
<1>8. ShownOK(t)' /\ FreshOK(t)'
  BY <1>3, <1>5, <1>6, FrameShown, FrameFresh DEF PageOK
<1>9. SpinnerOK(t)'
  <2>1. CASE q = "ml_analytics"
    BY <1>4, <2>1 DEF SpinnerOK, Awaits
  <2>2. CASE q # "ml_analytics"
    <3>1. page'[t].analytics => page[t].analytics
      BY <1>3, <2>2
    <3>. QED  BY <1>5, <1>6, <3>1, FrameSpinner DEF PageOK
  <2>. QED  BY <2>1, <2>2
<1>. QED  BY <1>4, <1>5, <1>7, <1>8, <1>9 DEF AllInv, PagesOK, PageOK

\* The only simulation of the tab is answered: its buttons are free again, and
\* the load that is sent is that of its result.
LEMMA ReceiveSimulationStep ==
    ASSUME AllInv, IInv', NEW r \in Slot, req[r] # None, req[r].at = "answered",
           version' = version, NEW t \in Tab, req[r].tab = t, req[r].kind \in Simulations,
           ReceiveSimulation(r, t)
    PROVE  AllInv'
<1>1. page[t] \in Page /\ page = [u \in Tab |-> page[u]] /\ "overview" \in Panel /\ PageOK(t)
  BY DashboardAssumption DEF AllInv, IInv, PagesOK
<1>2. Simulates(t, r)
  BY DEF Simulates, Awaits
<1>3. /\ page[t].running = {req[r].kind} /\ page[t].type = req[r].kind /\ page[t].result = None
      /\ \A x \in Slot : Simulates(t, x) => x = r
  BY <1>1, <1>2 DEF PageOK, RunningOK, ResultOK
<1>4. PICK p : /\ page' = [page EXCEPT ![t] = p]
               /\ p.running = {} /\ p.type = req[r].kind
               /\ p.shown = page[t].shown /\ p.analytics = page[t].analytics
               /\ p.result = IF req[r].reply = "ok" THEN r ELSE None
  <2>. DEFINE p0 == [page[t] EXCEPT !.running = @ \ {req[r].kind}]
              p1 == [p0 EXCEPT !.result = r]
  <2>1. page' = [page EXCEPT ![t] = IF req[r].reply = "ok" THEN p1 ELSE p0]
    BY DEF ReceiveSimulation
  <2>2. /\ p0.running = {} /\ p0.type = req[r].kind /\ p0.result = None
        /\ p0.shown = page[t].shown /\ p0.analytics = page[t].analytics
        /\ p1.running = {} /\ p1.type = req[r].kind /\ p1.result = r
        /\ p1.shown = page[t].shown /\ p1.analytics = page[t].analytics
    BY <1>1, <1>3 DEF Page
  <2>. HIDE DEF p0, p1
  <2>. QED  BY <2>1, <2>2
<1>5. page'[t] = p
  BY <1>1, <1>4
<1>6. /\ Numbered' /\ Chained' /\ Came(t, r) /\ ThenSends(t, r, "overview", r)
      /\ req[r].reply = "ok" =>
            \E n \in Slot : /\ req'[n] # None /\ req'[n].tab = t /\ req'[n].kind = "overview"
                            /\ req'[n].reloads = r /\ req'[n].at = "sent"
  <2>1. CASE req[r].reply = "ok"
    <3>1. SendsOn(r, t, "overview", r)
      <4>1. req' = [Received(r) EXCEPT ![NextSlot] = NewRequest(t, "overview", None, stored, r)]
        BY <2>1 DEF ReceiveSimulation
      <4>2. stored \in Token \union {None}
        BY DEF AllInv, IInv, TokensOK
      <4>. QED  BY <4>1, <4>2 DEF SendsOn
    <3>2. req[r].kind \in Simulations \union {"login"} /\ r \in {None, r}
      OBVIOUS
    <3>. QED  BY <1>1, <3>1, <3>2, ReceiveSend
  <2>2. CASE req[r].reply # "ok"
    <3>1. req' = Received(r)
      BY <2>2 DEF ReceiveSimulation
    <3>. QED  BY <2>2, <3>1, ReceiveStay DEF ThenSends
  <2>. QED  BY <2>1, <2>2
<1>7. /\ Keeps(t, r) /\ StartsNone(t) /\ ~Has(t, r)
      /\ \A u \in Tab : u # t => PageOK(u)'
  BY <1>1, <1>4, <1>6, CameFrames
<1>8. \A x \in Slot : ~Simulates(t, x)'
  BY <1>3, <1>6, <1>7 DEF StartsNone, Simulates, Awaits, Came
<1>9. RunningOK(t)'
  BY <1>4, <1>5, <1>8 DEF RunningOK
<1>10. ShownOK(t)' /\ SpinnerOK(t)'
  <2>1. /\ page[t].shown \in [Panel -> Slot \union {None}] /\ req[r].kind # "ml_analytics"
        /\ page'[t].shown = page[t].shown /\ page'[t].analytics = page[t].analytics
    BY <1>1, <1>4, <1>5 DEF Page, Simulations
  <2>. QED  BY <1>1, <1>7, <2>1, FrameShown, FrameSpinner DEF PageOK
<1>11. ResultOK(t)' /\ FreshOK(t)'
  <2>1. CASE req[r].reply = "ok"
    <3>1. Has(t, r)' /\ req'[r].kind = req[r].kind
      BY <1>6, <2>1 DEF Came, Has, Simulations
    <3>2. ResultOK(t)'
      BY <1>4, <1>5, <2>1, <3>1 DEF ResultOK
    <3>3. PICK n \in Slot : /\ req'[n] # None /\ req'[n].tab = t /\ req'[n].kind = "overview"
                            /\ req'[n].reloads = r /\ req'[n].at = "sent"
      BY <1>6, <2>1
    <3>4. page'[t].result = r
      BY <1>4, <1>5, <2>1
    <3>5. Reloads(t, n, r)'
      BY <3>3 DEF Reloads
    <3>. QED  BY <3>2, <3>4, <3>5 DEF FreshOK
  <2>2. CASE req[r].reply # "ok"
    BY <1>4, <1>5, <2>2 DEF ResultOK, FreshOK
  <2>. QED  BY <2>1, <2>2
<1>. QED  BY <1>6, <1>7, <1>9, <1>10, <1>11 DEF AllInv, PagesOK, PageOK

\* A load r has come: what it brings is shown, at the tab that sent it.
LEMMA FreshLoad ==
    ASSUME AllInv, NEW t \in Tab, NEW r \in Slot, Came(t, r), Keeps(t, r), ~Has(t, r),
           req[r].kind \in Panel, page'[t].result = page[t].result,
           page'[t].shown = IF req[r].reply = "ok"
                            THEN [page[t].shown EXCEPT ![req[r].kind] = r] ELSE page[t].shown
    PROVE  FreshOK(t)'
<1>. SUFFICES ASSUME page[t].result # None PROVE \E s \in Slot : Reloads(t, s, page[t].result)'
  BY DEF FreshOK
<1>1. /\ PageOK(t) /\ page[t].result \in Slot \union {None}
      /\ page[t].shown \in [Panel -> Slot \union {None}]
      /\ "overview" \in Panel /\ None \notin Slot
      /\ \A q \in Panel : q \notin Forms /\ q # "login"
      /\ Simulations \cap Forms = {} /\ Slot \subseteq Nat
  BY DashboardAssumption DEF AllInv, IInv, PagesOK, Page, Panels, Forms, Simulations, Slot
<1>2. PICK x \in Slot : x = page[t].result
  BY <1>1
<1>3. PICK s \in Slot : Reloads(t, s, x)
  BY <1>1, <1>2 DEF PageOK, FreshOK
<1>4. req'[x] = req[x] /\ x # r
  <2>1. Has(t, x) /\ req[x].kind \in Simulations
    BY <1>1, <1>2 DEF PageOK, ResultOK
  <2>. QED  BY <1>1, <2>1 DEF Keeps, Has
<1>5. /\ req[s] # None /\ req[s].tab = t /\ req[s].kind = "overview" /\ req[s].reloads = x
      /\ x # None
  BY <1>1, <1>3 DEF Reloads
<1>6. ASSUME req[r].reply = "ok", s <= r PROVE req[x].version <= req[r].version
  BY <1>1, <1>5, <1>6 DEF AllInv, Chained, Came
<1>7. PICK old : old = page[t].shown["overview"]
  OBVIOUS
<1>8. old # None => old \in Slot /\ req'[old] = req[old]
  <2>1. old # None => Has(t, old) /\ req[old].kind = "overview" /\ old \in Slot
    BY <1>1, <1>7 DEF PageOK, ShownOK
  <2>. QED  BY <1>1, <2>1 DEF Keeps, Has
<1>9. CASE s = r
  <2>1. /\ req'[r] # None /\ req'[r].tab = t /\ req'[r].kind = "overview" /\ req'[r].reloads = x
        /\ req'[r].reply = req[r].reply /\ req'[r].version = req[r].version
    BY <1>1, <1>5, <1>9 DEF Came
  <2>2. CASE req[r].reply # "ok"
    BY <1>2, <2>1, <2>2 DEF Reloads
  <2>3. CASE req[r].reply = "ok"
    <3>1. page'[t].shown["overview"] = r
      BY <1>1, <1>5, <1>9, <2>3
    <3>2. req[x].version <= req[r].version
      BY <1>1, <1>6, <1>9, <2>3
    <3>. QED  BY <1>1, <1>2, <1>4, <2>1, <3>1, <3>2 DEF Reloads
  <2>. QED  BY <2>2, <2>3
<1>10. CASE s # r /\ req[s].at # "received"
  <2>1. /\ req'[s] # None /\ req'[s].tab = t /\ req'[s].kind = "overview"
        /\ req'[s].reloads = x /\ req'[s].at # "received"
    BY <1>1, <1>5, <1>10 DEF Keeps
  <2>. QED  BY <1>2, <2>1 DEF Reloads
<1>11. CASE s # r /\ req[s].at = "received"
  <2>1. req'[s] = req[s]
    BY <1>1, <1>5, <1>11 DEF Keeps
  <2>2. CASE page'[t].shown["overview"] = old
    <3>1. req[s].reply # "ok" \/ (old # None /\ (old < s \/ req[old].version >= req[x].version))
      BY <1>3, <1>7, <1>11 DEF Reloads
    <3>. QED  BY <1>2, <1>4, <1>5, <1>8, <2>1, <2>2, <3>1 DEF Reloads
  <2>3. CASE page'[t].shown["overview"] # old
    <3>1. page'[t].shown["overview"] = r /\ req[r].reply = "ok" /\ req[r].kind = "overview"
      BY <1>1, <1>7, <2>3
    <3>2. req'[r].version = req[r].version
      BY <1>1, <3>1 DEF Came
    <3>3. r < s \/ req[x].version <= req[r].version
      BY <1>1, <1>6, <3>1
    <3>. QED  BY <1>1, <1>2, <1>4, <1>5, <2>1, <3>1, <3>2, <3>3 DEF Reloads
  <2>. QED  BY <2>2, <2>3
<1>. QED  BY <1>9, <1>10, <1>11

LEMMA ReceiveLoadStep ==
    ASSUME AllInv, IInv', NEW r \in Slot, req[r] # None, req[r].at = "answered",
           version' = version, NEW t \in Tab, req[r].tab = t, req[r].kind \in Panel,
           ReceiveLoad(r, t)
    PROVE  AllInv'
<1>1. /\ page[t] \in Page /\ page = [u \in Tab |-> page[u]] /\ PageOK(t)
      /\ "overview" \in Panel /\ req[r].kind \notin Simulations \union Forms
  BY DashboardAssumption DEF AllInv, IInv, PagesOK, Panels, Simulations, Forms
<1>2. PICK shown : shown = IF req[r].reply = "ok"
                           THEN [page[t].shown EXCEPT ![req[r].kind] = r] ELSE page[t].shown
  OBVIOUS
<1>3. PICK p : /\ page' = [page EXCEPT ![t] = p]
               /\ p.running = page[t].running /\ p.type = page[t].type
               /\ p.result = page[t].result /\ p.shown = shown
               /\ p.analytics => (page[t].analytics /\ req[r].kind # "ml_analytics")
  <2>1. CASE req[r].kind # "ml_analytics" /\ Unauthorized(req[r].reply)
    <3>1. PICK p : p = [page[t] EXCEPT !.authed = FALSE]
      OBVIOUS
    <3>2. page' = [page EXCEPT ![t] = p]
      BY <2>1, <3>1 DEF ReceiveLoad
    <3>3. /\ p.running = page[t].running /\ p.type = page[t].type /\ p.result = page[t].result
          /\ p.shown = page[t].shown /\ p.analytics = page[t].analytics
      BY <1>1, <3>1 DEF Page
    <3>4. shown = page[t].shown
      BY <1>2, <2>1 DEF Unauthorized
    <3>. QED  BY <2>1, <3>2, <3>3, <3>4
  <2>2. CASE ~(req[r].kind # "ml_analytics" /\ Unauthorized(req[r].reply))
    <3>1. PICK p : p = [page[t] EXCEPT !.shown = shown,
                                       !.analytics = @ /\ req[r].kind # "ml_analytics"]
      OBVIOUS
    <3>2. page' = [page EXCEPT ![t] = p]
      BY <1>1, <1>2, <2>2, <3>1 DEF ReceiveLoad
    <3>3. /\ p.running = page[t].running /\ p.type = page[t].type /\ p.result = page[t].result
          /\ p.shown = shown
          /\ p.analytics = (page[t].analytics /\ req[r].kind # "ml_analytics")
      BY <1>1, <3>1 DEF Page
    <3>. QED  BY <3>2, <3>3
  <2>. QED  BY <2>1, <2>2
<1>4. page'[t] = p
  BY <1>1, <1>3
<1>5. /\ Numbered' /\ Chained' /\ Came(t, r) /\ ThenSends(t, r, "overview", None)
  BY ReceiveStay DEF ReceiveLoad, ThenSends
<1>6. /\ Keeps(t, r) /\ StartsNone(t) /\ ~Has(t, r) /\ ~Simulates(t, r)
      /\ \A u \in Tab : u # t => PageOK(u)'
  BY <1>1, <1>3, <1>5, CameFrames DEF Simulates
<1>7. /\ page[t].result \in Slot \union {None} /\ page[t].shown \in [Panel -> Slot \union {None}]
  BY <1>1 DEF Page
<1>8. RunningOK(t)' /\ ResultOK(t)'
  BY <1>1, <1>3, <1>4, <1>6, <1>7, FrameRunning DEF PageOK
<1>9. ShownOK(t)'
  <2>. SUFFICES ASSUME NEW q \in Panel, page'[t].shown[q] # None
                PROVE  \E y : y = page'[t].shown[q] /\ Has(t, y)' /\ req'[y].kind = q
    BY DEF ShownOK, Has
  <2>1. CASE req[r].reply = "ok" /\ q = req[r].kind
    <3>1. page'[t].shown[q] = r
      BY <1>2, <1>3, <1>4, <1>7, <2>1
    <3>2. Has(t, r)' /\ req'[r].kind = q
      BY <1>1, <1>5, <2>1 DEF Came, Has, Forms
    <3>. QED  BY <3>1, <3>2
  <2>2. CASE ~(req[r].reply = "ok" /\ q = req[r].kind)
    <3>1. page'[t].shown[q] = page[t].shown[q]
      BY <1>2, <1>3, <1>4, <1>7, <2>2
    <3>2. PICK x \in Slot : x = page[t].shown[q]
      BY <1>7, <3>1
    <3>3. Has(t, x) /\ req[x].kind = q
      BY <1>1, <3>1, <3>2 DEF PageOK, ShownOK
    <3>4. req'[x] = req[x]
      BY <1>6, <3>3, DashboardAssumption DEF Keeps, Has, Panels, Forms
    <3>. QED  BY <3>1, <3>2, <3>3, <3>4 DEF Has
  <2>. QED  BY <2>1, <2>2
<1>10. SpinnerOK(t)'
  <2>1. CASE req[r].kind = "ml_analytics"
    BY <1>3, <1>4, <2>1 DEF SpinnerOK
  <2>2. CASE req[r].kind # "ml_analytics"
    <3>1. page'[t].analytics => page[t].analytics
      BY <1>3, <1>4
    <3>. QED  BY <1>1, <1>6, <2>2, <3>1, FrameSpinner DEF PageOK
  <2>. QED  BY <2>1, <2>2
<1>11. FreshOK(t)'
  <2>1. /\ page'[t].result = page[t].result
        /\ page'[t].shown = IF req[r].reply = "ok"
                            THEN [page[t].shown EXCEPT ![req[r].kind] = r] ELSE page[t].shown
    BY <1>2, <1>3, <1>4
  <2>. QED  BY <1>5, <1>6, <2>1, FreshLoad
<1>. QED  BY <1>5, <1>6, <1>8, <1>9, <1>10, <1>11 DEF AllInv, PagesOK, PageOK

LEMMA ReceiveLoginStep ==
    ASSUME AllInv, IInv', NEW r \in Slot, req[r] # None, req[r].at = "answered",
           version' = version, NEW t \in Tab, req[r].tab = t, req[r].kind = "login",
           ReceiveLogin(r, t)
    PROVE  AllInv'
<1>1. CASE req' = Received(r) /\ page' = page
  BY <1>1, ReceiveFormsStep DEF Forms
<1>2. CASE ~(req' = Received(r) /\ page' = page)
  <2>1. /\ page' = [page EXCEPT ![t] = Loading([page[t] EXCEPT !.authed = TRUE])]
        /\ req' = [Received(r) EXCEPT ![NextSlot] = NewRequest(t, page[t].panel, None, r, None)]
    BY <1>2 DEF ReceiveLogin
  <2>2. r \in Token \union {None}
    BY DashboardAssumption
  <2>3. SendsOn(r, t, page[t].panel, None)
    BY <2>1, <2>2 DEF SendsOn
  <2>4. page' = [page EXCEPT ![t] = Loading([page[t] EXCEPT !.authed = TRUE])]
    BY <2>1
  <2>. QED  BY <2>3, <2>4, SignedInStep
<1>. QED  BY <1>1, <1>2

LEMMA ReceiveStep == ASSUME AllInv, IInv', NEW r \in Slot, Receive(r) PROVE AllInv'
<1>1. PICK t : t = req[r].tab
  OBVIOUS
<1>2. /\ req[r] # None /\ req[r] \in Request /\ req[r].at = "answered" /\ version' = version
      /\ t \in Tab /\ req[r].tab = t
  BY <1>1 DEF Receive, AllInv, IInv, Request
<1>3. CASE req[r].kind = "login"
  <2>1. ReceiveLogin(r, t)
    BY <1>1, <1>3 DEF Receive, Simulations
  <2>. QED  BY <1>2, <1>3, <2>1, ReceiveLoginStep
<1>4. CASE req[r].kind = "register"
  <2>1. req' = Received(r) /\ page' = page
    BY <1>4 DEF Receive, ReceiveRegister, Simulations
  <2>. QED  BY <1>2, <1>4, <2>1, ReceiveFormsStep DEF Forms
<1>5. CASE req[r].kind \in Simulations
  <2>1. ReceiveSimulation(r, t)
    BY <1>1, <1>5 DEF Receive, Simulations
  <2>. QED  BY <1>2, <1>5, <2>1, ReceiveSimulationStep
<1>6. CASE req[r].kind \notin Forms \union Simulations
  <2>1. ReceiveLoad(r, t)
    BY <1>1, <1>6 DEF Receive, Forms
  <2>2. req[r].kind \in Panel
    BY <1>2, <1>6 DEF Request
  <2>. QED  BY <1>2, <2>1, <2>2, ReceiveLoadStep
<1>. QED  BY <1>3, <1>4, <1>5, <1>6 DEF Forms

LEMMA NextAll == ASSUME AllInv, [Next]_vars PROVE AllInv'
<1>0. IInv'
  BY NextOK DEF AllInv
<1>1. ASSUME NEW t \in Tab, OpenPage(t) PROVE AllInv'
  BY <1>0, <1>1, OpenPageStep
<1>2. ASSUME NEW t \in Tab, NEW kind \in Forms, NEW form \in Form, Submit(t, kind, form)
      PROVE  AllInv'
  BY <1>0, <1>2, SubmitStep
<1>3. ASSUME NEW t \in Tab, NEW q \in Panel, SelectPanel(t, q) PROVE AllInv'
  BY <1>0, <1>3, SelectPanelStep
<1>4. ASSUME NEW t \in Tab, NEW kind \in Simulations, Simulate(t, kind) PROVE AllInv'
  BY <1>0, <1>4, SimulateStep
<1>5. ASSUME NEW r \in Slot, Serve(r) \/ Fail(r) PROVE AllInv'
  BY <1>0, <1>5, ServeStep
<1>6. ASSUME NEW r \in Slot, Receive(r) PROVE AllInv'
  BY <1>0, <1>6, ReceiveStep
<1>7. ASSUME NEW k \in Token, Expire(k) PROVE AllInv'
  <2>1. UNCHANGED <<req, page, version>>
    BY <1>7 DEF Expire
  <2>. QED  BY <1>0, <2>1, IdleStep
<1>8. CASE UNCHANGED vars
  <2>1. UNCHANGED <<req, page, version>>
    BY <1>8 DEF vars
  <2>. QED  BY <1>0, <2>1, IdleStep
<1>. QED  BY <1>1, <1>2, <1>3, <1>4, <1>5, <1>6, <1>7, <1>8 DEF Next

\* The strengthening of DashboardInv and FreshUnlessOverlapped that every
\* handler of Dashboard.jsx and every answer or loss of one keeps.
THEOREM PagesInvariant == Spec => []AllInv
<1>. QED  BY InitAll, NextAll, PTL DEF Spec

LEMMA ButtonsAre == ASSUME AllInv PROVE ButtonsHonest
<1>. SUFFICES ASSUME NEW t \in Tab
              PROVE  LET awaited == {r \in Awaited(t) : req[r].kind \in Simulations}
                         shows == page[t].result
                     IN  /\ Cardinality(awaited) <= 1
                         /\ page[t].running = {req[r].kind : r \in awaited}
                         /\ shows # None => page[t].running = {} /\ req[shows].kind = page[t].type
  BY DEF ButtonsHonest
<1>. DEFINE awaited == {r \in Awaited(t) : req[r].kind \in Simulations}
<1>1. /\ PageOK(t)
      /\ \A r : r \in awaited <=> r \in Slot /\ Simulates(t, r)
  BY DEF AllInv, PagesOK, Awaited, Sent, Simulates, Awaits
<1>. HIDE DEF awaited
<1>2. CASE awaited = {}
  <2>1. Cardinality(awaited) = 0
    BY <1>2, FS_EmptySet
  <2>2. page[t].running = {}
    BY <1>1, <1>2 DEF PageOK, RunningOK
  <2>. QED  BY <1>1, <1>2, <2>1, <2>2 DEF PageOK, ResultOK, awaited
<1>3. CASE awaited # {}
  <2>1. PICK r \in Slot : r \in awaited /\ Simulates(t, r)
    BY <1>1, <1>3
  <2>2. awaited = {r}
    BY <1>1, <2>1 DEF PageOK, RunningOK
  <2>3. Cardinality(awaited) = 1
    BY <2>2, FS_Singleton
  <2>4. page[t].running = {req[r].kind}
    BY <1>1, <2>1 DEF PageOK, RunningOK
  <2>5. {req[x].kind : x \in awaited} = {req[r].kind}
    BY <2>2
  <2>. QED  BY <1>1, <2>3, <2>4, <2>5 DEF PageOK, ResultOK, awaited
<1>. QED  BY <1>2, <1>3

\* Whatever the order in which a tab's answers come, or whichever are lost: the
\* buttons are disabled for the one simulation it waits for, the result that is
\* shown belongs to the simulation that is named (runSimulation,
\* runMLSimulation), and the analytics never load for ever (loadData).
THEOREM PagesHonest == Spec => []DashboardInv
<1>1. ASSUME AllInv PROVE DashboardInv
  <2>1. TypeOK
    BY <1>1 DEF AllInv, IInv, TokensOK, Numbered, TypeOK
  <2>2. ButtonsHonest
    BY <1>1, ButtonsAre
  <2>3. SpinnerHonest
    BY <1>1 DEF AllInv, PagesOK, PageOK, SpinnerOK, SpinnerHonest, Awaited, Awaits, Sent
  <2>. QED  BY <2>1, <2>2, <2>3 DEF DashboardInv
<1>. QED  BY <1>1, PagesInvariant, PTL

\* The load that runSimulation sends with a result shows an overview that is as
\* recent, or is on its way, or failed, or was overtaken by an older load.
THEOREM ReloadsReflect == Spec => []FreshUnlessOverlapped
<1>1. ASSUME AllInv PROVE FreshUnlessOverlapped
  <2>. SUFFICES ASSUME NEW t \in Tab, page[t].result # None
                PROVE  \E r \in Sent :
                          LET shows == page[t].shown["overview"] IN
                          /\ req[r].tab = t /\ req[r].kind = "overview"
                          /\ req[r].reloads = page[t].result
                          /\ \/ req[r].at # "received" \/ req[r].reply # "ok"
                             \/ /\ shows # None
                                /\ shows < r \/ req[shows].version >= req[page[t].result].version
    BY DEF FreshUnlessOverlapped
  <2>1. PICK r \in Slot : Reloads(t, r, page[t].result)
    BY <1>1 DEF AllInv, PagesOK, PageOK, FreshOK
  <2>2. r \in Sent
    BY <2>1 DEF Reloads, Sent
  <2>. QED  BY <2>1, <2>2 DEF Reloads
<1>. QED  BY <1>1, PagesInvariant, PTL
=============================================================================
