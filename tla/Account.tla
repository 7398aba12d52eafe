------------------------------- MODULE Account -------------------------------
(***************************************************************************)
(* Accounts and sessions: the sign-up, sign-in, administrator sign-in,     *)
(* password and profile pages in the tabs of ONE browser, which share its  *)
(* localStorage; the session that AuthContext confirms with /api/auth/me   *)
(* in each tab; AuthGuard, AdminGuard and the account menu; and auth.rs at *)
(* the HTTP server with its one-time codes in Redis and its users table.   *)
(* One person uses the tabs and reads the mail of the addresses in Owned.  *)
(* A password is right or not; a token names the account that it is for.   *)
(***************************************************************************)
EXTENDS Integers, FiniteSets

CONSTANTS
    Tabs,
    Starts,      \* the pages at which the tabs are opened, a set of functions
    Owned,       \* addresses whose mail the person reads
    Strange,     \* other addresses the person may type
    Roles,       \* account types the person chooses
    AdminMail,   \* the address of an administrator's account that exists
    MaxCodes,    \* bound: codes sent
    MaxActs,     \* bound: what the person does: forms sent, links, sign-outs
    MaxEvents,   \* bound: how many of the events of a run happen
    Events       \* what may happen once: "reply" an answer is lost, "redis" a Redis command
                 \* fails, "mail" a mail is lost, "expire" a code expires, "me" a session is
                 \* refused or not confirmed, "profile" the profile is edited,
                 \* "wrong" a wrong code is typed

ASSUME AccountAssumption ==
    /\ IsFiniteSet(Tabs) /\ IsFiniteSet(Owned) /\ IsFiniteSet(Strange)
    /\ Starts \subseteq [Tabs -> {"login", "adminLogin", "signup", "forgot"}]
    /\ Owned \cap Strange = {} /\ AdminMail \notin Owned \cup Strange
    /\ Roles \subseteq {"CARRIER", "CUSTOMER"}
    /\ MaxCodes \in Nat /\ MaxActs \in Nat /\ MaxEvents \in Nat
    /\ Events \subseteq {"reply", "redis", "mail", "expire", "me", "profile", "wrong"}

VARIABLES
    users,       \* the users table
    otp,         \* signup_otp:<address> in Redis, 0 when absent
    mail,        \* mails with a code that are under way
    inbox,       \* mails with a code that were delivered
    storage,     \* localStorage: token, userId, userRole, userName
    tab,         \* each tab: where it is and what React keeps
    call,        \* each tab's form request
    refresh,     \* each tab's request to /api/auth/me
    \* bounds
    codes, acts, events

serverVars  == <<users, otp, mail, inbox>>
countVars   == <<codes, acts>>
vars == <<serverVars, storage, tab, call, refresh, countVars, events>>

Addresses == Owned \cup Strange
None == 0
Wrong == -1      \* a code that was not sent
ADMIN == "ADMIN"

PublicPages == {"login", "adminLogin", "signup", "forgot"}
AppPages == {"dashboard", "seller", "profile", "admin"}

Root == [id |-> 1, email |-> AdminMail, role |-> ADMIN, code |-> None]
Absent == [token |-> None, userId |-> None, userRole |-> "", userName |-> None]
NoSession == [user |-> None, role |-> ""]
Blank == [step |-> 1, email |-> AdminMail, role |-> "", otp |-> None, name |-> None]
NoCall == [kind |-> "", step |-> "idle", email |-> AdminMail, role |-> "", otp |-> None,
           right |-> TRUE, user |-> None, here |-> TRUE]
NoRefresh == [step |-> "idle", token |-> None]

\* A page loaded anew: the providers mount, nothing of the page before is left.
Loaded(page) == [page |-> page, moved |-> TRUE, mounted |-> FALSE, guard |-> FALSE,
                 menu |-> "unmounted",
                 session |-> NoSession, isLoading |-> TRUE, form |-> Blank]

Init ==
    /\ users = {Root}
    /\ otp = [e \in Addresses |-> None] /\ mail = {} /\ inbox = {}
    /\ storage = Absent
    /\ \E start \in Starts : tab = [t \in Tabs |-> Loaded(start[t])]
    /\ call = [t \in Tabs |-> NoCall] /\ refresh = [t \in Tabs |-> NoRefresh]
    /\ codes = 0 /\ acts = 0 /\ events = {}

Event(kind) ==
    kind \in Events \ events /\ Cardinality(events) < MaxEvents /\ events' = events \cup {kind}
NoEvent == UNCHANGED events

\* Something the person does.
Act == acts < MaxActs /\ acts' = acts + 1

AccountOf(id) == CHOOSE u \in users : u.id = id

-----------------------------------------------------------------------------
(* Pages, guards and the session *)

pagesOnly == UNCHANGED <<serverVars, call, countVars>>
personOnly == Act /\ UNCHANGED <<serverVars, call, codes>> /\ NoEvent

\* A link followed within the application: the providers stay mounted, and a request under
\* way goes on, though the form that sent it is gone.
Moved(r, page) == [r EXCEPT !.page = page, !.moved = TRUE, !.form = Blank]

\* The side bar shows the links that the role of this tab's session has; the console has a
\* link to the administrators' sign-in for other accounts.
Links(r) ==
    CASE r.page = "login" -> {"signup", "forgot"}
      [] r.page \in PublicPages \ {"login"} -> {"login"}
      [] OTHER -> {"dashboard", "profile"}
                  \cup (IF r.session.role = "CUSTOMER" THEN {"seller"} ELSE {})
                  \cup (IF r.session.role = ADMIN THEN {"admin"} ELSE {})
                  \cup (IF r.page = "admin" /\ ~r.isLoading /\ r.session.role # ADMIN
                        THEN {"adminLogin"} ELSE {})

FollowLink(t, page) ==
    /\ ~tab[t].moved /\ tab[t].guard /\ page \in Links(tab[t]) \ {tab[t].page}
    /\ tab' = [tab EXCEPT ![t] = Moved(@, page)]
    /\ call' = [call EXCEPT ![t].here = call[t] = NoCall]
    /\ Act /\ UNCHANGED <<serverVars, codes, storage, refresh>> /\ NoEvent

\* The person opens a page by its address. A request under way would be abandoned: that is
\* a lost answer.
Visit(t, page) ==
    /\ call[t] = NoCall
    /\ tab' = [tab EXCEPT ![t] = Loaded(page)]
    /\ refresh' = [refresh EXCEPT ![t] = NoRefresh]
    /\ personOnly /\ UNCHANGED storage

\* AuthGuard's effect: a page of the application needs a token, which it does not check.
AuthGuard(r) ==
    IF r.page \in AppPages /\ storage.token = None
    THEN Moved(r, "login")
    ELSE [r EXCEPT !.guard = TRUE, !.moved = FALSE]

\* The account menu reads the token when the frame of the application mounts.
UserMenu(r) ==
    [r EXCEPT !.menu = CASE r.page \notin AppPages -> "unmounted"
                         [] r.page \in AppPages /\ @ # "unmounted" -> @
                         [] OTHER -> IF storage.token # None THEN "account" ELSE "visitor"]

\* The profile page reads the name when it mounts.
LoadProfile(r) == [r EXCEPT !.form.name = IF r.page = "profile" THEN storage.userName ELSE None]

\* AuthProvider's effect: refresh() up to its request.
StartRefresh(t) ==
    IF storage.token = None
    THEN /\ tab' = [tab EXCEPT ![t] = LoadProfile(UserMenu(AuthGuard(
                        [@ EXCEPT !.mounted = TRUE, !.isLoading = FALSE])))]
         /\ UNCHANGED refresh
    ELSE /\ tab' = [tab EXCEPT ![t] = LoadProfile(UserMenu(AuthGuard([@ EXCEPT !.mounted = TRUE])))]
         /\ refresh' = [refresh EXCEPT ![t] = [step |-> "sent", token |-> storage.token]]

\* The effects of a page that was just shown.
Effects(t) ==
    /\ tab[t].moved
    /\ IF tab[t].mounted
       THEN /\ tab' = [tab EXCEPT ![t] = LoadProfile(UserMenu(AuthGuard(@)))]
            /\ UNCHANGED refresh
       ELSE StartRefresh(t)
    /\ pagesOnly /\ UNCHANGED storage /\ NoEvent

\* /api/auth/me answers from the token alone; an expired token and a request that fails are
\* the same to the page.
Me(t) ==
    /\ refresh[t].step = "sent"
    /\ \/ /\ refresh' = [refresh EXCEPT ![t].step = "ok"] /\ NoEvent
       \/ /\ refresh' = [refresh EXCEPT ![t].step = "failed"] /\ Event("me")
    /\ pagesOnly /\ UNCHANGED <<storage, tab>>

\* refresh() after its request: what it removes or writes is what localStorage holds NOW.
Refreshed(t) ==
    /\ refresh[t].step = "ok"
    /\ LET u == AccountOf(refresh[t].token) IN
       /\ tab' = [tab EXCEPT ![t].session = [user |-> u.id, role |-> u.role], ![t].isLoading = FALSE]
       /\ storage' = [storage EXCEPT !.userRole = u.role]
    /\ refresh' = [refresh EXCEPT ![t] = NoRefresh]
    /\ pagesOnly /\ NoEvent

\* Variant: without the finally block the page stays in its loading state.
RefreshFailedNoFinally(t) ==
    /\ refresh[t].step = "failed"
    /\ tab' = [tab EXCEPT ![t].session = NoSession]
    /\ storage' = [storage EXCEPT !.token = None, !.userRole = ""]
    /\ refresh' = [refresh EXCEPT ![t] = NoRefresh]
    /\ pagesOnly /\ NoEvent

RefreshFailed(t) ==
    /\ refresh[t].step = "failed"
    /\ tab' = [tab EXCEPT ![t].session = NoSession, ![t].isLoading = FALSE]
    /\ storage' = [storage EXCEPT !.token = None, !.userRole = ""]
    /\ refresh' = [refresh EXCEPT ![t] = NoRefresh]
    /\ pagesOnly /\ NoEvent

\* Variant: the guard asks localStorage, as the dashboard does for its links.
AdminGuardStored(t) ==
    tab[t].page = "admin" /\ ~tab[t].isLoading /\ storage.userRole = ADMIN

\* AdminGuard shows what is for administrators.
AdminGuard(t) ==
    tab[t].page = "admin" /\ ~tab[t].isLoading /\ tab[t].session.role = ADMIN

\* The account menu's sign out.
HandleLogout(t) ==
    /\ tab[t].page \in AppPages /\ ~tab[t].moved /\ tab[t].menu = "account"
    /\ storage' = Absent
    /\ tab' = [tab EXCEPT ![t] = Loaded("login")]
    /\ refresh' = [refresh EXCEPT ![t] = NoRefresh]
    /\ personOnly

\* The profile page: the name is all that is kept of the form, and only in localStorage.
ProfileChange(t) ==
    /\ tab[t].page = "profile" /\ ~tab[t].moved /\ Event("profile")
    /\ tab' = [tab EXCEPT ![t].form.name = -1]
    /\ pagesOnly /\ UNCHANGED <<storage, refresh>>

HandleSave(t) ==
    /\ tab[t].page = "profile" /\ ~tab[t].moved /\ tab[t].form.name # storage.userName
    /\ storage' = [storage EXCEPT !.userName = tab[t].form.name]
    /\ pagesOnly /\ UNCHANGED <<tab, refresh>> /\ NoEvent

-----------------------------------------------------------------------------
(* The forms. A tab waits for one form at a time; every button is disabled *)
(* while its own request is pending.                                       *)

Ready(t, page) == tab[t].page = page /\ ~tab[t].moved /\ call[t] = NoCall

Send(t, c) ==
    /\ Act
    /\ call' = [call EXCEPT ![t] = c]
    /\ UNCHANGED <<serverVars, storage, refresh, codes>> /\ NoEvent

\* Step 1 of the sign-up page keeps the details and asks for a code for the address.
SubmitDetails(t, e, role) ==
    /\ Ready(t, "signup") /\ tab[t].form.step = 1
    /\ tab' = [tab EXCEPT ![t].form = [@ EXCEPT !.email = e, !.role = role]]
    /\ Send(t, [NoCall EXCEPT !.kind = "otp", !.step = "sent", !.email = e])

\* The person types a code that some mail held, or one that was not sent. Each code that
\* is sent is a new one: that two draws of about 900000 values agree, and that a wrong code
\* is by chance the one stored, are outside the model.
EnterOtp(t, code) ==
    /\ tab[t].page = "signup" /\ ~tab[t].moved /\ tab[t].form.step = 2 /\ tab[t].form.otp # code
    /\ \/ NoEvent /\ \E m \in inbox : m.to \in Owned /\ m.code = code
       \/ Event("wrong") /\ code = Wrong
    /\ tab' = [tab EXCEPT ![t].form.otp = code]
    /\ pagesOnly /\ UNCHANGED <<storage, refresh>>

\* Step 2 sends the details as they are now, with the code.
SubmitOtp(t) ==
    /\ Ready(t, "signup") /\ tab[t].form.step = 2 /\ tab[t].form.otp # None
    /\ Send(t, [NoCall EXCEPT !.kind = "signup", !.step = "sent", !.email = tab[t].form.email,
                              !.role = tab[t].form.role, !.otp = tab[t].form.otp])
    /\ UNCHANGED tab

BackToDetails(t) ==
    /\ tab[t].page = "signup" /\ ~tab[t].moved /\ tab[t].form.step = 2
    /\ tab' = [tab EXCEPT ![t].form.step = 1]
    /\ personOnly /\ UNCHANGED <<storage, refresh>>

\* The sign-in pages send the address as it was typed: one that sign-up put into lower case
\* is not found when it is typed otherwise, and neither is a wrong password let through.
SubmitSignIn(t, kind, e, right) ==
    /\ Ready(t, kind)
    /\ Send(t, [NoCall EXCEPT !.kind = kind, !.step = "sent", !.email = e, !.right = right])
    /\ UNCHANGED tab

\* The password page; its answer is the same whether the address has an account or not.
SubmitForgot(t, e) ==
    /\ Ready(t, "forgot") /\ tab[t].form.step = 1
    /\ Send(t, [NoCall EXCEPT !.kind = "forgot", !.step = "sent", !.email = e])
    /\ UNCHANGED tab

\* Variant: the user id of the account before is kept.
StoredKeepId(u) ==
    [storage EXCEPT !.token = u.id, !.userId = IF @ = None THEN u.id ELSE @,
                    !.userRole = u.role, !.userName = u.id]

\* What a sign-in or sign-up writes to localStorage. An account has a name: the column is
\* not null and the form requires it, so the pages' test for one always holds.
Stored(u) == [token |-> u.id, userId |-> u.id, userRole |-> u.role, userName |-> u.id]

answered == UNCHANGED <<serverVars, countVars>>

\* onError of every form: a toast.
OnError(t) ==
    /\ call[t].step = "error"
    /\ call' = [call EXCEPT ![t] = NoCall]
    /\ answered /\ UNCHANGED <<storage, tab, refresh>> /\ NoEvent

\* The code is on its way: the sign-up page shows step 2. The password page shows that it
\* has sent the link.
OnSent(t) ==
    /\ call[t].step = "ok" /\ call[t].kind \in {"otp", "forgot"}
    /\ tab' = [tab EXCEPT ![t].form.step = IF call[t].here THEN 2 ELSE @]
    /\ call' = [call EXCEPT ![t] = NoCall]
    /\ answered /\ UNCHANGED <<storage, refresh>> /\ NoEvent

\* Sign-in and sign-up store the account and load its first page; the answer comes to
\* the tab wherever it has gone meanwhile.
HomeOf(role) == CASE role = ADMIN -> "admin" [] role = "CUSTOMER" -> "seller" [] OTHER -> "dashboard"

OnSignedIn(t) ==
    /\ call[t].step = "ok" /\ call[t].kind \in {"signup", "login"}
    /\ LET u == AccountOf(call[t].user) IN
       /\ storage' = Stored(u)
       /\ tab' = [tab EXCEPT ![t] = Loaded(HomeOf(u.role))]
    /\ call' = [call EXCEPT ![t] = NoCall] /\ refresh' = [refresh EXCEPT ![t] = NoRefresh]
    /\ answered /\ NoEvent

\* The administrators' page turns other accounts away, and removes whatever is stored.
OnAdminSignedIn(t) ==
    /\ call[t].step = "ok" /\ call[t].kind = "adminLogin"
    /\ LET u == AccountOf(call[t].user) IN
       IF u.role # ADMIN
       THEN storage' = Absent /\ UNCHANGED <<tab, refresh>>
       ELSE /\ storage' = Stored(u)
            /\ tab' = [tab EXCEPT ![t] = Loaded("admin")]
            /\ refresh' = [refresh EXCEPT ![t] = NoRefresh]
    /\ call' = [call EXCEPT ![t] = NoCall]
    /\ answered /\ NoEvent

\* The answer does not come.
LostReply(t) ==
    /\ call[t].step = "ok" /\ Event("reply")
    /\ call' = [call EXCEPT ![t].step = "error"]
    /\ answered /\ UNCHANGED <<storage, tab, refresh>>

-----------------------------------------------------------------------------
(* The server: auth.rs *)

At(t, kind, step) == call[t].kind = kind /\ call[t].step = step
To(t, step) == call' = [call EXCEPT ![t].step = step]
browserUnchanged == UNCHANGED <<storage, tab, refresh, acts>>

\* send_otp: SETEX replaces the code before; the mail is left to a task of its own.
SendOtp(t) ==
    /\ At(t, "otp", "sent")
    /\ \/ /\ codes < MaxCodes /\ codes' = codes + 1
          /\ otp' = [otp EXCEPT ![call[t].email] = codes + 1]
          /\ mail' = mail \cup {[to |-> call[t].email, code |-> codes + 1]}
          /\ To(t, "ok") /\ NoEvent
       \/ /\ To(t, "error") /\ Event("redis") /\ UNCHANGED <<otp, mail, codes>>
    /\ UNCHANGED <<users, inbox>> /\ browserUnchanged

\* Variant: a code that is absent is let through.
SignUpCheckAbsent(t) ==
    /\ At(t, "signup", "sent")
    /\ To(t, IF otp[call[t].email] \in {None, call[t].otp} THEN "verified" ELSE "error")
    /\ UNCHANGED <<serverVars, codes>> /\ browserUnchanged /\ NoEvent

\* sign_up, 1: the code of the address is the one that was sent with the form.
SignUpCheck(t) ==
    /\ At(t, "signup", "sent")
    /\ To(t, IF otp[call[t].email] = call[t].otp THEN "verified" ELSE "error")
    /\ UNCHANGED <<serverVars, codes>> /\ browserUnchanged /\ NoEvent

Taken(e) == \E u \in users : u.email = e

\* sign_up, 2: the address has no account.
SignUpLookup(t) ==
    /\ At(t, "signup", "verified")
    /\ To(t, IF Taken(call[t].email) THEN "error" ELSE "new")
    /\ UNCHANGED <<serverVars, codes>> /\ browserUnchanged /\ NoEvent

NewUser(t) == [id |-> Cardinality(users) + 1, email |-> call[t].email, role |-> call[t].role,
               code |-> call[t].otp]

\* Variant: nothing but the look-up keeps an address from a second account.
SignUpInsertAgain(t) ==
    /\ At(t, "signup", "new")
    /\ users' = users \cup {NewUser(t)}
    /\ call' = [call EXCEPT ![t].step = "inserted", ![t].user = Cardinality(users) + 1]
    /\ UNCHANGED <<otp, mail, inbox, codes>> /\ browserUnchanged /\ NoEvent

\* sign_up, 3: the insert, which the unique index on the address may refuse.
SignUpInsert(t) ==
    /\ At(t, "signup", "new")
    /\ IF Taken(call[t].email)
       THEN To(t, "error") /\ UNCHANGED users
       ELSE /\ users' = users \cup {NewUser(t)}
            /\ call' = [call EXCEPT ![t].step = "inserted", ![t].user = Cardinality(users) + 1]
    /\ UNCHANGED <<otp, mail, inbox, codes>> /\ browserUnchanged /\ NoEvent

\* sign_up, 4: the code is deleted, or not when Redis fails; the answer has the token.
SignUpDone(t) ==
    /\ At(t, "signup", "inserted")
    /\ \/ otp' = [otp EXCEPT ![call[t].email] = None] /\ NoEvent
       \/ UNCHANGED otp /\ Event("redis")
    /\ To(t, "ok")
    /\ UNCHANGED <<users, mail, inbox, codes>> /\ browserUnchanged

\* sign_in: the account of the address as typed, with its password.
SignIn(t) ==
    /\ call[t].kind \in {"login", "adminLogin"} /\ call[t].step = "sent"
    /\ IF call[t].right /\ Taken(call[t].email)
       THEN call' = [call EXCEPT ![t].step = "ok",
                         ![t].user = (CHOOSE u \in users : u.email = call[t].email).id]
       ELSE To(t, "error")
    /\ UNCHANGED <<serverVars, codes>> /\ browserUnchanged /\ NoEvent

\* forgot_password: the link is mailed by a task of its own, if there is an account.
ForgotPassword(t) ==
    /\ At(t, "forgot", "sent") /\ To(t, "ok")
    /\ UNCHANGED <<serverVars, codes>> /\ browserUnchanged /\ NoEvent

environment == UNCHANGED <<users, storage, tab, call, refresh, countVars>>

MailDelivered(m) ==
    /\ mail' = mail \ {m} /\ inbox' = inbox \cup {m}
    /\ environment /\ UNCHANGED otp /\ NoEvent

MailLost(m) ==
    /\ mail' = mail \ {m} /\ Event("mail")
    /\ environment /\ UNCHANGED <<otp, inbox>>

\* Five minutes have passed since the code was stored.
OtpExpires(e) ==
    /\ otp[e] # None /\ otp' = [otp EXCEPT ![e] = None] /\ Event("expire")
    /\ environment /\ UNCHANGED <<mail, inbox>>

-----------------------------------------------------------------------------
Answers(t) ==
    \/ OnError(t) \/ OnSent(t) \/ OnSignedIn(t) \/ OnAdminSignedIn(t)
    \/ Refreshed(t) \/ RefreshFailed(t) \/ Effects(t)

Server(t) ==
    \/ SendOtp(t) \/ SignUpCheck(t) \/ SignUpLookup(t) \/ SignUpInsert(t) \/ SignUpDone(t)
    \/ SignIn(t) \/ ForgotPassword(t) \/ Me(t)

Person(t) ==
    \/ \E page \in PublicPages \cup AppPages : FollowLink(t, page)
    \/ \E page \in AppPages \cup {"adminLogin"} : Visit(t, page)
    \/ HandleLogout(t) \/ ProfileChange(t) \/ HandleSave(t)
    \/ \E e \in Addresses, r \in Roles : SubmitDetails(t, e, r)
    \/ \E code \in 1..MaxCodes \cup {Wrong} : EnterOtp(t, code)
    \/ SubmitOtp(t) \/ BackToDetails(t)
    \/ \E kind \in {"login", "adminLogin"}, e \in Owned \cup {AdminMail}, right \in BOOLEAN :
          SubmitSignIn(t, kind, e, right)
    \/ \E e \in Owned : SubmitForgot(t, e)

Next ==
    \/ \E t \in Tabs : Answers(t) \/ Server(t) \/ Person(t) \/ LostReply(t)
    \/ \E m \in mail : MailDelivered(m) \/ MailLost(m)
    \/ \E e \in Addresses : OtpExpires(e)

Spec == Init /\ [][Next]_vars

\* Effects run, /api/auth/me answers or fails, and its answer is handled: React and the
\* browser leave none of them waiting, and the gateway bounds a request with a timeout.
SessionStep(t) == Effects(t) \/ Me(t) \/ Refreshed(t) \/ RefreshFailed(t)

FairSpec == Spec /\ \A t \in Tabs : WF_vars(SessionStep(t))

-----------------------------------------------------------------------------
(* Properties *)

Ids == 0..(1 + MaxActs)

\* The types of the state: tables, localStorage, the tabs and their requests.
TypeOK ==
    /\ users \subseteq [id : Ids, email : Addresses \cup {AdminMail},
                        role : Roles \cup {ADMIN}, code : 0..MaxCodes]
    /\ Root \in users
    /\ otp \in [Addresses -> 0..MaxCodes]
    /\ mail \cup inbox \subseteq [to : Addresses, code : 1..MaxCodes]
    /\ storage \in [token : Ids, userId : Ids, userRole : Roles \cup {ADMIN, ""},
                    userName : Ids \cup {-1}]
    /\ tab \in [Tabs ->
          [page : PublicPages \cup AppPages, moved : BOOLEAN, mounted : BOOLEAN, guard : BOOLEAN,
           menu : {"unmounted", "account", "visitor"}, session : [user : Ids, role : Roles \cup {ADMIN, ""}],
           isLoading : BOOLEAN,
           form : [step : {1, 2}, email : Addresses \cup {AdminMail}, role : Roles \cup {""},
                   otp : 0..MaxCodes \cup {Wrong}, name : Ids \cup {-1}]]]
    /\ call \in [Tabs ->
          [kind : {"", "otp", "signup", "login", "adminLogin", "forgot"},
           step : {"idle", "sent", "verified", "new", "inserted", "ok", "error"},
           email : Addresses \cup {AdminMail}, role : Roles \cup {""},
           otp : 0..MaxCodes \cup {Wrong},
           right : BOOLEAN, user : Ids, here : BOOLEAN]]
    /\ refresh \in [Tabs -> [step : {"idle", "sent", "ok", "failed"}, token : Ids]]
    /\ \A t \in Tabs : refresh[t].step # "idle" =>
          /\ tab[t].isLoading
          /\ \E u \in users : u.id = refresh[t].token
    /\ codes \in 0..MaxCodes /\ acts \in 0..MaxActs /\ events \subseteq Events

\* sign_up (auth.rs:126-146): an account exists only for an address of which the person has
\* read the mail, whose code it was that created the account; details edited after a code was
\* sent, codes of other addresses, replaced and expired ones included.
AccountsAreVerified ==
    \A u \in users \ {Root} : u.email \in Owned /\ [to |-> u.email, code |-> u.code] \in inbox

\* sign_up (auth.rs:152-192): two forms sent at once with one code make one account, and a
\* form that is told of success has the account of its address.
OneAccountPerAddress ==
    /\ \A u, v \in users : u.email = v.email => u = v
    /\ \A t \in Tabs : call[t].kind = "signup" /\ call[t].step = "ok" =>
          [id |-> call[t].user, email |-> call[t].email, role |-> call[t].role,
           code |-> call[t].otp] \in users

\* login/page.tsx:30-33 and its like, with AuthContext.tsx:22-26 and UserMenu.tsx:30-33 of other
\* tabs in between: the user id that the room sends with a bid is the one of the token.
StoredIdIsTokens == storage.token # None => storage.userId = storage.token

\* AdminGuard.tsx:8-25: what is for administrators is shown to an account that is one, as
\* the server confirmed it to this tab, whatever other tabs leave in localStorage.
ConsoleIsForAdmins ==
    \A t \in Tabs : AdminGuard(t) => \E u \in users : u.id = tab[t].session.user /\ u.role = ADMIN

\* AuthGuard.tsx:13-27, AuthContext.tsx:13-29: a tab at a page of the application comes to show it
\* with a session that was confirmed or refused, or goes to the sign-in page.
PagesSettle ==
    \A t \in Tabs : tab[t].page \in AppPages ~>
        \/ tab[t].page \notin AppPages
        \/ tab[t].guard /\ ~tab[t].isLoading
=============================================================================
