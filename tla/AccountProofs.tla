---------------------------- MODULE AccountProofs ----------------------------
(***************************************************************************)
(* Proofs about Account, for any number of tabs, addresses, codes and acts *)
(* of the person: accounts are of verified addresses and one per address,  *)
(* localStorage is consistent, and the console is for administrators.      *)
(***************************************************************************)
EXTENDS Account, FiniteSetTheorems, TLAPS

RoleNames == Roles \cup {ADMIN, ""}
Mailboxes == Addresses \cup {AdminMail}

UserRows == [id : Nat, email : Mailboxes, role : RoleNames, code : Nat]
Mails == [to : Addresses, code : Nat]
Stores == [token : Nat, userId : Nat, userRole : RoleNames, userName : Int]
Forms == [step : {1, 2}, email : Mailboxes, role : RoleNames, otp : Nat \cup {Wrong}, name : Int]
Sessions == [user : Nat, role : RoleNames]
TabStates ==
    [page : PublicPages \cup AppPages, moved : BOOLEAN, mounted : BOOLEAN, guard : BOOLEAN,
     menu : {"unmounted", "account", "visitor"}, session : Sessions, isLoading : BOOLEAN, form : Forms]
Calls ==
    [kind : {"", "otp", "signup", "login", "adminLogin", "forgot"},
     step : {"idle", "sent", "verified", "new", "inserted", "ok", "error"},
     email : Mailboxes, role : RoleNames, otp : Nat \cup {Wrong}, right : BOOLEAN, user : Nat, here : BOOLEAN]
Refreshes == [step : {"idle", "sent", "ok", "failed"}, token : Nat]

Shapes ==
    /\ users \subseteq UserRows /\ IsFiniteSet(users)
    /\ codes \in Nat /\ otp \in [Addresses -> 0..codes] /\ mail \cup inbox \subseteq Mails
    /\ storage \in Stores
    /\ tab \in [Tabs -> TabStates] /\ call \in [Tabs -> Calls] /\ refresh \in [Tabs -> Refreshes]

HasRead(code) == \E m \in inbox : m.to \in Owned /\ m.code = code
Typed(code) == code = Wrong \/ HasRead(code)
IsAccount(id) == \E u \in users : u.id = id

UsersInv ==
    /\ AccountsAreVerified
    /\ \A u, v \in users : u.email = v.email => u = v

\* A code was sent to one address only, so a code that the person has read and that
\* is stored for an address was sent to that address.
CodeInv ==
    /\ \A m \in mail \cup inbox : m.code \in 1..codes
    /\ \A m \in mail \cup inbox, e \in Addresses : otp[e] = m.code => m.to = e

StorageInv ==
    /\ StoredIdIsTokens
    /\ storage.token # None => IsAccount(storage.token)

\* A tab r with its refresh f: the form and the session.
PageOK(r, f) ==
    /\ r.form.otp # None => Typed(r.form.otp)
    /\ r.page = "signup" /\ r.form.step = 2 => r.form.email \in Addresses
    /\ r.session.role = ADMIN => \E u \in users : u.id = r.session.user /\ u.role = ADMIN
    /\ f.step # "idle" => IsAccount(f.token)

\* A request c whose form is still shown was sent from that form.
HereOK(r, c) ==
    c.here =>
        /\ c.kind = "otp" => r.page = "signup" /\ r.form.email \in Addresses
        /\ c.kind = "forgot" => r.page = "forgot"

\* How far a request has come.
CallOK(c) ==
    /\ c.kind = "otp" => c.email \in Addresses
    /\ c.kind = "signup" =>
          /\ c.email \in Addresses /\ c.otp # None /\ Typed(c.otp)
          /\ c.step \in {"verified", "new"} =>
                c.email \in Owned /\ [to |-> c.email, code |-> c.otp] \in inbox
          /\ c.step \in {"inserted", "ok"} =>
                [id |-> c.user, email |-> c.email, role |-> c.role, code |-> c.otp] \in users
    /\ c.kind \in {"login", "adminLogin"} /\ c.step = "ok" => IsAccount(c.user)

TabInv(t) == PageOK(tab[t], refresh[t]) /\ HereOK(tab[t], call[t]) /\ CallOK(call[t])

AccountInv == Shapes /\ UsersInv /\ CodeInv /\ StorageInv /\ \A t \in Tabs : TabInv(t)

-----------------------------------------------------------------------------
(* What the pages make of a tab *)

\* The empty values have their types.
LEMMA Empty ==
    /\ Blank \in Forms /\ Blank.step = 1 /\ Blank.step # 2 /\ Blank.otp = None
    /\ NoSession \in Sessions /\ NoSession.role # ADMIN
    /\ NoCall \in Calls /\ NoCall.kind = "" /\ NoCall.here = TRUE
    /\ NoRefresh \in Refreshes /\ NoRefresh.step = "idle"
    /\ Absent \in Stores /\ Absent.token = None
  BY DEF Blank, NoSession, NoCall, NoRefresh, Absent, Forms, Sessions, Calls, Refreshes, Stores,
         RoleNames, Mailboxes, ADMIN, None

\* A page loaded anew has an empty form and no session.
LEMMA LoadedTab ==
    ASSUME NEW page \in PublicPages \cup AppPages
    PROVE  /\ Loaded(page) \in TabStates
           /\ Loaded(page).form = Blank /\ Loaded(page).session = NoSession
           /\ Loaded(page).page = page
  BY Empty DEF Loaded, TabStates

\* A link within the application empties the form and keeps the session.
LEMMA MovedTab ==
    ASSUME NEW r \in TabStates, NEW page \in PublicPages \cup AppPages
    PROVE  /\ Moved(r, page) \in TabStates
           /\ Moved(r, page).form = Blank /\ Moved(r, page).session = r.session
           /\ Moved(r, page).page = page
  BY Empty DEF Moved, TabStates

\* AuthGuard shows the page or moves a page of the application to the sign-in page.
LEMMA GuardedTab ==
    ASSUME NEW r \in TabStates
    PROVE  /\ AuthGuard(r) \in TabStates /\ AuthGuard(r).session = r.session
           /\ \/ AuthGuard(r).page = r.page /\ AuthGuard(r).form = r.form
              \/ r.page \in AppPages /\ AuthGuard(r).page = "login" /\ AuthGuard(r).form = Blank
  <1>1. CASE r.page \in AppPages /\ storage.token = None
    <2>1. "login" \in PublicPages \cup AppPages /\ AuthGuard(r) = Moved(r, "login")
      BY <1>1 DEF AuthGuard, PublicPages
    <2>2. QED
      BY <1>1, <2>1, MovedTab
  <1>2. CASE ~(r.page \in AppPages /\ storage.token = None)
    BY <1>2 DEF AuthGuard, TabStates
  <1>3. QED
    BY <1>1, <1>2

\* The account menu changes nothing else.
LEMMA MenuTab ==
    ASSUME NEW r \in TabStates
    PROVE  /\ UserMenu(r) \in TabStates /\ UserMenu(r).session = r.session
           /\ UserMenu(r).page = r.page /\ UserMenu(r).form = r.form
  <1> DEFINE m == CASE r.page \notin AppPages -> "unmounted"
                    [] r.page \in AppPages /\ r.menu # "unmounted" -> r.menu
                    [] OTHER -> IF storage.token # None THEN "account" ELSE "visitor"
  <1>1. m \in {"unmounted", "account", "visitor"}
    BY DEF TabStates
  <1>2. UserMenu(r) = [r EXCEPT !.menu = m]
    BY DEF UserMenu
  <1> HIDE DEF m
  <1>3. QED
    BY <1>1, <1>2 DEF TabStates

\* The profile page fills in the name.
LEMMA ProfileTab ==
    ASSUME NEW r \in TabStates, storage \in Stores
    PROVE  /\ LoadProfile(r) \in TabStates /\ LoadProfile(r).session = r.session
           /\ LoadProfile(r).page = r.page
           /\ LoadProfile(r).form.otp = r.form.otp /\ LoadProfile(r).form.step = r.form.step
           /\ LoadProfile(r).form.email = r.form.email
  <1> DEFINE n == IF r.page = "profile" THEN storage.userName ELSE None
             f == [r.form EXCEPT !.name = n]
  <1>1. n \in Int
    BY DEF Stores, None
  <1>2. LoadProfile(r) = [r EXCEPT !.form = f]
    BY DEF LoadProfile
  <1>3. r.form \in Forms
    BY DEF TabStates
  <1>4. f \in Forms /\ f.otp = r.form.otp /\ f.step = r.form.step /\ f.email = r.form.email
    <2> HIDE DEF n
    <2> QED
      BY <1>1, <1>3 DEF Forms
  <1> HIDE DEF f
  <1>5. QED
    BY <1>2, <1>4 DEF TabStates

\* The effects of a page: what it is about stays, or it is the sign-in page.
LEMMA ShownTab ==
    ASSUME NEW r \in TabStates, storage \in Stores
    PROVE  LET s == LoadProfile(UserMenu(AuthGuard(r))) IN
           /\ s \in TabStates /\ s.session = r.session
           /\ \/ /\ s.page = r.page /\ s.form.otp = r.form.otp
                 /\ s.form.step = r.form.step /\ s.form.email = r.form.email
              \/ r.page \in AppPages /\ s.page = "login" /\ s.form.otp = None /\ s.form.step = 1
  <1> DEFINE a == AuthGuard(r)
             b == UserMenu(a)
             s == LoadProfile(b)
  <1>1. /\ a \in TabStates /\ a.session = r.session
        /\ \/ a.page = r.page /\ a.form = r.form
           \/ r.page \in AppPages /\ a.page = "login" /\ a.form = Blank
    BY GuardedTab
  <1>2. b \in TabStates /\ b.session = a.session /\ b.page = a.page /\ b.form = a.form
    <2> HIDE DEF a
    <2> QED
      BY <1>1, MenuTab
  <1>3. /\ s \in TabStates /\ s.session = b.session /\ s.page = b.page
        /\ s.form.otp = b.form.otp /\ s.form.step = b.form.step /\ s.form.email = b.form.email
    <2> HIDE DEF b
    <2> QED
      BY <1>2, ProfileTab
  <1> HIDE DEF a, b, s
  <1>4. QED
    BY <1>1, <1>2, <1>3, Empty DEF a, b, s

-----------------------------------------------------------------------------
(* The inductive invariant *)

\* A page with an empty form and no session relies on nothing.
LEMMA FreshTab ==
    ASSUME NEW r, r.form = Blank, r.session = NoSession
    PROVE  PageOK(r, NoRefresh)
  <1>1. r.form.otp = None /\ r.form.step # 2 /\ r.session.role # ADMIN /\ NoRefresh.step = "idle"
    BY Empty
  <1>2. QED
    BY <1>1 DEF PageOK

\* Neither does a tab without a request.
LEMMA IdleCall ==
    ASSUME NEW r
    PROVE  HereOK(r, NoCall) /\ CallOK(NoCall)
  BY Empty DEF HereOK, CallOK

\* One account exists, the tabs are loaded, nothing is under way.
LEMMA AccountInit == Init => AccountInv
  <1> SUFFICES ASSUME Init PROVE AccountInv
    OBVIOUS
  <1>1. PICK start \in Starts : tab = [t \in Tabs |-> Loaded(start[t])]
    BY DEF Init
  <1>2. \A t \in Tabs : /\ tab[t] \in TabStates /\ tab[t].form = Blank /\ tab[t].session = NoSession
                       /\ call[t] = NoCall /\ refresh[t] = NoRefresh
    <2> SUFFICES ASSUME NEW t \in Tabs
                 PROVE  /\ tab[t] \in TabStates /\ tab[t].form = Blank /\ tab[t].session = NoSession
                        /\ call[t] = NoCall /\ refresh[t] = NoRefresh
      OBVIOUS
    <2>1. start[t] \in PublicPages \cup AppPages
      BY AccountAssumption DEF PublicPages
    <2>2. QED
      BY <1>1, <2>1, LoadedTab DEF Init
  <1>3. Shapes
    <2>1. users \subseteq UserRows
      BY DEF Init, Root, UserRows, Mailboxes, RoleNames, None
    <2>2. IsFiniteSet(users)
      BY FS_Singleton DEF Init
    <2>3. codes \in Nat /\ otp \in [Addresses -> 0..codes] /\ mail \cup inbox \subseteq Mails
      BY DEF Init, None
    <2>4. storage \in Stores
      BY Empty DEF Init
    <2>5. tab \in [Tabs -> TabStates]
      BY <1>1, <1>2
    <2>6. call \in [Tabs -> Calls] /\ refresh \in [Tabs -> Refreshes]
      BY Empty DEF Init
    <2>7. QED
      BY <2>1, <2>2, <2>3, <2>4, <2>5, <2>6 DEF Shapes
  <1>4. UsersInv /\ CodeInv
    BY DEF Init, UsersInv, AccountsAreVerified, CodeInv
  <1>5. StorageInv
    BY Empty DEF Init, StorageInv, StoredIdIsTokens
  <1>6. \A t \in Tabs : TabInv(t)
    BY <1>2, FreshTab, IdleCall DEF TabInv
  <1>7. QED
    BY <1>3, <1>4, <1>5, <1>6 DEF AccountInv

\* Accounts and delivered mails only become more.
Grows == users \subseteq users' /\ inbox \subseteq inbox'

\* So what a tab relies on stays, whatever another tab does.
LEMMA GrowingKeeps ==
    ASSUME Grows, NEW r, NEW f, NEW c
    PROVE  /\ PageOK(r, f) => PageOK(r, f)'
           /\ HereOK(r, c) => HereOK(r, c)'
           /\ CallOK(c) => CallOK(c)'
  <1>1. \A n : (Typed(n) => Typed(n)') /\ (IsAccount(n) => IsAccount(n)')
    BY DEF Grows, Typed, HasRead, IsAccount
  <1>2. PageOK(r, f) => PageOK(r, f)'
    BY <1>1 DEF PageOK, Grows
  <1>3. HereOK(r, c) => HereOK(r, c)'
    BY DEF HereOK
  <1>4. CallOK(c) => CallOK(c)'
    BY <1>1 DEF CallOK, Grows
  <1>5. QED
    BY <1>2, <1>3, <1>4

\* A step of the browser, which changes one tab and localStorage at most.
LEMMA BrowserStep ==
    ASSUME AccountInv, NEW t \in Tabs,
           UNCHANGED <<users, otp, mail, inbox, codes>>,
           storage' \in Stores, StorageInv',
           NEW r \in TabStates, tab' = [tab EXCEPT ![t] = r],
           NEW c \in Calls, call' = [call EXCEPT ![t] = c],
           NEW f \in Refreshes, refresh' = [refresh EXCEPT ![t] = f],
           PageOK(r, f), HereOK(r, c), CallOK(c)
    PROVE  AccountInv'
  <1>1. Shapes'
    BY DEF AccountInv, Shapes
  <1>2. UsersInv'
    BY DEF AccountInv, UsersInv, AccountsAreVerified
  <1>3. CodeInv'
    BY DEF AccountInv, CodeInv
  <1>4. \A s \in Tabs : TabInv(s)'
    <2> SUFFICES ASSUME NEW s \in Tabs PROVE TabInv(s)'
      OBVIOUS
    <2>1. Grows
      BY DEF Grows
    <2>2. TabInv(s)
      BY DEF AccountInv
    <2>3. CASE s = t
      <3>1. tab'[s] = r /\ call'[s] = c /\ refresh'[s] = f
        BY <2>3 DEF AccountInv, Shapes
      <3>2. PageOK(r, f)' /\ HereOK(r, c)' /\ CallOK(c)'
        BY <2>1, GrowingKeeps
      <3>3. QED
        BY <3>1, <3>2 DEF TabInv
    <2>4. CASE s # t
      <3>1. tab'[s] = tab[s] /\ call'[s] = call[s] /\ refresh'[s] = refresh[s]
        BY <2>4 DEF AccountInv, Shapes
      <3>2. PageOK(tab[s], refresh[s])  /\ HereOK(tab[s], call[s]) /\ CallOK(call[s])
        BY <2>2 DEF TabInv
      <3>3. QED
        BY <2>1, <3>1, <3>2, GrowingKeeps DEF TabInv
    <2>5. QED
      BY <2>3, <2>4
  <1>5. QED
    BY <1>1, <1>2, <1>3, <1>4 DEF AccountInv

\* A tab as it is, and its parts.
LEMMA TabParts ==
    ASSUME AccountInv, NEW t \in Tabs
    PROVE  /\ tab[t] \in TabStates /\ call[t] \in Calls /\ refresh[t] \in Refreshes
           /\ storage \in Stores /\ StorageInv
           /\ tab = [tab EXCEPT ![t] = tab[t]] /\ call = [call EXCEPT ![t] = call[t]]
           /\ refresh = [refresh EXCEPT ![t] = refresh[t]]
           /\ PageOK(tab[t], refresh[t]) /\ HereOK(tab[t], call[t]) /\ CallOK(call[t])
  BY DEF AccountInv, Shapes, TabInv

\* The person follows a link, opens a page or signs out.
LEMMA NavigationSteps ==
    ASSUME AccountInv, NEW t \in Tabs,
           \/ \E page \in PublicPages \cup AppPages : FollowLink(t, page)
           \/ \E page \in AppPages \cup {"adminLogin"} : Visit(t, page)
           \/ HandleLogout(t)
    PROVE  AccountInv'
  <1> USE TabParts
  <1>1. UNCHANGED <<users, otp, mail, inbox, codes>>
    BY DEF FollowLink, Visit, HandleLogout, personOnly, serverVars
  <1>2. CASE \E page \in PublicPages \cup AppPages : FollowLink(t, page)
    <2>1. PICK page \in PublicPages \cup AppPages : FollowLink(t, page)
      BY <1>2
    <2> DEFINE r == Moved(tab[t], page)
               h == call[t] = NoCall
               c == [call[t] EXCEPT !.here = h]
    <2>2. /\ tab' = [tab EXCEPT ![t] = r] /\ call' = [call EXCEPT ![t] = c]
          /\ UNCHANGED <<storage, refresh>>
      BY <2>1 DEF FollowLink
    <2>3. r \in TabStates /\ r.form = Blank /\ r.session = tab[t].session
      BY MovedTab
    <2>4. PageOK(r, refresh[t])
      <3> HIDE DEF r
      <3>1. r.form.otp = None /\ r.form.step # 2
        BY <2>3, Empty
      <3>2. QED
        BY <2>3, <3>1 DEF PageOK
    <2>5. c \in Calls /\ CallOK(c)
      BY DEF Calls, CallOK
    <2>6. HereOK(r, c)
      <3>1. CASE h
        <4>1. c.kind = ""
          BY <3>1, Empty DEF Calls
        <4>2. QED
          BY <4>1 DEF HereOK
      <3>2. CASE ~h
        <4>1. c.here = FALSE
          BY <3>2 DEF Calls
        <4>2. QED
          BY <4>1 DEF HereOK
      <3>3. QED
        BY <3>1, <3>2
    <2>7. storage' \in Stores /\ StorageInv'
      BY <1>1, <2>2 DEF StorageInv, StoredIdIsTokens, IsAccount
    <2> HIDE DEF r, c
    <2>8. QED
      BY <1>1, <2>2, <2>3, <2>4, <2>5, <2>6, <2>7, BrowserStep
  <1>3. CASE \E page \in AppPages \cup {"adminLogin"} : Visit(t, page)
    <2>1. PICK page \in AppPages \cup {"adminLogin"} : Visit(t, page)
      BY <1>3
    <2>2. /\ tab' = [tab EXCEPT ![t] = Loaded(page)] /\ UNCHANGED <<call, storage>>
          /\ refresh' = [refresh EXCEPT ![t] = NoRefresh] /\ call[t] = NoCall
      BY <2>1 DEF Visit, personOnly
    <2>3. /\ Loaded(page) \in TabStates /\ PageOK(Loaded(page), NoRefresh)
          /\ HereOK(Loaded(page), call[t])
      BY <2>2, LoadedTab, FreshTab, IdleCall DEF PublicPages
    <2>4. storage' \in Stores /\ StorageInv'
      BY <1>1, <2>2 DEF StorageInv, StoredIdIsTokens, IsAccount
    <2>5. QED
      BY <1>1, <2>2, <2>3, <2>4, BrowserStep, Empty
  <1>4. CASE HandleLogout(t)
    <2>1. /\ tab' = [tab EXCEPT ![t] = Loaded("login")] /\ UNCHANGED call
          /\ refresh' = [refresh EXCEPT ![t] = NoRefresh] /\ storage' = Absent
          /\ tab[t].page \in AppPages
      BY <1>4 DEF HandleLogout, personOnly
    <2>2. /\ Loaded("login") \in TabStates /\ PageOK(Loaded("login"), NoRefresh)
      BY LoadedTab, FreshTab DEF PublicPages
    <2>3. HereOK(Loaded("login"), call[t])
      BY <2>1 DEF HereOK, AppPages
    <2>4. storage' \in Stores /\ StorageInv'
      BY <2>1, Empty DEF StorageInv, StoredIdIsTokens
    <2>5. QED
      BY <1>1, <2>1, <2>2, <2>3, <2>4, BrowserStep, Empty
  <1>5. QED
    BY <1>2, <1>3, <1>4

\* Nothing a tab relies on is touched by its effects.
LEMMA ShownKeeps ==
    ASSUME NEW r \in TabStates, storage \in Stores, NEW f, NEW c, PageOK(r, f), HereOK(r, c)
    PROVE  LET s == LoadProfile(UserMenu(AuthGuard(r)))
           IN  s \in TabStates /\ PageOK(s, f) /\ HereOK(s, c)
  <1> DEFINE s == LoadProfile(UserMenu(AuthGuard(r)))
  <1>1. /\ s \in TabStates /\ s.session = r.session
        /\ \/ /\ s.page = r.page /\ s.form.otp = r.form.otp
              /\ s.form.step = r.form.step /\ s.form.email = r.form.email
           \/ r.page \in AppPages /\ s.page = "login" /\ s.form.otp = None /\ s.form.step = 1
    BY ShownTab
  <1> HIDE DEF s
  <1>2. PageOK(s, f)
    BY <1>1 DEF PageOK
  <1>3. HereOK(s, c)
    BY <1>1 DEF HereOK, AppPages
  <1>4. QED
    BY <1>1, <1>2, <1>3 DEF s

\* The effects of a page: guards, menu, profile, and the request for the session with
\* the token of the moment, which is an account's.
LEMMA EffectsStep ==
    ASSUME AccountInv, NEW t \in Tabs, Effects(t)
    PROVE  AccountInv'
  <1> USE TabParts
  <1> DEFINE Shown(r) == LoadProfile(UserMenu(AuthGuard(r)))
  <1>1. /\ UNCHANGED <<users, otp, mail, inbox, codes, call, storage>>
        /\ storage' \in Stores /\ StorageInv'
    BY DEF Effects, pagesOnly, serverVars, countVars, StorageInv, StoredIdIsTokens, IsAccount
  <1>2. PICK r \in {tab[t], [tab[t] EXCEPT !.mounted = TRUE],
                    [tab[t] EXCEPT !.mounted = TRUE, !.isLoading = FALSE]},
             f \in {refresh[t], [step |-> "sent", token |-> storage.token]} :
          /\ tab' = [tab EXCEPT ![t] = Shown(r)]
          /\ refresh' = [refresh EXCEPT ![t] = f]
          /\ f # refresh[t] => storage.token # None
    <2> HIDE DEF Shown
    <2>1. CASE tab[t].mounted
      <3>1. tab' = [tab EXCEPT ![t] = Shown(tab[t])] /\ refresh' = [refresh EXCEPT ![t] = refresh[t]]
        BY <2>1 DEF Effects, Shown
      <3>2. QED
        BY <3>1
    <2>2. CASE ~tab[t].mounted /\ storage.token = None
      <3>1. /\ tab' = [tab EXCEPT ![t] = Shown([tab[t] EXCEPT !.mounted = TRUE, !.isLoading = FALSE])]
            /\ refresh' = [refresh EXCEPT ![t] = refresh[t]]
        BY <2>2 DEF Effects, StartRefresh, Shown
      <3>2. QED
        BY <3>1
    <2>3. CASE ~tab[t].mounted /\ storage.token # None
      <3>1. /\ tab' = [tab EXCEPT ![t] = Shown([tab[t] EXCEPT !.mounted = TRUE])]
            /\ refresh' = [refresh EXCEPT ![t] = [step |-> "sent", token |-> storage.token]]
        BY <2>3 DEF Effects, StartRefresh, Shown
      <3>2. QED
        BY <2>3, <3>1
    <2>4. QED
      BY <2>1, <2>2, <2>3
  <1>3. /\ r \in TabStates /\ r.page = tab[t].page /\ r.form = tab[t].form
        /\ r.session = tab[t].session
    BY DEF TabStates
  <1>4. f \in Refreshes /\ (f.step # "idle" => IsAccount(f.token))
    BY <1>2 DEF Refreshes, Stores, StorageInv, PageOK
  <1>5. PageOK(r, f) /\ HereOK(r, call[t])
    BY <1>3, <1>4 DEF PageOK, HereOK
  <1>6. Shown(r) \in TabStates /\ PageOK(Shown(r), f) /\ HereOK(Shown(r), call[t])
    BY <1>3, <1>5, ShownKeeps
  <1> HIDE DEF Shown
  <1>7. QED
    BY <1>1, <1>2, <1>4, <1>6, BrowserStep

\* AccountOf finds the account.
LEMMA AccountFound ==
    ASSUME Shapes, NEW n, IsAccount(n)
    PROVE  AccountOf(n) \in users /\ AccountOf(n) \in UserRows /\ AccountOf(n).id = n
  BY DEF Shapes, IsAccount, AccountOf

\* /api/auth/me and what refresh() makes of its answer.
LEMMA SessionSteps ==
    ASSUME AccountInv, NEW t \in Tabs, Me(t) \/ Refreshed(t) \/ RefreshFailed(t)
    PROVE  AccountInv'
  <1> USE TabParts
  <1>1. UNCHANGED <<users, otp, mail, inbox, codes, call>>
    BY DEF Me, Refreshed, RefreshFailed, pagesOnly, serverVars, countVars
  <1>2. CASE Me(t)
    <2>1. PICK step \in {"ok", "failed"} : refresh' = [refresh EXCEPT ![t].step = step]
      BY <1>2 DEF Me
    <2> DEFINE f == [refresh[t] EXCEPT !.step = step]
    <2>2. refresh' = [refresh EXCEPT ![t] = f] /\ UNCHANGED <<storage, tab>> /\ refresh[t].step = "sent"
      BY <1>2, <2>1 DEF Me
    <2>3. f \in Refreshes /\ PageOK(tab[t], f)
      BY <2>2 DEF Refreshes, PageOK
    <2>4. storage' \in Stores /\ StorageInv'
      BY <1>1, <2>2 DEF StorageInv, StoredIdIsTokens, IsAccount
    <2> HIDE DEF f
    <2>5. QED
      BY <1>1, <2>2, <2>3, <2>4, BrowserStep
  <1>3. CASE Refreshed(t)
    <2> DEFINE u == AccountOf(refresh[t].token)
               r == [tab[t] EXCEPT !.session = [user |-> u.id, role |-> u.role], !.isLoading = FALSE]
    <2>1. /\ tab' = [tab EXCEPT ![t] = r] /\ storage' = [storage EXCEPT !.userRole = u.role]
          /\ refresh' = [refresh EXCEPT ![t] = NoRefresh] /\ refresh[t].step = "ok"
      BY <1>3 DEF Refreshed
    <2>2. u \in users /\ u \in UserRows
      <3>1. IsAccount(refresh[t].token)
        BY <2>1 DEF PageOK
      <3>2. QED
        BY <3>1, AccountFound DEF AccountInv
    <2> HIDE DEF u
    <2>3. /\ r \in TabStates /\ r.page = tab[t].page /\ r.form = tab[t].form
          /\ r.session.user = u.id /\ r.session.role = u.role
      BY <2>2 DEF TabStates, UserRows, Sessions
    <2> HIDE DEF r
    <2>4. PageOK(r, NoRefresh) /\ HereOK(r, call[t])
      BY <2>2, <2>3, Empty DEF PageOK, HereOK
    <2>5. storage' \in Stores /\ StorageInv'
      BY <1>1, <2>1, <2>2 DEF Stores, UserRows, StorageInv, StoredIdIsTokens, IsAccount
    <2>6. QED
      BY <1>1, <2>1, <2>3, <2>4, <2>5, BrowserStep, Empty
  <1>4. CASE RefreshFailed(t)
    <2> DEFINE r == [tab[t] EXCEPT !.session = NoSession, !.isLoading = FALSE]
    <2>1. /\ tab' = [tab EXCEPT ![t] = r]
          /\ storage' = [storage EXCEPT !.token = None, !.userRole = ""]
          /\ refresh' = [refresh EXCEPT ![t] = NoRefresh]
      BY <1>4 DEF RefreshFailed
    <2>2. /\ r \in TabStates /\ r.page = tab[t].page /\ r.form = tab[t].form
          /\ r.session = NoSession
      BY Empty DEF TabStates
    <2> HIDE DEF r
    <2>3. PageOK(r, NoRefresh) /\ HereOK(r, call[t])
      BY <2>2, Empty DEF PageOK, HereOK
    <2>4. storage' \in Stores /\ StorageInv'
      BY <2>1 DEF Stores, RoleNames, StorageInv, StoredIdIsTokens, None
    <2>5. QED
      BY <1>1, <2>1, <2>2, <2>3, <2>4, BrowserStep, Empty
  <1>5. QED
    BY <1>2, <1>3, <1>4

\* A field of a form is edited.
LEMMA EditedTab ==
    ASSUME NEW r \in TabStates, NEW g \in Forms
    PROVE  LET s == [r EXCEPT !.form = g]
           IN  s \in TabStates /\ s.form = g /\ s.page = r.page /\ s.session = r.session
  BY DEF TabStates

\* The steps that only edit a form.
LEMMA EditSteps ==
    ASSUME AccountInv, NEW t \in Tabs,
           ProfileChange(t) \/ BackToDetails(t) \/ \E code \in 1..MaxCodes \cup {Wrong} : EnterOtp(t, code)
    PROVE  AccountInv'
  <1> USE TabParts
  <1>1. /\ UNCHANGED <<users, otp, mail, inbox, codes, call, storage, refresh>>
        /\ storage' \in Stores /\ StorageInv'
    BY DEF ProfileChange, BackToDetails, EnterOtp, pagesOnly, personOnly, serverVars, countVars,
           StorageInv, StoredIdIsTokens, IsAccount
  <1>2. PICK g \in Forms :
          /\ tab' = [tab EXCEPT ![t] = [tab[t] EXCEPT !.form = g]]
          /\ g.email = tab[t].form.email /\ (g.step = tab[t].form.step \/ g.step = 1)
          /\ g.otp = tab[t].form.otp \/ Typed(g.otp)
    <2>1. tab[t].form \in Forms
      BY DEF TabStates
    <2>2. CASE ProfileChange(t)
      <3> DEFINE g == [tab[t].form EXCEPT !.name = -1]
      <3>1. /\ g \in Forms /\ g.email = tab[t].form.email /\ g.step = tab[t].form.step
            /\ g.otp = tab[t].form.otp
        BY <2>1 DEF Forms
      <3>2. tab' = [tab EXCEPT ![t] = [tab[t] EXCEPT !.form = g]]
        BY <2>2 DEF ProfileChange
      <3>3. QED
        BY <3>1, <3>2
    <2>3. CASE BackToDetails(t)
      <3> DEFINE g == [tab[t].form EXCEPT !.step = 1]
      <3>1. /\ g \in Forms /\ g.email = tab[t].form.email /\ g.step = 1
            /\ g.otp = tab[t].form.otp
        BY <2>1 DEF Forms
      <3>2. tab' = [tab EXCEPT ![t] = [tab[t] EXCEPT !.form = g]]
        BY <2>3 DEF BackToDetails
      <3>3. QED
        BY <3>1, <3>2
    <2>4. ASSUME NEW code \in 1..MaxCodes \cup {Wrong}, EnterOtp(t, code)
          PROVE  \E g \in Forms :
                   /\ tab' = [tab EXCEPT ![t] = [tab[t] EXCEPT !.form = g]]
                   /\ g.email = tab[t].form.email /\ (g.step = tab[t].form.step \/ g.step = 1)
                   /\ g.otp = tab[t].form.otp \/ Typed(g.otp)
      <3> DEFINE g == [tab[t].form EXCEPT !.otp = code]
      <3>1. /\ g \in Forms /\ g.email = tab[t].form.email /\ g.step = tab[t].form.step
            /\ g.otp = code
        BY <2>1 DEF Forms
      <3>2. tab' = [tab EXCEPT ![t] = [tab[t] EXCEPT !.form = g]] /\ Typed(code)
        BY <2>4 DEF EnterOtp, Typed, HasRead
      <3>3. QED
        BY <3>1, <3>2
    <2>5. QED
      BY <2>2, <2>3, <2>4
  <1> DEFINE r == [tab[t] EXCEPT !.form = g]
  <1>3. r \in TabStates /\ r.form = g /\ r.page = tab[t].page /\ r.session = tab[t].session
    BY EditedTab
  <1>4. tab' = [tab EXCEPT ![t] = r]
    BY <1>2
  <1> HIDE DEF r
  <1>5. PageOK(r, refresh[t])
    BY <1>2, <1>3 DEF PageOK
  <1>6. HereOK(r, call[t])
    BY <1>2, <1>3 DEF HereOK
  <1>7. QED
    BY <1>1, <1>3, <1>4, <1>5, <1>6, BrowserStep

\* The profile page stores the name.
LEMMA HandleSaveStep ==
    ASSUME AccountInv, NEW t \in Tabs, HandleSave(t)
    PROVE  AccountInv'
  <1> USE TabParts
  <1>1. /\ UNCHANGED <<users, otp, mail, inbox, codes, call, tab, refresh>>
        /\ storage' = [storage EXCEPT !.userName = tab[t].form.name]
    BY DEF HandleSave, pagesOnly, serverVars, countVars
  <1>2. tab[t].form.name \in Int
    BY DEF TabStates, Forms
  <1>3. storage' \in Stores /\ StorageInv'
    BY <1>1, <1>2 DEF Stores, StorageInv, StoredIdIsTokens, IsAccount
  <1>4. QED
    BY <1>1, <1>3, BrowserStep

\* A form is sent: step 1 of the sign-up page, sign-in, password.
LEMMA SubmitSteps ==
    ASSUME AccountInv, NEW t \in Tabs,
           \/ \E kind \in {"login", "adminLogin"}, e \in Owned \cup {AdminMail}, right \in BOOLEAN :
                 SubmitSignIn(t, kind, e, right)
           \/ \E e \in Owned : SubmitForgot(t, e)
    PROVE  AccountInv'
  <1> USE TabParts
  <1>1. /\ UNCHANGED <<users, otp, mail, inbox, codes, storage, tab, refresh>>
        /\ storage' \in Stores /\ StorageInv'
    BY DEF SubmitSignIn, SubmitForgot, Send, serverVars, StorageInv, StoredIdIsTokens, IsAccount
  <1>2. PICK c \in Calls :
          /\ call' = [call EXCEPT ![t] = c] /\ c.step = "sent"
          /\ c.kind \in {"login", "adminLogin", "forgot"}
          /\ c.kind = "forgot" => tab[t].page = "forgot"
    <2>1. ASSUME NEW kind \in {"login", "adminLogin"}, NEW e \in Owned \cup {AdminMail},
                 NEW right \in BOOLEAN, SubmitSignIn(t, kind, e, right)
          PROVE  \E c \in Calls :
                   /\ call' = [call EXCEPT ![t] = c] /\ c.step = "sent"
                   /\ c.kind \in {"login", "adminLogin", "forgot"}
                   /\ c.kind = "forgot" => tab[t].page = "forgot"
      <3> DEFINE c == [NoCall EXCEPT !.kind = kind, !.step = "sent", !.email = e, !.right = right]
      <3>1. c \in Calls /\ c.kind = kind /\ c.step = "sent"
        BY Empty DEF Calls, Mailboxes, Addresses
      <3>2. call' = [call EXCEPT ![t] = c]
        BY <2>1 DEF SubmitSignIn, Send
      <3> HIDE DEF c
      <3>3. QED
        BY <3>1, <3>2
    <2>2. ASSUME NEW e \in Owned, SubmitForgot(t, e)
          PROVE  \E c \in Calls :
                   /\ call' = [call EXCEPT ![t] = c] /\ c.step = "sent"
                   /\ c.kind \in {"login", "adminLogin", "forgot"}
                   /\ c.kind = "forgot" => tab[t].page = "forgot"
      <3> DEFINE c == [NoCall EXCEPT !.kind = "forgot", !.step = "sent", !.email = e]
      <3>1. c \in Calls /\ c.kind = "forgot" /\ c.step = "sent"
        BY Empty DEF Calls, Mailboxes, Addresses
      <3>2. call' = [call EXCEPT ![t] = c] /\ tab[t].page = "forgot"
        BY <2>2 DEF SubmitForgot, Send, Ready
      <3> HIDE DEF c
      <3>3. QED
        BY <3>1, <3>2
    <2>3. QED
      BY <2>1, <2>2
  <1>3. HereOK(tab[t], c) /\ CallOK(c)
    BY <1>2 DEF HereOK, CallOK
  <1>4. QED
    BY <1>1, <1>2, <1>3, BrowserStep

\* Step 1 of the sign-up page keeps the details it sends.
LEMMA SubmitDetailsStep ==
    ASSUME AccountInv, NEW t \in Tabs, NEW e \in Addresses, NEW role \in Roles, SubmitDetails(t, e, role)
    PROVE  AccountInv'
  <1> USE TabParts
  <1> DEFINE g == [tab[t].form EXCEPT !.email = e, !.role = role]
             r == [tab[t] EXCEPT !.form = g]
             c == [NoCall EXCEPT !.kind = "otp", !.step = "sent", !.email = e]
  <1>1. /\ UNCHANGED <<users, otp, mail, inbox, codes, storage, refresh>>
        /\ storage' \in Stores /\ StorageInv'
    BY DEF SubmitDetails, Send, serverVars, StorageInv, StoredIdIsTokens, IsAccount
  <1>2. tab' = [tab EXCEPT ![t] = r] /\ call' = [call EXCEPT ![t] = c] /\ tab[t].page = "signup"
    BY DEF SubmitDetails, Send, Ready
  <1>3. tab[t].form \in Forms
    BY DEF TabStates
  <1>4. g \in Forms /\ g.email = e /\ g.otp = tab[t].form.otp /\ g.step = tab[t].form.step
    BY <1>3 DEF Forms, Mailboxes, RoleNames
  <1> HIDE DEF g
  <1>5. r \in TabStates /\ r.form = g /\ r.page = tab[t].page /\ r.session = tab[t].session
    BY <1>4, EditedTab
  <1> HIDE DEF r
  <1>6. c \in Calls /\ c.kind = "otp" /\ c.email = e
    BY Empty DEF Calls, Mailboxes
  <1> HIDE DEF c
  <1>7. PageOK(r, refresh[t])
    BY <1>4, <1>5 DEF PageOK
  <1>8. HereOK(r, c) /\ CallOK(c)
    BY <1>2, <1>4, <1>5, <1>6 DEF HereOK, CallOK
  <1>9. QED
    BY <1>1, <1>2, <1>5, <1>6, <1>7, <1>8, BrowserStep

\* Step 2 sends an address and a code that some mail held.
LEMMA SubmitOtpStep ==
    ASSUME AccountInv, NEW t \in Tabs, SubmitOtp(t)
    PROVE  AccountInv'
  <1> USE TabParts
  <1> DEFINE c == [NoCall EXCEPT !.kind = "signup", !.step = "sent", !.email = tab[t].form.email,
                                 !.role = tab[t].form.role, !.otp = tab[t].form.otp]
  <1>1. /\ UNCHANGED <<users, otp, mail, inbox, codes, storage, refresh, tab>>
        /\ storage' \in Stores /\ StorageInv'
    BY DEF SubmitOtp, Send, serverVars, StorageInv, StoredIdIsTokens, IsAccount
  <1>2. /\ call' = [call EXCEPT ![t] = c] /\ tab[t].page = "signup" /\ tab[t].form.step = 2
        /\ tab[t].form.otp # None
    BY DEF SubmitOtp, Send, Ready
  <1>3. tab[t].form \in Forms
    BY DEF TabStates
  <1>4. /\ c \in Calls /\ c.kind = "signup" /\ c.step = "sent"
        /\ c.email = tab[t].form.email /\ c.otp = tab[t].form.otp
    BY <1>3, Empty DEF Calls, Forms
  <1> HIDE DEF c
  <1>5. HereOK(tab[t], c) /\ CallOK(c)
    BY <1>2, <1>4 DEF HereOK, CallOK, PageOK
  <1>6. QED
    BY <1>1, <1>2, <1>4, <1>5, BrowserStep

\* An error, an answer that is lost, and the answers that carry no account.
LEMMA PlainAnswerSteps ==
    ASSUME AccountInv, NEW t \in Tabs, OnError(t) \/ LostReply(t) \/ OnSent(t)
    PROVE  AccountInv'
  <1> USE TabParts
  <1>1. /\ UNCHANGED <<users, otp, mail, inbox, codes, storage, refresh>>
        /\ storage' \in Stores /\ StorageInv'
    BY DEF OnError, LostReply, OnSent, answered, serverVars, countVars,
           StorageInv, StoredIdIsTokens, IsAccount
  <1>2. CASE OnError(t)
    BY <1>1, <1>2, Empty, IdleCall, BrowserStep DEF OnError
  <1>3. CASE LostReply(t)
    <2> DEFINE c == [call[t] EXCEPT !.step = "error"]
    <2>1. call' = [call EXCEPT ![t] = c] /\ UNCHANGED tab
      BY <1>3 DEF LostReply
    <2>2. c \in Calls /\ CallOK(c) /\ HereOK(tab[t], c)
      BY DEF Calls, CallOK, HereOK
    <2> HIDE DEF c
    <2>3. QED
      BY <1>1, <2>1, <2>2, BrowserStep
  <1>4. CASE OnSent(t)
    <2> DEFINE n == IF call[t].here THEN 2 ELSE tab[t].form.step
               g == [tab[t].form EXCEPT !.step = n]
               r == [tab[t] EXCEPT !.form = g]
    <2>1. /\ tab' = [tab EXCEPT ![t] = r] /\ call' = [call EXCEPT ![t] = NoCall]
          /\ call[t].kind \in {"otp", "forgot"}
      BY <1>4 DEF OnSent
    <2>2. tab[t].form \in Forms /\ n \in {1, 2} /\ (n = tab[t].form.step \/ call[t].here)
      BY DEF TabStates, Forms
    <2> HIDE DEF n
    <2>3. g \in Forms /\ g.step = n /\ g.otp = tab[t].form.otp /\ g.email = tab[t].form.email
      BY <2>2 DEF Forms
    <2> HIDE DEF g
    <2>4. r \in TabStates /\ r.form = g /\ r.page = tab[t].page /\ r.session = tab[t].session
      BY <2>3, EditedTab
    <2> HIDE DEF r
    <2>5. PageOK(r, refresh[t])
      <3>1. r.page = "signup" /\ r.form.step = 2 => r.form.email \in Addresses
        BY <2>1, <2>2, <2>3, <2>4 DEF PageOK, HereOK
      <3>2. QED
        BY <2>3, <2>4, <3>1 DEF PageOK
    <2>6. QED
      BY <1>1, <2>1, <2>4, <2>5, Empty, IdleCall, BrowserStep
  <1>5. QED
    BY <1>2, <1>3, <1>4

\* What a sign-in stores is one account's.
LEMMA StoredAccount ==
    ASSUME NEW u \in UserRows
    PROVE  Stored(u) \in Stores /\ Stored(u).token = u.id /\ Stored(u).userId = u.id
  BY DEF Stored, Stores, UserRows

\* Sign-up, sign-in and the administrators' sign-in.
LEMMA SignedInSteps ==
    ASSUME AccountInv, NEW t \in Tabs, OnSignedIn(t) \/ OnAdminSignedIn(t)
    PROVE  AccountInv'
  <1> USE TabParts
  <1> DEFINE u == AccountOf(call[t].user)
  <1>1. UNCHANGED <<users, otp, mail, inbox, codes>> /\ call' = [call EXCEPT ![t] = NoCall]
    BY DEF OnSignedIn, OnAdminSignedIn, answered, serverVars, countVars
  <1>2. u \in users /\ u \in UserRows
    <2>1. IsAccount(call[t].user)
      <3>1. CASE call[t].kind = "signup" /\ call[t].step = "ok"
        BY <3>1 DEF CallOK, IsAccount
      <3>2. CASE call[t].kind \in {"login", "adminLogin"} /\ call[t].step = "ok"
        BY <3>2 DEF CallOK
      <3>3. QED
        BY <3>1, <3>2 DEF OnSignedIn, OnAdminSignedIn
    <2>2. QED
      BY <2>1, AccountFound DEF AccountInv
  <1>3. \/ /\ storage' = Absent /\ UNCHANGED <<tab, refresh>>
        \/ /\ storage' = Stored(u)
           /\ \E page \in AppPages : tab' = [tab EXCEPT ![t] = Loaded(page)]
           /\ refresh' = [refresh EXCEPT ![t] = NoRefresh]
    <2> HIDE DEF u
    <2>1. HomeOf(u.role) \in AppPages /\ "admin" \in AppPages
      BY DEF HomeOf, AppPages
    <2>2. QED
      BY <2>1 DEF OnSignedIn, OnAdminSignedIn, u
  <1> HIDE DEF u
  <1>4. storage' \in Stores /\ StorageInv'
    <2>1. CASE storage' = Absent
      BY <2>1, Empty DEF StorageInv, StoredIdIsTokens
    <2>2. CASE storage' = Stored(u)
      BY <1>1, <1>2, <2>2, StoredAccount DEF StorageInv, StoredIdIsTokens, IsAccount
    <2>3. QED
      BY <1>3, <2>1, <2>2
  <1>5. CASE UNCHANGED <<tab, refresh>>
    BY <1>1, <1>4, <1>5, Empty, IdleCall, BrowserStep
  <1>6. ASSUME NEW page \in AppPages, tab' = [tab EXCEPT ![t] = Loaded(page)],
               refresh' = [refresh EXCEPT ![t] = NoRefresh]
        PROVE  AccountInv'
    <2>1. Loaded(page) \in TabStates /\ PageOK(Loaded(page), NoRefresh)
      BY LoadedTab, FreshTab
    <2>2. QED
      BY <1>1, <1>4, <1>6, <2>1, Empty, IdleCall, BrowserStep
  <1>7. QED
    BY <1>3, <1>5, <1>6

-----------------------------------------------------------------------------
(* The server *)

\* A step of the server for the request of one tab.
LEMMA ServerStep ==
    ASSUME AccountInv, NEW t \in Tabs, Grows,
           users' \subseteq UserRows, IsFiniteSet(users'), codes' \in Nat,
           otp' \in [Addresses -> 0..codes'], mail' \cup inbox' \subseteq Mails,
           UsersInv', CodeInv', UNCHANGED <<storage, tab, refresh>>,
           NEW c \in Calls, call' = [call EXCEPT ![t] = c],
           HereOK(tab[t], c), CallOK(c)'
    PROVE  AccountInv'
  <1>1. Shapes'
    BY DEF AccountInv, Shapes
  <1>2. StorageInv'
    BY DEF AccountInv, StorageInv, StoredIdIsTokens, IsAccount, Grows
  <1>3. \A s \in Tabs : TabInv(s)'
    <2> SUFFICES ASSUME NEW s \in Tabs PROVE TabInv(s)'
      OBVIOUS
    <2>1. PageOK(tab[s], refresh[s]) /\ HereOK(tab[s], call[s]) /\ CallOK(call[s])
      BY DEF AccountInv, TabInv
    <2>2. tab'[s] = tab[s] /\ refresh'[s] = refresh[s] /\ call'[s] = IF s = t THEN c ELSE call[s]
      BY DEF AccountInv, Shapes
    <2>3. PICK r, f, d : r = tab[s] /\ f = refresh[s] /\ d = call[s]
      OBVIOUS
    <2>4. CASE s = t
      <3>1. PageOK(r, f)' /\ HereOK(r, c)' /\ CallOK(c)'
        BY <2>1, <2>3, <2>4, GrowingKeeps
      <3>2. QED
        BY <2>2, <2>3, <2>4, <3>1 DEF TabInv
    <2>5. CASE s # t
      <3>1. PageOK(r, f)' /\ HereOK(r, d)' /\ CallOK(d)'
        BY <2>1, <2>3, GrowingKeeps
      <3>2. QED
        BY <2>2, <2>3, <2>5, <3>1 DEF TabInv
    <2>6. QED
      BY <2>4, <2>5
  <1>4. QED
    BY <1>1, <1>2, <1>3 DEF AccountInv

\* The steps that change nothing but the request: look-ups, the check of the code,
\* sign-in.  The code of the address is one the person has read, so it was sent there.
LEMMA LookupSteps ==
    ASSUME AccountInv, NEW t \in Tabs,
           SignUpCheck(t) \/ SignUpLookup(t) \/ SignIn(t) \/ ForgotPassword(t)
    PROVE  AccountInv'
  <1> USE TabParts
  <1>1. /\ UNCHANGED <<users, otp, mail, inbox, codes, storage, tab, refresh>>
        /\ storage' \in Stores /\ StorageInv'
    BY DEF SignUpCheck, SignUpLookup, SignIn, ForgotPassword, browserUnchanged, serverVars,
           StorageInv, StoredIdIsTokens, IsAccount
  <1>2. ASSUME NEW step \in {"verified", "new", "ok", "error"},
               To(t, step), CallOK([call[t] EXCEPT !.step = step])
        PROVE  AccountInv'
    <2> DEFINE c == [call[t] EXCEPT !.step = step]
    <2>1. call' = [call EXCEPT ![t] = c] /\ CallOK(c)
      BY <1>2 DEF To
    <2>2. c \in Calls /\ HereOK(tab[t], c)
      BY DEF Calls, HereOK
    <2> HIDE DEF c
    <2>3. QED
      BY <1>1, <2>1, <2>2, BrowserStep
  <1>3. CASE SignUpCheck(t)
    <2>1. call[t].kind = "signup"
      BY <1>3 DEF SignUpCheck, At
    <2>2. CASE otp[call[t].email] = call[t].otp
      <3>0. call[t].otp # Wrong
        <4>1. call[t].email \in Addresses /\ Shapes
          BY <2>1 DEF CallOK, AccountInv
        <4>2. otp[call[t].email] \in 0..codes /\ codes \in Nat
          BY <4>1 DEF Shapes
        <4>3. QED
          BY <2>2, <4>2 DEF Wrong
      <3>1. PICK m \in inbox : m.to \in Owned /\ m.code = call[t].otp
        BY <2>1, <3>0 DEF CallOK, Typed, HasRead
      <3>2. m.to = call[t].email /\ m \in Mails
        <4>1. Shapes /\ CodeInv
          BY DEF AccountInv
        <4>2. call[t].email \in Addresses
          BY <2>1 DEF CallOK
        <4>3. QED
          BY <2>2, <3>1, <4>1, <4>2 DEF Shapes, CodeInv
      <3>3. m = [to |-> call[t].email, code |-> call[t].otp]
        BY <3>1, <3>2 DEF Mails
      <3>4. To(t, "verified") /\ CallOK([call[t] EXCEPT !.step = "verified"])
        BY <1>3, <2>1, <2>2, <3>1, <3>2, <3>3 DEF SignUpCheck, CallOK, Calls
      <3>5. QED
        BY <3>4, <1>2
    <2>3. CASE otp[call[t].email] # call[t].otp
      <3>1. To(t, "error") /\ CallOK([call[t] EXCEPT !.step = "error"])
        BY <1>3, <2>1, <2>3 DEF SignUpCheck, CallOK, Calls
      <3>2. QED
        BY <3>1, <1>2
    <2>4. QED
      BY <2>2, <2>3
  <1>4. CASE SignUpLookup(t)
    <2>1. call[t].kind = "signup" /\ call[t].step = "verified"
      BY <1>4 DEF SignUpLookup, At
    <2>2. \E step \in {"new", "error"} : To(t, step) /\ CallOK([call[t] EXCEPT !.step = step])
      BY <1>4, <2>1 DEF SignUpLookup, CallOK, Calls
    <2>3. QED
      BY <2>2, <1>2
  <1>5. CASE SignIn(t)
    <2>1. call[t].kind \in {"login", "adminLogin"}
      BY <1>5 DEF SignIn
    <2>2. CASE call[t].right /\ Taken(call[t].email)
      <3> DEFINE u == CHOOSE v \in users : v.email = call[t].email
                 c == [call[t] EXCEPT !.step = "ok", !.user = u.id]
      <3>1. u \in users /\ u \in UserRows
        BY <2>2 DEF Taken, AccountInv, Shapes
      <3>2. call' = [call EXCEPT ![t] = c]
        BY <1>5, <2>2 DEF SignIn
      <3> HIDE DEF u
      <3>3. c \in Calls /\ c.kind = call[t].kind /\ c.here = call[t].here /\ c.user = u.id
        BY <3>1 DEF Calls, UserRows
      <3> HIDE DEF c
      <3>4. HereOK(tab[t], c) /\ CallOK(c)
        BY <2>1, <3>1, <3>3 DEF HereOK, CallOK, IsAccount
      <3>5. QED
        BY <1>1, <3>2, <3>3, <3>4, BrowserStep
    <2>3. CASE ~(call[t].right /\ Taken(call[t].email))
      <3>1. To(t, "error") /\ CallOK([call[t] EXCEPT !.step = "error"])
        BY <1>5, <2>1, <2>3 DEF SignIn, CallOK, Calls
      <3>2. QED
        BY <3>1, <1>2
    <2>4. QED
      BY <2>2, <2>3
  <1>6. CASE ForgotPassword(t)
    <2>1. To(t, "ok") /\ CallOK([call[t] EXCEPT !.step = "ok"])
      BY <1>6 DEF ForgotPassword, At, CallOK, Calls
    <2>2. QED
      BY <2>1, <1>2
  <1>7. QED
    BY <1>3, <1>4, <1>5, <1>6

\* send_otp: the code is new, and goes to the address it is stored for.
LEMMA SendOtpStep ==
    ASSUME AccountInv, NEW t \in Tabs, SendOtp(t)
    PROVE  AccountInv'
  <1> USE TabParts
  <1>0. Shapes /\ UsersInv /\ CodeInv
    BY DEF AccountInv
  <1>1. /\ UNCHANGED <<users, inbox, storage, tab, refresh>> /\ call[t].kind = "otp" /\ Grows
    BY DEF SendOtp, At, browserUnchanged, Grows
  <1>2. PICK step \in {"ok", "error"} : call' = [call EXCEPT ![t].step = step]
    BY DEF SendOtp, To
  <1>9. PICK c : c = [call[t] EXCEPT !.step = step]
    OBVIOUS
  <1>3. /\ call' = [call EXCEPT ![t] = c] /\ c \in Calls /\ HereOK(tab[t], c)
        /\ c.kind = "otp" /\ c.email = call[t].email
    BY <1>1, <1>2, <1>9 DEF Calls, HereOK
  <1>4. CallOK(c)'
    BY <1>1, <1>3 DEF CallOK
  <1>5. UsersInv' /\ users' \subseteq UserRows /\ IsFiniteSet(users')
    BY <1>0, <1>1 DEF Shapes, UsersInv, AccountsAreVerified
  <1>6. CASE UNCHANGED <<otp, mail, codes>>
    <2>1. /\ codes' \in Nat /\ otp' \in [Addresses -> 0..codes'] /\ mail' \cup inbox' \subseteq Mails
          /\ CodeInv'
      BY <1>0, <1>1, <1>6 DEF Shapes, CodeInv
    <2>2. QED
      BY <1>1, <1>3, <1>4, <1>5, <2>1, ServerStep
  <1>7. CASE /\ codes' = codes + 1 /\ otp' = [otp EXCEPT ![call[t].email] = codes + 1]
             /\ mail' = mail \cup {[to |-> call[t].email, code |-> codes + 1]}
    <2>1. call[t].email \in Addresses /\ codes \in Nat /\ codes' \in Nat
      <3>1. codes \in Nat
        BY <1>0 DEF Shapes
      <3>2. call[t].email \in Addresses
        BY <1>1 DEF CallOK
      <3>3. QED
        BY <1>7, <3>1, <3>2
    <2>2. /\ otp' \in [Addresses -> 0..codes']
          /\ otp'[call[t].email] = codes + 1
          /\ \A e \in Addresses : e # call[t].email => otp'[e] = otp[e]
          /\ \A e \in Addresses : otp[e] \in 0..codes
      BY <1>0, <1>7, <2>1 DEF Shapes
    <2>3. mail' \cup inbox' \subseteq Mails
      BY <1>0, <1>1, <1>7, <2>1 DEF Shapes, Mails
    <2>4. \A m \in mail' \cup inbox' :
             \/ m \in mail \cup inbox /\ m.code \in 1..codes
             \/ m.to = call[t].email /\ m.code = codes + 1
      BY <1>0, <1>1, <1>7 DEF CodeInv
    <2>5. CodeInv'
      <3>1. \A m \in mail' \cup inbox' : m.code \in 1..codes'
        BY <1>7, <2>1, <2>4
      <3>2. ASSUME NEW m \in mail' \cup inbox', NEW e \in Addresses, otp'[e] = m.code
            PROVE  m.to = e
        <4>1. CASE m \in mail \cup inbox /\ m.code \in 1..codes
          <5>1. e # call[t].email
            BY <2>1, <2>2, <3>2, <4>1
          <5>2. QED
            BY <1>0, <2>2, <3>2, <4>1, <5>1 DEF CodeInv
        <4>2. CASE m.to = call[t].email /\ m.code = codes + 1
          BY <2>1, <2>2, <3>2, <4>2
        <4>3. QED
          BY <2>4, <4>1, <4>2
      <3>3. QED
        BY <3>1, <3>2 DEF CodeInv
    <2>6. QED
      BY <1>1, <1>3, <1>4, <1>5, <2>1, <2>2, <2>3, <2>5, ServerStep
  <1>8. QED
    BY <1>6, <1>7 DEF SendOtp

\* sign_up's insert: the unique index refuses an address that has an account by now.
LEMMA SignUpInsertStep ==
    ASSUME AccountInv, NEW t \in Tabs, SignUpInsert(t)
    PROVE  AccountInv'
  <1> USE TabParts
  <1>1. Shapes /\ UsersInv /\ CodeInv
    BY DEF AccountInv
  <1>2. /\ UNCHANGED <<otp, mail, inbox, codes, storage, tab, refresh>>
        /\ call[t].kind = "signup" /\ call[t].step = "new"
    BY DEF SignUpInsert, At, browserUnchanged
  <1>3. CASE Taken(call[t].email)
    <2> DEFINE c == [call[t] EXCEPT !.step = "error"]
    <2>1. call' = [call EXCEPT ![t] = c] /\ UNCHANGED users
      BY <1>3 DEF SignUpInsert, To
    <2>2. c \in Calls /\ HereOK(tab[t], c) /\ CallOK(c)
      BY <1>2 DEF Calls, HereOK, CallOK
    <2>3. storage' \in Stores /\ StorageInv'
      BY <1>2, <2>1 DEF StorageInv, StoredIdIsTokens, IsAccount
    <2> HIDE DEF c
    <2>4. QED
      BY <1>2, <2>1, <2>2, <2>3, BrowserStep
  <1>4. CASE ~Taken(call[t].email)
    <2>1. PICK n : n = Cardinality(users) + 1
      OBVIOUS
    <2>2. PICK u : u = [id |-> n, email |-> call[t].email, role |-> call[t].role, code |-> call[t].otp]
      OBVIOUS
    <2>3. PICK c : c = [call[t] EXCEPT !.step = "inserted", !.user = n]
      OBVIOUS
    <2>4. users' = users \cup {u} /\ call' = [call EXCEPT ![t] = c]
      BY <1>4, <2>1, <2>2, <2>3 DEF SignUpInsert, NewUser
    <2>5. n \in Nat /\ IsFiniteSet(users')
      <3>1. Cardinality(users) \in Nat
        BY <1>1, FS_CardinalityType DEF Shapes
      <3>2. IsFiniteSet(users')
        BY <1>1, <2>4, FS_AddElement DEF Shapes
      <3>3. QED
        BY <2>1, <3>1, <3>2
    <2>6. u \in UserRows /\ users' \subseteq UserRows
      <3>1. call[t].email \in Mailboxes /\ call[t].role \in RoleNames /\ call[t].otp \in Nat
        <4>1. [to |-> call[t].email, code |-> call[t].otp] \in Mails
          BY <1>1, <1>2 DEF CallOK, Shapes
        <4>2. QED
          BY <4>1 DEF Calls, Mails
      <3>2. u \in UserRows
        BY <2>2, <2>5, <3>1 DEF UserRows
      <3>3. users \subseteq UserRows
        BY <1>1 DEF Shapes
      <3>4. QED
        BY <2>4, <3>2, <3>3
    <2>7. /\ c \in Calls /\ c.kind = "signup" /\ c.step = "inserted" /\ c.user = n
          /\ c.email = call[t].email /\ c.role = call[t].role /\ c.otp = call[t].otp
          /\ c.here = call[t].here
      BY <1>2, <2>3, <2>5 DEF Calls
    <2>8. Grows /\ UNCHANGED inbox
      BY <1>2, <2>4 DEF Grows
    <2>9. UsersInv'
      <3>1. u.email \in Owned /\ [to |-> u.email, code |-> u.code] \in inbox
        BY <1>2, <2>2 DEF CallOK
      <3>2. \A v \in users : v.email # u.email
        BY <1>4, <2>2 DEF Taken
      <3>3. QED
        BY <1>1, <2>4, <2>8, <3>1, <3>2 DEF UsersInv, AccountsAreVerified
    <2>10. CodeInv' /\ codes' \in Nat /\ otp' \in [Addresses -> 0..codes'] /\ mail' \cup inbox' \subseteq Mails
      BY <1>1, <1>2 DEF CodeInv, Shapes
    <2>11. CallOK(c)'
      <3>1. c.email \in Addresses /\ c.otp # None /\ Typed(c.otp)'
        BY <1>2, <2>7, <2>8 DEF CallOK, Typed, HasRead
      <3>2. [id |-> c.user, email |-> c.email, role |-> c.role, code |-> c.otp] \in users'
        BY <2>2, <2>4, <2>7
      <3>3. QED
        BY <2>7, <3>1, <3>2 DEF CallOK
    <2>12. HereOK(tab[t], c)
      BY <2>7 DEF HereOK
    <2>13. QED
      BY <1>2, <2>4, <2>5, <2>6, <2>7, <2>8, <2>9, <2>10, <2>11, <2>12, ServerStep
  <1>5. QED
    BY <1>3, <1>4

\* The end of sign_up: the code is deleted or, when Redis fails, is not.
LEMMA SignUpDoneStep ==
    ASSUME AccountInv, NEW t \in Tabs, SignUpDone(t)
    PROVE  AccountInv'
  <1> USE TabParts
  <1>1. Shapes /\ UsersInv /\ CodeInv
    BY DEF AccountInv
  <1>2. /\ UNCHANGED <<users, mail, inbox, codes, storage, tab, refresh>>
        /\ call[t].kind = "signup" /\ call[t].step = "inserted"
        /\ call' = [call EXCEPT ![t].step = "ok"]
        /\ otp' = otp \/ otp' = [otp EXCEPT ![call[t].email] = None]
    BY DEF SignUpDone, At, To, browserUnchanged
  <1>3. PICK c : c = [call[t] EXCEPT !.step = "ok"]
    OBVIOUS
  <1>4. /\ c \in Calls /\ c.kind = "signup" /\ c.step = "ok" /\ c.user = call[t].user
        /\ c.email = call[t].email /\ c.role = call[t].role /\ c.otp = call[t].otp
        /\ call' = [call EXCEPT ![t] = c]
    BY <1>2, <1>3 DEF Calls
  <1>5. HereOK(tab[t], c) /\ CallOK(c)
    BY <1>2, <1>4 DEF HereOK, CallOK
  <1>6. Grows /\ CallOK(c)'
    BY <1>2, <1>5, GrowingKeeps DEF Grows
  <1>7. UsersInv' /\ users' \subseteq UserRows /\ IsFiniteSet(users') /\ codes' \in Nat
    BY <1>1, <1>2 DEF Shapes, UsersInv, AccountsAreVerified
  <1>8. codes \in Nat /\ \A e \in Addresses : otp'[e] \in {otp[e], 0} /\ otp'[e] \in 0..codes
    BY <1>1, <1>2 DEF Shapes, None
  <1>9. otp' \in [Addresses -> 0..codes'] /\ mail' \cup inbox' \subseteq Mails
    BY <1>1, <1>2, <1>8 DEF Shapes
  <1>10. CodeInv'
    BY <1>1, <1>2, <1>8 DEF CodeInv
  <1>11. QED
    BY <1>2, <1>4, <1>5, <1>6, <1>7, <1>9, <1>10, ServerStep

\* Mails arrive or are lost, and codes expire.
LEMMA EnvironmentSteps ==
    ASSUME AccountInv,
           \/ \E m \in mail : MailDelivered(m) \/ MailLost(m)
           \/ \E e \in Addresses : OtpExpires(e)
    PROVE  AccountInv'
  <1>1. /\ Shapes /\ UsersInv /\ CodeInv /\ StorageInv /\ \A t \in Tabs : TabInv(t)
    BY DEF AccountInv
  <1>2. /\ UNCHANGED <<users, storage, tab, call, refresh, codes>>
        /\ inbox \subseteq inbox' /\ mail' \cup inbox' \subseteq mail \cup inbox
        /\ otp' = otp \/ \E e \in Addresses : otp' = [otp EXCEPT ![e] = None]
    BY DEF MailDelivered, MailLost, OtpExpires, environment, countVars
  <1>3. codes \in Nat /\ \A e \in Addresses : otp'[e] \in {otp[e], 0} /\ otp'[e] \in 0..codes
    BY <1>1, <1>2 DEF Shapes, None
  <1>4. otp' \in [Addresses -> 0..codes]
    BY <1>1, <1>2, <1>3 DEF Shapes
  <1>5. Shapes'
    BY <1>1, <1>2, <1>4 DEF Shapes
  <1>6. UsersInv'
    BY <1>1, <1>2 DEF UsersInv, AccountsAreVerified
  <1>7. CodeInv'
    BY <1>1, <1>2, <1>3 DEF CodeInv
  <1>8. StorageInv'
    BY <1>1, <1>2 DEF StorageInv, StoredIdIsTokens, IsAccount
  <1>9. ASSUME NEW t \in Tabs PROVE TabInv(t)'
    <2>1. Grows
      BY <1>2 DEF Grows
    <2>2. PICK r, f, c : r = tab[t] /\ f = refresh[t] /\ c = call[t]
      OBVIOUS
    <2>3. PageOK(r, f)' /\ HereOK(r, c)' /\ CallOK(c)'
      BY <1>1, <2>1, <2>2, GrowingKeeps DEF TabInv
    <2>4. QED
      BY <1>2, <2>2, <2>3 DEF TabInv
  <1>10. QED
    BY <1>5, <1>6, <1>7, <1>8, <1>9 DEF AccountInv

\* Every step keeps the invariant.
LEMMA AccountStep == AccountInv /\ [Next]_vars => AccountInv'
  <1> SUFFICES ASSUME AccountInv, [Next]_vars PROVE AccountInv'
    OBVIOUS
  <1>1. CASE UNCHANGED vars
    BY <1>1 DEF vars, serverVars, countVars, AccountInv, Shapes, UsersInv, AccountsAreVerified, CodeInv,
                StorageInv, StoredIdIsTokens, TabInv, PageOK, HereOK, CallOK, Typed, HasRead, IsAccount
  <1>2. ASSUME NEW t \in Tabs, Answers(t) PROVE AccountInv'
    BY <1>2, PlainAnswerSteps, SignedInSteps, SessionSteps, EffectsStep DEF Answers
  <1>3. ASSUME NEW t \in Tabs, Server(t) PROVE AccountInv'
    BY <1>3, SendOtpStep, LookupSteps, SignUpInsertStep, SignUpDoneStep, SessionSteps DEF Server
  <1>4. ASSUME NEW t \in Tabs, Person(t) PROVE AccountInv'
    BY <1>4, NavigationSteps, EditSteps, HandleSaveStep, SubmitSteps, SubmitDetailsStep, SubmitOtpStep
       DEF Person
  <1>5. ASSUME NEW t \in Tabs, LostReply(t) PROVE AccountInv'
    BY <1>5, PlainAnswerSteps
  <1>6. QED
    BY <1>1, <1>2, <1>3, <1>4, <1>5, EnvironmentSteps DEF Next

\* The invariant of accounts and sessions.
THEOREM AccountInvariant == Spec => []AccountInv
  BY AccountInit, AccountStep, PTL DEF Spec

-----------------------------------------------------------------------------
(* The results *)

\* sign_up: an account exists only for an address whose mail the person has read,
\* and it was created with the code of that mail.
THEOREM VerifiedAccounts == Spec => []AccountsAreVerified
  <1>1. AccountInv => AccountsAreVerified
    BY DEF AccountInv, UsersInv
  <1>2. QED
    BY <1>1, AccountInvariant, PTL

\* sign_up: an address has one account, and a form that is told of success has the
\* account it asked for.
THEOREM UniqueAccounts == Spec => []OneAccountPerAddress
  <1>1. AccountInv => OneAccountPerAddress
    BY DEF AccountInv, UsersInv, TabInv, CallOK, OneAccountPerAddress
  <1>2. QED
    BY <1>1, AccountInvariant, PTL

\* login, sign-up, AuthContext and the account menu: the stored user id is the token's.
THEOREM StoredIds == Spec => []StoredIdIsTokens
  <1>1. AccountInv => StoredIdIsTokens
    BY DEF AccountInv, StorageInv
  <1>2. QED
    BY <1>1, AccountInvariant, PTL

\* AdminGuard: the administrators' console is shown to an administrator's account.
THEOREM AdminConsole == Spec => []ConsoleIsForAdmins
  <1>1. AccountInv => ConsoleIsForAdmins
    BY DEF AccountInv, TabInv, PageOK, ConsoleIsForAdmins, AdminGuard
  <1>2. QED
    BY <1>1, AccountInvariant, PTL
=============================================================================
