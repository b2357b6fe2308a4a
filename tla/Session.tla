-------------------------------- MODULE Session --------------------------------
(***************************************************************************)
(* Signing in and out: AuthService, the dialog of every page and the forms  *)
(* of the sign-in, registration and verification pages.  Nothing cancels a *)
(* request: an answer is handled whatever the person has opened, closed or  *)
(* left since.  Implements Account.                                        *)
(***************************************************************************)
EXTENDS Account

CONSTANT MaxAuths   \* bound: requests in a behaviour

ASSUME MaxAuthsAssumption == MaxAuths \in Nat

VARIABLES
    modal,        \* the dialog: open, mode, loading
    route,        \* the page shown
    formLoading,  \* the loading signal of the form on that page
    auths,        \* requests under way
    nextAuth,     \* number of the next one
    mixed         \* ghost: two sign-ins have overlapped, or one was cut in two

sessionVars == <<modal, route, formLoading, auths, nextAuth, mixed>>
signingVars == <<sessionVars, account>>

Kinds == {"login", "register", "verify"}            \* a page each
Routes == Kinds \cup {"landing", "metrics", "dashboard"}
Modes == {"login", "register"}

\* form "gone": the page that sent it has been left.
Auth == [id : 1..MaxAuths, form : {"modal", "page", "gone"}, kind : Kinds,
         account : Accounts, answered : BOOLEAN]

\* The requests whose answer is a session, and of those the ones that are out.
SignsIn(r) == r.kind # "register"
SignIns == {r \in auths : SignsIn(r)}

SessionInit ==
    /\ modal = [open |-> FALSE, mode |-> "login", loading |-> FALSE]
    /\ route = "landing"
    /\ formLoading = FALSE
    /\ auths = {}
    /\ nextAuth = 1
    /\ mixed \in BOOLEAN     \* an earlier visit may have left it so

-------------------------------------------------------------------------------
\* The navigation bar: "Sign In" and "Register", or "Sign Out".
SignInShown == ~isAuthenticated

\* AuthModalService.open: from the buttons shown to who is not signed in.
OpenModal(mode) ==
    /\ SignInShown
    /\ modal' = [modal EXCEPT !.open = TRUE, !.mode = mode]
    /\ UNCHANGED <<route, formLoading, auths, nextAuth, mixed, account>>

\* The cross and the backdrop.  A request of the dialog goes on.
CloseModal ==
    /\ modal.open
    /\ modal' = [modal EXCEPT !.open = FALSE]
    /\ UNCHANGED <<route, formLoading, auths, nextAuth, mixed, account>>

Request(f, k, a) ==
    /\ nextAuth <= MaxAuths
    /\ auths' = auths \cup {[id |-> nextAuth, form |-> f, kind |-> k,
                             account |-> a, answered |-> FALSE]}
    /\ nextAuth' = nextAuth + 1
    /\ mixed' = (mixed \/ (k # "register" /\ SignIns # {}))

\* AuthModalComponent.onSubmit.
SubmitModal(a) ==
    /\ modal.open
    /\ ~modal.loading
    /\ Request("modal", modal.mode, a)
    /\ modal' = [modal EXCEPT !.loading = TRUE]
    /\ UNCHANGED <<route, formLoading, account>>

\* submit of the form on a page.
Submit(kind, a) ==
    /\ ~formLoading
    /\ Request("page", kind, a)
    /\ formLoading' = TRUE
    /\ UNCHANGED <<modal, route, account>>

SubmitLogin(a) == route = "login" /\ Submit("login", a)
SubmitRegister(a) == route = "register" /\ Submit("register", a)

\* The page with its phone number; without one, submit returns early.
SubmitVerify(a) == route = "verify" /\ Submit("verify", a)

-------------------------------------------------------------------------------
\* Leaving a page destroys its form and not its request.
Gone(r) == IF r.form = "page" THEN [r EXCEPT !.form = "gone"] ELSE r

\* The router shows page p, and stays when it is there.  rest are the
\* requests that remain.
GoTo(p, rest) ==
    /\ route' = p
    /\ auths' = IF p = route THEN rest ELSE {Gone(r) : r \in rest}
    /\ formLoading' = (p = route /\ \E r \in rest : r.form = "page")

\* A link, the browser's buttons, "Inspect Trace in Telemetry".
Navigate(p) ==
    /\ p # route
    /\ GoTo(p, auths)
    /\ UNCHANGED <<modal, nextAuth, mixed, account>>

\* The ingress has signed the account in: the head of its answer is here.
AuthServed(r) ==
    /\ SignsIn(r)
    /\ ~r.answered
    /\ SetAuthCookie(r.account)
    /\ auths' = (auths \ {r}) \cup {[r EXCEPT !.answered = TRUE]}
    /\ UNCHANGED <<modal, route, formLoading, nextAuth, mixed>>

\* Mutant: who is signed in already stays signed in.
persistFirstSession(r) ==
    /\ r.answered
    /\ IF isAuthenticated THEN UNCHANGED account ELSE PersistSession(r.account)

\* AuthService.persistSession: after the answer's head, its body.
persistSession(r) == r.answered /\ PersistSession(r.account)

\* The answer to a request of the dialog closes the dialog, whatever it shows.
ModalAnswered(r) ==
    modal' = IF r.form = "modal" THEN [modal EXCEPT !.open = FALSE, !.loading = FALSE]
                                 ELSE modal

\* subscribe.next of a sign-in: to the dashboard, also when the person has
\* gone on to another page.
SignedIn(r) ==
    /\ SignsIn(r)
    /\ persistSession(r)
    /\ ModalAnswered(r)
    /\ GoTo("dashboard", auths \ {r})
    /\ UNCHANGED <<nextAuth, mixed>>

\* subscribe.next of a registration: to the verification page.
Registered(r) ==
    /\ ~SignsIn(r)
    /\ ModalAnswered(r)
    /\ GoTo("verify", auths \ {r})
    /\ UNCHANGED <<nextAuth, mixed, account>>

\* subscribe.error: refused, or cut off, perhaps between head and body.
AuthFailed(r) ==
    /\ auths' = auths \ {r}
    /\ modal' = IF r.form = "modal" THEN [modal EXCEPT !.loading = FALSE] ELSE modal
    /\ formLoading' = (formLoading /\ r.form # "page")
    /\ mixed' = (mixed \/ r.answered)
    /\ UNCHANGED <<route, nextAuth, account>>

\* AuthService.logoutLocal: the page, the cookie and the requests stay.
logoutLocal ==
    /\ LogoutLocal
    /\ UNCHANGED sessionVars

\* The page is loaded again: the session comes back from localStorage.  A
\* sign-in cut off by it may have set the cookie or may not.
ReloadPage ==
    /\ modal' = [open |-> FALSE, mode |-> "login", loading |-> FALSE]
    /\ formLoading' = FALSE
    /\ auths' = {}
    /\ mixed' = (mixed \/ SignIns # {})
    /\ session' = session
    /\ cookie' \in {cookie} \cup {r.account : r \in SignIns}
    /\ UNCHANGED <<route, nextAuth>>

SessionStep ==
    \/ \E m \in Modes : OpenModal(m)
    \/ CloseModal
    \/ \E a \in Accounts : SubmitModal(a)
    \/ \E a \in Accounts : SubmitLogin(a)
    \/ \E a \in Accounts : SubmitRegister(a)
    \/ \E a \in Accounts : SubmitVerify(a)
    \/ \E p \in Routes : Navigate(p)
    \/ \E r \in auths : AuthServed(r)
    \/ \E r \in auths : SignedIn(r)
    \/ \E r \in auths : Registered(r)
    \/ \E r \in auths : AuthFailed(r)
    \/ logoutLocal
    \/ CookieExpires /\ UNCHANGED sessionVars

SessionNext == SessionStep \/ ReloadPage

\* A browser ends every request it has sent.
SessionFairness ==
    \A id \in 1..MaxAuths :
        WF_signingVars(\E r \in auths :
            r.id = id /\ (SignedIn(r) \/ Registered(r) \/ AuthFailed(r)))

SigningInit == SessionInit /\ AccountInit
SigningSafety == SigningInit /\ [][SessionNext]_signingVars
SigningSpec == SigningSafety /\ SessionFairness

-------------------------------------------------------------------------------
SessionTypeOK ==
    /\ modal \in [open : BOOLEAN, mode : Modes, loading : BOOLEAN]
    /\ route \in Routes
    /\ formLoading \in BOOLEAN
    /\ auths \subseteq Auth
    /\ nextAuth \in 1..(MaxAuths + 1)
    /\ mixed \in BOOLEAN
    /\ session \in Accounts \cup {Nobody}
    /\ cookie \in Accounts \cup {Nobody}

\* Unless two sign-ins overlapped or one was cut between head and body, the
\* cookie the bets are posted with is the one of the account the page is
\* signed in as, or has expired: they are written at different moments by
\* different parts, and signing out moves one of them only.
CookieIsOfShownAccount ==
    ~mixed /\ session # Nobody /\ (\A r \in auths : ~r.answered)
        => cookie \in {session, Nobody}

\* The dialog's "Processing..." and that of the page's form refine the
\* indicator.
SigningIn == INSTANCE RequestIndicator WITH
                 busy <- modal.loading,
                 open <- Cardinality({r \in auths : r.form = "modal"})
FormBusy == INSTANCE RequestIndicator WITH
                busy <- formLoading,
                open <- Cardinality({r \in auths : r.form = "page"})
================================================================================
