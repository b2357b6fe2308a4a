----------------------------- MODULE Session_proofs ----------------------------
(***************************************************************************)
(* Signing in and out for every number of accounts and requests: that it    *)
(* implements Account, that the cookie is the shown account's, and that the *)
(* two loading labels refine the indicator.                                *)
(*                                                                         *)
(* CookieIsOfShownAccount speaks of the moments when no answer is half      *)
(* handled.  The invariant adds what holds between head and body: the       *)
(* cookie is already that of the one sign-in that is out.                  *)
(***************************************************************************)
EXTENDS Session, FiniteSetTheorems, TLAPS

\* The requests A, numbered below n, one of them from the form of the page.
AuthsOK(A, n) ==
    /\ A \subseteq Auth
    /\ IsFiniteSet(A)
    /\ \A r \in A : r.id < n /\ (r.answered => SignsIn(r))
    /\ \A r, q \in A : r.id = q.id => r = q
    /\ \A r, q \in A : r.form = "page" /\ q.form = "page" => r = q

\* The cookie c for the requests A and the session s.
CookieOK(A, c, s) ==
    /\ \A r, q \in A : SignsIn(r) /\ SignsIn(q) => r = q
    /\ \A r \in A : r.answered => c \in {r.account, Nobody}
    /\ (\A r \in A : ~r.answered) /\ s # Nobody => c \in {s, Nobody}

PageRequest(A) == \E r \in A : r.form = "page"

SessionInv ==
    /\ SessionTypeOK
    /\ AuthsOK(auths, nextAuth)
    /\ formLoading = PageRequest(auths)
    /\ ~mixed => CookieOK(auths, cookie, session)

--------------------------------------------------------------------------------
(* Sets of requests.                                                        *)

LEMMA GoneOne ==
    ASSUME NEW r \in Auth
    PROVE  /\ Gone(r) \in Auth
           /\ Gone(r).id = r.id /\ Gone(r).kind = r.kind /\ Gone(r).account = r.account
           /\ Gone(r).answered = r.answered
           /\ Gone(r).form = (IF r.form = "page" THEN "gone" ELSE r.form)
           /\ r.form # "page" => Gone(r) = r
           /\ SignsIn(Gone(r)) <=> SignsIn(r)
  BY DEF Gone, Auth, SignsIn

LEMMA GoneFinite ==
    ASSUME NEW A, IsFiniteSet(A)
    PROVE  IsFiniteSet({Gone(r) : r \in A})
<1> DEFINE T == {Gone(r) : r \in A}
           f == [r \in A |-> Gone(r)]
<1>1. f \in Surjection(A, T)
  BY DEF Surjection
<1> QED  BY <1>1, FS_Surjection

LEMMA GoneOK ==
    ASSUME NEW A, NEW n, AuthsOK(A, n)
    PROVE  AuthsOK({Gone(r) : r \in A}, n) /\ ~PageRequest({Gone(r) : r \in A})
<1> DEFINE T == {Gone(r) : r \in A}
<1>1. ASSUME NEW t \in T
      PROVE  \E r \in A : /\ t = Gone(r) /\ t \in Auth /\ t.id = r.id /\ t.answered = r.answered
                          /\ (SignsIn(t) <=> SignsIn(r)) /\ t.form # "page"
  <2>1. PICK r \in A : t = Gone(r)
    OBVIOUS
  <2>2. r \in Auth
    BY DEF AuthsOK
  <2>3. Gone(r).form # "page"
    BY <2>2, GoneOne
  <2> QED  BY <2>1, <2>2, <2>3, GoneOne
<1>2. IsFiniteSet(T)
  BY GoneFinite DEF AuthsOK
<1> HIDE DEF T
<1>3. T \subseteq Auth /\ ~PageRequest(T)
  BY <1>1 DEF PageRequest
<1>4. \A t \in T : t.id < n /\ (t.answered => SignsIn(t))
  BY <1>1 DEF AuthsOK
<1>5. \A t, u \in T : t.id = u.id => t = u
  BY <1>1 DEF AuthsOK
<1>6. AuthsOK(T, n)
  BY <1>1, <1>2, <1>3, <1>4, <1>5 DEF AuthsOK
<1> QED  BY <1>3, <1>6 DEF T

LEMMA GoneCookie ==
    ASSUME NEW A \in SUBSET Auth, NEW c, NEW s, CookieOK(A, c, s)
    PROVE  CookieOK({Gone(r) : r \in A}, c, s)
<1> DEFINE T == {Gone(r) : r \in A}
<1>1. \A r \in A : /\ Gone(r).account = r.account /\ Gone(r).answered = r.answered
                   /\ (SignsIn(Gone(r)) <=> SignsIn(r))
  BY GoneOne
<1>2. \A t, u \in T : SignsIn(t) /\ SignsIn(u) => t = u
  BY <1>1 DEF CookieOK
<1>3. \A t \in T : t.answered => c \in {t.account, Nobody}
  BY <1>1 DEF CookieOK
<1>4. (\A t \in T : ~t.answered) => \A r \in A : ~r.answered
  BY <1>1
<1> QED  BY <1>2, <1>3, <1>4 DEF CookieOK

LEMMA FewerOK ==
    ASSUME NEW A, NEW n, AuthsOK(A, n), NEW r
    PROVE  AuthsOK(A \ {r}, n)
  BY FS_RemoveElement DEF AuthsOK

\* A new request: the first of its form where that matters, not yet answered.
LEMMA MoreOK ==
    ASSUME NEW A, NEW n \in 1..MaxAuths, AuthsOK(A, n), MaxAuths \in Nat,
           NEW r \in Auth, r.id = n, ~r.answered, r.form = "page" => ~PageRequest(A)
    PROVE  AuthsOK(A \cup {r}, n + 1) /\ r \notin A
<1>1. \A q \in A : q.id \in 1..MaxAuths /\ q.id < n /\ q.id # r.id
  BY DEF AuthsOK, Auth
<1>2. IsFiniteSet(A \cup {r})
  BY FS_AddElement DEF AuthsOK
<1>3. \A q \in A \cup {r} : q.id < n + 1 /\ (q.answered => SignsIn(q))
  BY <1>1 DEF AuthsOK
<1>4. \A p, q \in A \cup {r} : p.id = q.id => p = q
  BY <1>1 DEF AuthsOK
<1>5. \A p, q \in A \cup {r} : p.form = "page" /\ q.form = "page" => p = q
  BY DEF AuthsOK, PageRequest
<1> QED  BY <1>1, <1>2, <1>3, <1>4, <1>5 DEF AuthsOK

\* The head of an answer changes nothing but that it is here.
LEMMA ServedOK ==
    ASSUME NEW A, NEW n, AuthsOK(A, n), NEW r \in A, SignsIn(r)
    PROVE  LET q == [r EXCEPT !.answered = TRUE]
           IN  /\ AuthsOK((A \ {r}) \cup {q}, n)
               /\ q \in Auth /\ q.id = r.id /\ q.form = r.form /\ q.account = r.account
               /\ q.answered /\ SignsIn(q)
<1> DEFINE q == [r EXCEPT !.answered = TRUE]
<1>1. /\ q \in Auth /\ q.id = r.id /\ q.form = r.form /\ q.account = r.account
      /\ q.answered /\ SignsIn(q)
  BY DEF AuthsOK, Auth, SignsIn
<1> HIDE DEF q
<1>2. IsFiniteSet((A \ {r}) \cup {q})
  BY FS_RemoveElement, FS_AddElement DEF AuthsOK
<1>3. AuthsOK((A \ {r}) \cup {q}, n)
  BY <1>1, <1>2 DEF AuthsOK
<1> QED  BY <1>1, <1>3 DEF q

--------------------------------------------------------------------------------
(* The invariant.                                                           *)

LEMMA SessionInitInv == SigningInit => SessionInv
<1> SUFFICES ASSUME SigningInit PROVE SessionInv
  OBVIOUS
<1> USE DEF SigningInit, SessionInit, AccountInit
<1>1. SessionTypeOK
  <2>1. nextAuth \in 1..(MaxAuths + 1)
    BY MaxAuthsAssumption
  <2> QED  BY <2>1 DEF SessionTypeOK, Modes, Routes
<1>2. AuthsOK(auths, nextAuth)
  BY FS_EmptySet DEF AuthsOK
<1>3. formLoading = PageRequest(auths)
  BY DEF PageRequest
<1>4. CookieOK(auths, cookie, session)
  BY DEF CookieOK
<1> QED  BY <1>1, <1>2, <1>3, <1>4 DEF SessionInv

LEMMA RequestInv ==
    ASSUME SessionInv, NEW f \in {"modal", "page"}, NEW k \in Kinds, NEW a \in Accounts,
           Request(f, k, a), f = "page" => ~formLoading /\ formLoading' = TRUE,
           f = "modal" => formLoading' = formLoading,
           modal' \in [open : BOOLEAN, mode : Modes, loading : BOOLEAN],
           UNCHANGED <<route, account>>
    PROVE  SessionInv'
<1> DEFINE r == [id |-> nextAuth, form |-> f, kind |-> k, account |-> a, answered |-> FALSE]
<1>1. /\ nextAuth \in 1..MaxAuths /\ nextAuth' = nextAuth + 1 /\ auths' = auths \cup {r}
      /\ nextAuth' \in 1..(MaxAuths + 1)
  BY MaxAuthsAssumption DEF Request, SessionInv, SessionTypeOK
<1>2. /\ r \in Auth /\ r.id = nextAuth /\ ~r.answered /\ r.form = f /\ r.kind = k
      /\ (SignsIn(r) <=> k # "register")
  BY <1>1 DEF Auth, SignsIn
<1>3. mixed' \in BOOLEAN /\ (~mixed' => ~mixed /\ (k = "register" \/ SignIns = {}))
  BY Zenon DEF Request
<1> HIDE DEF r
<1>4. AuthsOK(auths', nextAuth')
  BY <1>1, <1>2, MoreOK, MaxAuthsAssumption DEF SessionInv
<1>5. formLoading' = PageRequest(auths')
  BY <1>1, <1>2 DEF SessionInv, PageRequest
<1>6. SessionTypeOK'
  BY <1>1, <1>3, <1>4 DEF SessionInv, SessionTypeOK, AuthsOK, account
<1>7. ASSUME ~mixed' PROVE CookieOK(auths', cookie', session')
  <2>1. CookieOK(auths, cookie, session) /\ cookie' = cookie /\ session' = session
    BY <1>3, <1>7 DEF SessionInv, account
  <2>2. \A q \in auths : SignsIn(r) => ~SignsIn(q)
    BY <1>2, <1>3, <1>7 DEF SignIns
  <2> QED  BY <1>1, <1>2, <2>1, <2>2 DEF CookieOK
<1> QED  BY <1>4, <1>5, <1>6, <1>7 DEF SessionInv

LEMMA SubmitsInv ==
    ASSUME SessionInv, NEW a \in Accounts,
           \/ SubmitModal(a) \/ SubmitLogin(a) \/ SubmitRegister(a) \/ SubmitVerify(a)
    PROVE  SessionInv'
<1>1. CASE SubmitModal(a)
  <2>1. modal.mode \in Kinds /\ modal' \in [open : BOOLEAN, mode : Modes, loading : BOOLEAN]
    BY <1>1 DEF SubmitModal, SessionInv, SessionTypeOK, Modes, Kinds
  <2>2. Request("modal", modal.mode, a) /\ UNCHANGED <<route, formLoading, account>>
    BY <1>1 DEF SubmitModal
  <2> QED  BY <2>1, <2>2, RequestInv
<1>2. ASSUME NEW k \in Kinds, Submit(k, a) PROVE SessionInv'
  <2>1. Request("page", k, a) /\ ~formLoading /\ formLoading' = TRUE
    BY <1>2 DEF Submit
  <2>2. UNCHANGED <<modal, route, account>>
    BY <1>2 DEF Submit
  <2> QED  BY <2>1, <2>2, RequestInv DEF SessionInv, SessionTypeOK
<1> QED  BY <1>1, <1>2 DEF SubmitLogin, SubmitRegister, SubmitVerify, Kinds

\* The router: what remains of the requests is in order, and the form of the
\* page shown is loading while its request is out.
LEMMA GoToInv ==
    ASSUME SessionInv, NEW p \in Routes, NEW rest \in SUBSET auths,
           AuthsOK(rest, nextAuth), GoTo(p, rest)
    PROVE  /\ AuthsOK(auths', nextAuth) /\ formLoading' = PageRequest(auths')
           /\ route' \in Routes /\ formLoading' \in BOOLEAN
           /\ \A c, s : CookieOK(rest, c, s) => CookieOK(auths', c, s)
<1>1. CASE p = route
  <2>1. auths' = rest /\ formLoading' = PageRequest(rest)
    BY <1>1 DEF GoTo, PageRequest
  <2>2. route' \in Routes /\ formLoading' \in BOOLEAN
    BY <2>1 DEF GoTo, PageRequest
  <2> QED  BY <2>1, <2>2
<1>2. CASE p # route
  <2>1. auths' = {Gone(r) : r \in rest} /\ formLoading' = FALSE /\ route' \in Routes
    BY <1>2 DEF GoTo
  <2>2. AuthsOK(auths', nextAuth) /\ ~PageRequest(auths')
    BY <2>1, GoneOK
  <2>3. rest \in SUBSET Auth
    BY DEF AuthsOK
  <2>4. \A c, s : CookieOK(rest, c, s) => CookieOK(auths', c, s)
    BY <2>1, <2>3, GoneCookie
  <2> QED  BY <2>1, <2>2, <2>4 DEF PageRequest
<1> QED  BY <1>1, <1>2

LEMMA NavigateInv == ASSUME SessionInv, NEW p \in Routes, Navigate(p) PROVE SessionInv'
<1>1. /\ GoTo(p, auths) /\ UNCHANGED <<modal, nextAuth, mixed, session, cookie>>
  BY DEF Navigate, account
<1>2. /\ AuthsOK(auths', nextAuth) /\ formLoading' = PageRequest(auths')
      /\ route' \in Routes /\ formLoading' \in BOOLEAN
      /\ \A c, s : CookieOK(auths, c, s) => CookieOK(auths', c, s)
  BY <1>1, GoToInv DEF SessionInv
<1>3. SessionTypeOK'
  BY <1>1, <1>2 DEF SessionInv, SessionTypeOK, AuthsOK
<1> QED  BY <1>1, <1>2, <1>3 DEF SessionInv

\* Head and body of the answer to a sign-in.
LEMMA ServedInv == ASSUME SessionInv, NEW r \in auths, AuthServed(r) PROVE SessionInv'
<1> DEFINE q == [r EXCEPT !.answered = TRUE]
<1>1. /\ SignsIn(r) /\ auths' = (auths \ {r}) \cup {q}
      /\ cookie' = r.account /\ session' = session
      /\ UNCHANGED <<modal, route, formLoading, nextAuth, mixed>>
  BY DEF AuthServed, SetAuthCookie
<1>2. /\ AuthsOK(auths', nextAuth)
      /\ q \in Auth /\ q.id = r.id /\ q.form = r.form /\ q.account = r.account
      /\ q.answered /\ SignsIn(q)
  BY <1>1, ServedOK DEF SessionInv
<1> HIDE DEF q
<1>3. formLoading' = PageRequest(auths')
  BY <1>1, <1>2 DEF SessionInv, PageRequest
<1>4. r.account \in Accounts
  BY DEF SessionInv, SessionTypeOK, Auth
<1>5. SessionTypeOK'
  BY <1>1, <1>2, <1>4 DEF SessionInv, SessionTypeOK, AuthsOK
<1>6. ASSUME ~mixed' PROVE CookieOK(auths', cookie', session')
  <2>1. CookieOK(auths, cookie, session)
    BY <1>1, <1>6 DEF SessionInv
  <2>2. \A p \in auths' : SignsIn(p) => p = q
    BY <1>1, <2>1 DEF CookieOK
  <2>3. \A p \in auths' : p.answered => SignsIn(p)
    BY <1>2 DEF AuthsOK
  <2>4. q \in auths'
    BY <1>1
  <2> QED  BY <1>1, <1>2, <2>2, <2>3, <2>4 DEF CookieOK
<1> QED  BY <1>1, <1>2, <1>3, <1>5, <1>6 DEF SessionInv

LEMMA ModalType ==
    ASSUME SessionInv, NEW r, ModalAnswered(r)
    PROVE  modal' \in [open : BOOLEAN, mode : Modes, loading : BOOLEAN]
  BY DEF ModalAnswered, SessionInv, SessionTypeOK

LEMMA SignedInInv == ASSUME SessionInv, NEW r \in auths, SignedIn(r) PROVE SessionInv'
<1>1. /\ SignsIn(r) /\ r.answered /\ session' = r.account /\ cookie' = cookie
      /\ ModalAnswered(r) /\ GoTo("dashboard", auths \ {r})
      /\ UNCHANGED <<nextAuth, mixed>>
  BY DEF SignedIn, persistSession, PersistSession
<1>2. AuthsOK(auths \ {r}, nextAuth) /\ "dashboard" \in Routes /\ auths \ {r} \in SUBSET auths
  BY FewerOK DEF SessionInv, Routes
<1>3. /\ AuthsOK(auths', nextAuth) /\ formLoading' = PageRequest(auths')
      /\ route' \in Routes /\ formLoading' \in BOOLEAN
      /\ \A c, s : CookieOK(auths \ {r}, c, s) => CookieOK(auths', c, s)
  BY <1>1, <1>2, GoToInv
<1>4. r.account \in Accounts
  BY DEF SessionInv, SessionTypeOK, Auth
<1>5. SessionTypeOK'
  BY <1>1, <1>3, <1>4, ModalType DEF SessionInv, SessionTypeOK, AuthsOK
<1>6. ASSUME ~mixed' PROVE CookieOK(auths', cookie', session')
  <2>1. CookieOK(auths, cookie, session)
    BY <1>1, <1>6 DEF SessionInv
  <2>2. cookie \in {r.account, Nobody}
    BY <1>1, <2>1 DEF CookieOK
  <2>3. \A q \in auths \ {r} : ~SignsIn(q) /\ ~q.answered
    BY <1>1, <2>1 DEF CookieOK, SessionInv, AuthsOK
  <2>4. CookieOK(auths \ {r}, cookie, r.account)
    BY <2>2, <2>3 DEF CookieOK
  <2> QED  BY <1>1, <1>3, <2>4
<1> QED  BY <1>1, <1>3, <1>5, <1>6 DEF SessionInv

\* A request that ends without a session: the cookie stays explained unless
\* its head was here.
LEMMA LessCookie ==
    ASSUME NEW A, NEW c, NEW s, CookieOK(A, c, s), NEW r \in A, ~r.answered
    PROVE  CookieOK(A \ {r}, c, s)
  BY DEF CookieOK

LEMMA RegisteredInv == ASSUME SessionInv, NEW r \in auths, Registered(r) PROVE SessionInv'
<1>1. /\ ~SignsIn(r) /\ ModalAnswered(r) /\ GoTo("verify", auths \ {r})
      /\ UNCHANGED <<nextAuth, mixed, session, cookie>>
  BY DEF Registered, account
<1>2. AuthsOK(auths \ {r}, nextAuth) /\ "verify" \in Routes /\ auths \ {r} \in SUBSET auths
  BY FewerOK DEF SessionInv, Routes, Kinds
<1>3. /\ AuthsOK(auths', nextAuth) /\ formLoading' = PageRequest(auths')
      /\ route' \in Routes /\ formLoading' \in BOOLEAN
      /\ \A c, s : CookieOK(auths \ {r}, c, s) => CookieOK(auths', c, s)
  BY <1>1, <1>2, GoToInv
<1>4. SessionTypeOK'
  BY <1>1, <1>3, ModalType DEF SessionInv, SessionTypeOK, AuthsOK
<1>5. ~r.answered
  BY <1>1 DEF SessionInv, AuthsOK
<1> QED  BY <1>1, <1>3, <1>4, <1>5, LessCookie DEF SessionInv

LEMMA FailedInv == ASSUME SessionInv, NEW r \in auths, AuthFailed(r) PROVE SessionInv'
<1>1. /\ auths' = auths \ {r}
      /\ UNCHANGED <<route, nextAuth, session, cookie>>
      /\ modal' \in [open : BOOLEAN, mode : Modes, loading : BOOLEAN]
  BY DEF AuthFailed, account, SessionInv, SessionTypeOK
<1>2. AuthsOK(auths', nextAuth)
  BY <1>1, FewerOK DEF SessionInv
<1>3. formLoading' \in BOOLEAN /\ (formLoading' <=> formLoading /\ r.form # "page")
  BY Zenon DEF AuthFailed
<1>4. formLoading' = PageRequest(auths')
  <2>1. formLoading' <=> PageRequest(auths')
    BY <1>1, <1>3 DEF SessionInv, PageRequest, AuthsOK
  <2> QED  BY <1>3, <2>1 DEF PageRequest
<1>5. mixed' \in BOOLEAN /\ (~mixed' => ~mixed /\ ~r.answered)
  BY Zenon DEF AuthFailed
<1>6. SessionTypeOK'
  BY <1>1, <1>2, <1>3, <1>5 DEF SessionInv, SessionTypeOK, AuthsOK
<1>7. ASSUME ~mixed' PROVE CookieOK(auths', cookie', session')
  BY <1>1, <1>5, <1>7, LessCookie DEF SessionInv
<1> QED  BY <1>2, <1>1, <1>4, <1>6, <1>7 DEF SessionInv

LEMMA ReloadInv == ASSUME SessionInv, ReloadPage PROVE SessionInv'
<1>1. /\ modal' = [open |-> FALSE, mode |-> "login", loading |-> FALSE]
      /\ formLoading' = FALSE /\ auths' = {} /\ session' = session
      /\ cookie' \in {cookie} \cup {r.account : r \in SignIns}
      /\ UNCHANGED <<route, nextAuth>>
  BY DEF ReloadPage
<1>2. mixed' \in BOOLEAN /\ (~mixed' => ~mixed /\ SignIns = {})
  BY Zenon DEF ReloadPage
<1>3. cookie' \in Accounts \cup {Nobody}
  BY <1>1 DEF SignIns, SessionInv, SessionTypeOK, Auth
<1>4. SessionTypeOK'
  BY <1>1, <1>2, <1>3 DEF SessionInv, SessionTypeOK, Modes
<1>5. AuthsOK(auths', nextAuth') /\ ~PageRequest(auths')
  BY <1>1, FS_EmptySet DEF AuthsOK, PageRequest
<1>6. ASSUME ~mixed' PROVE CookieOK(auths', cookie', session')
  <2>1. CookieOK(auths, cookie, session) /\ cookie' = cookie
    BY <1>1, <1>2, <1>6 DEF SessionInv
  <2>2. \A r \in auths : ~r.answered
    BY <1>2, <1>6 DEF SessionInv, AuthsOK, SignIns
  <2> QED  BY <1>1, <2>1, <2>2 DEF CookieOK
<1> QED  BY <1>1, <1>4, <1>5, <1>6 DEF SessionInv, PageRequest

LEMMA DialogInv ==
    ASSUME SessionInv,
           \/ \E m \in Modes : OpenModal(m)
           \/ CloseModal
           \/ UNCHANGED signingVars
    PROVE  SessionInv'
<1>1. /\ modal' \in [open : BOOLEAN, mode : Modes, loading : BOOLEAN]
      /\ UNCHANGED <<route, formLoading, auths, nextAuth, mixed, session, cookie>>
  BY DEF OpenModal, CloseModal, signingVars, sessionVars, account, SessionInv, SessionTypeOK
<1>2. SessionTypeOK'
  BY <1>1 DEF SessionInv, SessionTypeOK
<1> QED  BY <1>1, <1>2 DEF SessionInv

LEMMA ForgetInv ==
    ASSUME SessionInv, logoutLocal \/ (CookieExpires /\ UNCHANGED sessionVars)
    PROVE  SessionInv'
<1>1. /\ UNCHANGED <<modal, route, formLoading, auths, nextAuth, mixed>>
      /\ \/ session' = Nobody /\ cookie' = cookie
         \/ session' = session /\ cookie' = Nobody
  BY DEF logoutLocal, LogoutLocal, CookieExpires, sessionVars
<1>2. SessionTypeOK'
  BY <1>1 DEF SessionInv, SessionTypeOK
<1>3. CookieOK(auths, cookie, session) => CookieOK(auths', cookie', session')
  BY <1>1 DEF CookieOK
<1> QED  BY <1>1, <1>2, <1>3 DEF SessionInv

LEMMA SessionStepInv == SessionInv /\ [SessionNext]_signingVars => SessionInv'
  BY SubmitsInv, NavigateInv, ServedInv, SignedInInv, RegisteredInv, FailedInv, ReloadInv,
     DialogInv, ForgetInv DEF SessionNext, SessionStep

\* The invariant holds in every reachable state.
THEOREM SessionInvariance == SigningSafety => []SessionInv
  BY SessionInitInv, SessionStepInv, PTL DEF SigningSafety

--------------------------------------------------------------------------------
(* The properties.                                                          *)

\* The page shown, the dialog and the requests have their types.
THEOREM SessionTypeCorrect == SigningSafety => []SessionTypeOK
<1>1. SessionInv => SessionTypeOK
  BY DEF SessionInv
<1> QED  BY <1>1, SessionInvariance, PTL

\* The cookie of the bets is the shown account's or none (auth.service.ts:40-66,
\* auth.py:22-32), unless sign-ins overlapped or one was cut.
THEOREM CookieMatches == SigningSafety => []CookieIsOfShownAccount
<1>1. SessionInv => CookieIsOfShownAccount
  BY DEF SessionInv, CookieOK, CookieIsOfShownAccount
<1> QED  BY <1>1, SessionInvariance, PTL

\* Every step of signing in and out is a step of Account or leaves it alone.
LEMMA AccountStep == SessionInv /\ [SessionNext]_signingVars => [AccountNext]_account
<1> SUFFICES ASSUME SessionInv, [SessionNext]_signingVars PROVE [AccountNext]_account
  OBVIOUS
<1>1. \A r \in auths : r.account \in Accounts
  BY DEF SessionInv, SessionTypeOK, Auth
<1>2. ASSUME NEW r \in auths, AuthServed(r) PROVE AccountNext
  BY <1>1, <1>2 DEF AuthServed, AccountNext
<1>3. ASSUME NEW r \in auths, SignedIn(r) PROVE AccountNext
  BY <1>1, <1>3 DEF SignedIn, persistSession, AccountNext
<1>4. CASE ReloadPage
  BY <1>1, <1>4 DEF ReloadPage, SignIns, AccountNext, SetAuthCookie, account
<1>5. CASE logoutLocal \/ (CookieExpires /\ UNCHANGED sessionVars)
  BY <1>5 DEF logoutLocal, AccountNext
<1>6. ASSUME NEW a \in Accounts,
             SubmitModal(a) \/ SubmitLogin(a) \/ SubmitRegister(a) \/ SubmitVerify(a)
      PROVE  UNCHANGED account
  BY <1>6 DEF SubmitModal, SubmitLogin, SubmitRegister, SubmitVerify, Submit
<1>7. ASSUME NEW r \in auths, Registered(r) \/ AuthFailed(r) PROVE UNCHANGED account
  BY <1>7 DEF Registered, AuthFailed
<1>8. CASE \/ \E m \in Modes : OpenModal(m)
           \/ CloseModal
           \/ \E p \in Routes : Navigate(p)
           \/ UNCHANGED signingVars
  BY <1>8 DEF OpenModal, CloseModal, Navigate, signingVars
<1> QED  BY <1>2, <1>3, <1>4, <1>5, <1>6, <1>7, <1>8 DEF SessionNext, SessionStep

\* Signing in and out moves session and cookie by Account's steps.
THEOREM SessionImplementsAccount == SigningSafety => AccountSpec
<1>1. SigningInit => AccountInit
  BY DEF SigningInit
<1> QED  BY <1>1, AccountStep, SessionInvariance, PTL DEF SigningSafety, AccountSpec

--------------------------------------------------------------------------------
(* The loading labels.  The requests of a form, counted.                    *)

OfForm(A, f) == {r \in A : r.form = f}

LEMMA FormFinite ==
    ASSUME NEW A, IsFiniteSet(A), NEW f
    PROVE  IsFiniteSet(OfForm(A, f)) /\ Cardinality(OfForm(A, f)) \in Nat
<1>1. OfForm(A, f) \in SUBSET A
  BY DEF OfForm
<1> QED  BY <1>1, FS_Subset, FS_CardinalityType

LEMMA FormMore ==
    ASSUME NEW A, IsFiniteSet(A), NEW f, NEW r, r \notin A
    PROVE  Cardinality(OfForm(A \cup {r}, f))
               = IF r.form = f THEN Cardinality(OfForm(A, f)) + 1 ELSE Cardinality(OfForm(A, f))
<1>1. CASE r.form = f
  <2>1. OfForm(A \cup {r}, f) = OfForm(A, f) \cup {r} /\ r \notin OfForm(A, f)
    BY <1>1 DEF OfForm
  <2> QED  BY <1>1, <2>1, FormFinite, FS_AddElement, ZenonT(30)
<1>2. CASE r.form # f
  <2>1. OfForm(A \cup {r}, f) = OfForm(A, f)
    BY <1>2 DEF OfForm
  <2> QED  BY <1>2, <2>1
<1> QED  BY <1>1, <1>2

LEMMA FormLess ==
    ASSUME NEW A, IsFiniteSet(A), NEW f, NEW r \in A
    PROVE  /\ r.form = f => /\ Cardinality(OfForm(A, f)) > 0
                           /\ Cardinality(OfForm(A \ {r}, f)) = Cardinality(OfForm(A, f)) - 1
           /\ r.form # f => OfForm(A \ {r}, f) = OfForm(A, f)
<1>1. CASE r.form = f
  <2>1. OfForm(A \ {r}, f) = OfForm(A, f) \ {r} /\ r \in OfForm(A, f)
    BY <1>1 DEF OfForm
  <2>2. Cardinality(OfForm(A, f)) # 0 /\ Cardinality(OfForm(A, f)) \in Nat
    BY <2>1, FormFinite, FS_EmptySet
  <2>3. IsFiniteSet(OfForm(A, f))
    BY FormFinite
  <2>4. Cardinality(OfForm(A, f) \ {r}) = Cardinality(OfForm(A, f)) - 1
    BY <2>1, <2>3, FS_RemoveElement
  <2>5. Cardinality(OfForm(A, f)) > 0
    BY <2>2
  <2>6. Cardinality(OfForm(A \ {r}, f)) = Cardinality(OfForm(A, f)) - 1
    BY <2>1, <2>4
  <2> QED  BY <1>1, <2>5, <2>6
<1>2. CASE r.form # f
  BY <1>2 DEF OfForm
<1> QED  BY <1>1, <1>2

LEMMA FormGone ==
    ASSUME NEW A \in SUBSET Auth
    PROVE  /\ OfForm({Gone(r) : r \in A}, "modal") = OfForm(A, "modal")
           /\ OfForm({Gone(r) : r \in A}, "page") = {}
<1>1. \A r \in A : /\ Gone(r).form # "page"
                   /\ r.form = "modal" => Gone(r) = r
                   /\ Gone(r).form = "modal" => r.form = "modal"
  BY GoneOne
<1>2. OfForm({Gone(r) : r \in A}, "modal") \subseteq OfForm(A, "modal")
  BY <1>1 DEF OfForm
<1>3. OfForm(A, "modal") \subseteq OfForm({Gone(r) : r \in A}, "modal")
  BY <1>1 DEF OfForm
<1> QED  BY <1>1, <1>2, <1>3 DEF OfForm

\* The head of an answer leaves its request where it is.
LEMMA FormServed ==
    ASSUME SessionInv, NEW r \in auths, AuthServed(r), NEW f
    PROVE  Cardinality(OfForm(auths', f)) = Cardinality(OfForm(auths, f))
<1> DEFINE q == [r EXCEPT !.answered = TRUE]
<1>1. /\ auths' = (auths \ {r}) \cup {q} /\ q.form = r.form /\ q.id = r.id
      /\ IsFiniteSet(auths) /\ SignsIn(r)
  BY ServedOK DEF AuthServed, SessionInv, AuthsOK
<1> HIDE DEF q
<1>2. q \notin auths \ {r} /\ IsFiniteSet(auths \ {r})
  BY <1>1, FS_RemoveElement DEF SessionInv, AuthsOK
<1>3. Cardinality(OfForm(auths', f))
        = IF q.form = f THEN Cardinality(OfForm(auths \ {r}, f)) + 1
                        ELSE Cardinality(OfForm(auths \ {r}, f))
  BY <1>1, <1>2, FormMore
<1> QED  BY <1>1, <1>3, FormLess, FormFinite

LEMMA FormRequested ==
    ASSUME SessionInv, NEW f, NEW k, NEW a, Request(f, k, a), NEW g
    PROVE  Cardinality(OfForm(auths', g))
               = IF f = g THEN Cardinality(OfForm(auths, g)) + 1
                          ELSE Cardinality(OfForm(auths, g))
<1> DEFINE r == [id |-> nextAuth, form |-> f, kind |-> k, account |-> a, answered |-> FALSE]
<1>1. auths' = auths \cup {r} /\ r \notin auths /\ IsFiniteSet(auths) /\ r.form = f
  BY DEF Request, SessionInv, AuthsOK, SessionTypeOK, Auth
<1> HIDE DEF r
<1> QED  BY <1>1, FormMore

\* The dialog's "Processing..." is a working indicator
\* (auth-modal.component.ts:120-154), whatever page is shown when the answer
\* comes.
THEOREM DialogImplementsIndicator == SigningSafety => SigningIn!Safety
<1> DEFINE Count == Cardinality(OfForm(auths, "modal"))
<1> USE DEF SigningIn!Init, SigningIn!Next, SigningIn!Send, SigningIn!Answer,
            SigningIn!Restart, SigningIn!indicator
<1>1. SigningInit => SigningIn!Init
  BY FS_EmptySet DEF SigningInit, SessionInit
<1>2. Count = Cardinality({r \in auths : r.form = "modal"})
  BY DEF OfForm
<1>3. ASSUME SessionInv PROVE Count \in Nat /\ IsFiniteSet(auths) /\ auths \in SUBSET Auth
  BY <1>3, FormFinite DEF SessionInv, AuthsOK
<1>4. ASSUME NEW p, NEW rest \in SUBSET Auth, GoTo(p, rest)
      PROVE  OfForm(auths', "modal") = OfForm(rest, "modal")
  BY <1>4, FormGone DEF GoTo
<1>5. ASSUME SessionInv, NEW r \in auths, ModalAnswered(r), NEW p, GoTo(p, auths \ {r})
      PROVE  SigningIn!Answer \/ UNCHANGED SigningIn!indicator
  <2>1. OfForm(auths', "modal") = OfForm(auths \ {r}, "modal")
    BY <1>3, <1>4, <1>5
  <2>2. CASE r.form = "modal"
    <3>1. Count' = Count - 1 /\ Count > 0
      BY <1>3, <1>5, <2>1, <2>2, FormLess
    <3>2. modal'.loading = FALSE
      BY <1>5, <2>2 DEF ModalAnswered, SessionInv, SessionTypeOK
    <3> QED  BY <1>2, <3>1, <3>2 DEF OfForm
  <2>3. CASE r.form # "modal"
    <3>1. OfForm(auths', "modal") = OfForm(auths, "modal")
      BY <1>3, <1>5, <2>1, <2>3, FormLess
    <3> QED  BY <1>5, <2>3, <3>1 DEF ModalAnswered, OfForm
  <2> QED  BY <2>2, <2>3
<1>6. SessionInv /\ [SessionNext]_signingVars => [SigningIn!Next]_SigningIn!indicator
  <2> SUFFICES ASSUME SessionInv, [SessionNext]_signingVars
               PROVE  [SigningIn!Next]_SigningIn!indicator
    OBVIOUS
  <2>1. modal \in [open : BOOLEAN, mode : Modes, loading : BOOLEAN]
    BY DEF SessionInv, SessionTypeOK
  <2>2. ASSUME NEW a \in Accounts, SubmitModal(a) PROVE SigningIn!Send
    <3>1. Count' = Count + 1
      BY <2>2, FormRequested DEF SubmitModal
    <3> QED  BY <2>1, <2>2, <3>1 DEF SubmitModal, OfForm
  <2>3. ASSUME NEW a \in Accounts, SubmitLogin(a) \/ SubmitRegister(a) \/ SubmitVerify(a)
        PROVE  UNCHANGED SigningIn!indicator
    <3>1. PICK k : Submit(k, a)
      BY <2>3 DEF SubmitLogin, SubmitRegister, SubmitVerify
    <3>2. Count' = Count
      BY <3>1, FormRequested DEF Submit
    <3> QED  BY <3>1, <3>2 DEF Submit, OfForm
  <2>4. ASSUME NEW p \in Routes, Navigate(p) PROVE UNCHANGED SigningIn!indicator
    <3>1. OfForm(auths', "modal") = OfForm(auths, "modal")
      BY <1>3, <1>4, <2>4 DEF Navigate
    <3> QED  BY <2>4, <3>1 DEF Navigate, OfForm
  <2>5. ASSUME NEW r \in auths, AuthServed(r) PROVE UNCHANGED SigningIn!indicator
    <3>1. Count' = Count
      BY <2>5, FormServed
    <3> QED  BY <2>5, <3>1 DEF AuthServed, OfForm
  <2>6. ASSUME NEW r \in auths, SignedIn(r) \/ Registered(r)
        PROVE  [SigningIn!Next]_SigningIn!indicator
    BY <1>5, <2>6 DEF SignedIn, Registered
  <2>7. ASSUME NEW r \in auths, AuthFailed(r) PROVE [SigningIn!Next]_SigningIn!indicator
    <3>1. CASE r.form = "modal"
      <4>1. Count' = Count - 1 /\ Count > 0 /\ modal'.loading = FALSE
        BY <1>3, <2>1, <2>7, <3>1, FormLess DEF AuthFailed
      <4> QED  BY <4>1 DEF OfForm
    <3>2. CASE r.form # "modal"
      <4>1. OfForm(auths', "modal") = OfForm(auths, "modal") /\ modal' = modal
        BY <1>3, <2>7, <3>2, FormLess DEF AuthFailed
      <4> QED  BY <4>1 DEF OfForm
    <3> QED  BY <3>1, <3>2
  <2>8. CASE ReloadPage
    <3>1. modal'.loading = FALSE /\ {r \in auths' : r.form = "modal"} = {}
      BY <2>8 DEF ReloadPage
    <3> QED  BY <3>1, FS_EmptySet
  <2>9. CASE \/ \E m \in Modes : OpenModal(m)
             \/ CloseModal \/ logoutLocal \/ (CookieExpires /\ UNCHANGED sessionVars)
             \/ UNCHANGED signingVars
    <3>1. modal'.loading = modal.loading /\ auths' = auths
      BY <2>1, <2>9 DEF OpenModal, CloseModal, logoutLocal, signingVars, sessionVars
    <3> QED  BY <3>1
  <2> QED  BY <2>2, <2>3, <2>4, <2>5, <2>6, <2>7, <2>8, <2>9 DEF SessionNext, SessionStep
<1> QED  BY <1>1, <1>6, SessionInvariance, PTL DEF SigningSafety, SigningIn!Safety

\* So is the label of a page's form (auth-login.component.ts:60-75 and its
\* siblings), which leaving the page takes down with the form.
THEOREM FormImplementsIndicator == SigningSafety => FormBusy!Safety
<1> DEFINE Count == Cardinality(OfForm(auths, "page"))
<1> USE DEF FormBusy!Init, FormBusy!Next, FormBusy!Send, FormBusy!Answer,
            FormBusy!Restart, FormBusy!indicator
<1>1. SigningInit => FormBusy!Init
  BY FS_EmptySet DEF SigningInit, SessionInit
<1>2. ASSUME SessionInv PROVE /\ Count \in Nat /\ IsFiniteSet(auths) /\ auths \in SUBSET Auth
                       /\ formLoading \in BOOLEAN
  BY <1>2, FormFinite DEF SessionInv, AuthsOK, SessionTypeOK
<1>3. ASSUME SessionInv, NEW rest \in SUBSET Auth, NEW p, p # route, GoTo(p, rest)
      PROVE  FormBusy!Restart
  <2>1. formLoading' = FALSE /\ OfForm(auths', "page") = {}
    BY <1>3, FormGone DEF GoTo
  <2> QED  BY <2>1, FS_EmptySet DEF OfForm
<1>4. ASSUME SessionInv, NEW r \in auths, auths' = auths \ {r}, formLoading' = PageRequest(auths')
      PROVE  FormBusy!Answer \/ UNCHANGED FormBusy!indicator
  <2>1. CASE r.form = "page"
    <3>1. Count' = Count - 1 /\ Count > 0
      BY <1>2, <1>4, <2>1, FormLess
    <3>2. formLoading' = FALSE
      BY <1>4, <2>1 DEF SessionInv, AuthsOK, PageRequest
    <3> QED  BY <3>1, <3>2 DEF OfForm
  <2>2. CASE r.form # "page"
    <3>1. OfForm(auths', "page") = OfForm(auths, "page")
      BY <1>2, <1>4, <2>2, FormLess
    <3>2. PageRequest(auths') <=> PageRequest(auths)
      BY <1>4, <2>2 DEF PageRequest
    <3>3. formLoading' = formLoading
      BY <1>4, <3>2 DEF SessionInv, PageRequest
    <3> QED  BY <3>1, <3>3 DEF OfForm
  <2> QED  BY <2>1, <2>2
<1>5. ASSUME SessionInv, NEW r \in auths, NEW p, GoTo(p, auths \ {r})
      PROVE  [FormBusy!Next]_FormBusy!indicator
  <2>1. CASE p = route
    <3>1. auths' = auths \ {r} /\ formLoading' = PageRequest(auths')
      BY <1>5, <2>1 DEF GoTo, PageRequest
    <3> QED  BY <1>4, <1>5, <3>1
  <2>2. CASE p # route
    BY <1>2, <1>3, <1>5, <2>2
  <2> QED  BY <2>1, <2>2
<1>6. SessionInv /\ [SessionNext]_signingVars => [FormBusy!Next]_FormBusy!indicator
  <2> SUFFICES ASSUME SessionInv, [SessionNext]_signingVars
               PROVE  [FormBusy!Next]_FormBusy!indicator
    OBVIOUS
  <2>1. ASSUME NEW a \in Accounts, SubmitModal(a) PROVE UNCHANGED FormBusy!indicator
    <3>1. Count' = Count
      BY <2>1, FormRequested DEF SubmitModal
    <3> QED  BY <2>1, <3>1 DEF SubmitModal, OfForm
  <2>2. ASSUME NEW a \in Accounts, SubmitLogin(a) \/ SubmitRegister(a) \/ SubmitVerify(a)
        PROVE  FormBusy!Send
    <3>1. PICK k : Submit(k, a)
      BY <2>2 DEF SubmitLogin, SubmitRegister, SubmitVerify
    <3>2. Count' = Count + 1
      BY <3>1, FormRequested DEF Submit
    <3> QED  BY <3>1, <3>2 DEF Submit, OfForm
  <2>3. ASSUME NEW p \in Routes, Navigate(p) PROVE FormBusy!Restart
    BY <1>2, <1>3, <2>3 DEF Navigate
  <2>4. ASSUME NEW r \in auths, AuthServed(r) PROVE UNCHANGED FormBusy!indicator
    <3>1. Count' = Count
      BY <2>4, FormServed
    <3> QED  BY <2>4, <3>1 DEF AuthServed, OfForm
  <2>5. ASSUME NEW r \in auths, SignedIn(r) \/ Registered(r)
        PROVE  [FormBusy!Next]_FormBusy!indicator
    BY <1>5, <2>5 DEF SignedIn, Registered
  <2>6. ASSUME NEW r \in auths, AuthFailed(r) PROVE [FormBusy!Next]_FormBusy!indicator
    <3>1. auths' = auths \ {r} /\ formLoading' = PageRequest(auths')
      BY <2>6, FailedInv DEF AuthFailed, SessionInv
    <3> QED  BY <1>4, <3>1
  <2>7. CASE ReloadPage
    <3>1. formLoading' = FALSE /\ {r \in auths' : r.form = "page"} = {}
      BY <2>7 DEF ReloadPage
    <3> QED  BY <3>1, FS_EmptySet
  <2>8. CASE \/ \E m \in Modes : OpenModal(m)
             \/ CloseModal \/ logoutLocal \/ (CookieExpires /\ UNCHANGED sessionVars)
             \/ UNCHANGED signingVars
    <3>1. formLoading' = formLoading /\ auths' = auths
      BY <2>8 DEF OpenModal, CloseModal, logoutLocal, signingVars, sessionVars
    <3> QED  BY <3>1
  <2> QED  BY <2>1, <2>2, <2>3, <2>4, <2>5, <2>6, <2>7, <2>8 DEF SessionNext, SessionStep
<1> QED  BY <1>1, <1>6, SessionInvariance, PTL DEF SigningSafety, FormBusy!Safety

================================================================================
