-------------------------------- MODULE Account --------------------------------
(***************************************************************************)
(* The part of the browser's session the rest of the application sees: the *)
(* account whose tokens the page holds (AuthService.session) and the       *)
(* account of the HttpOnly cookie that the ingress set, which every bet is  *)
(* posted with.  The two are written apart: the cookie when the head of the *)
(* answer to a login arrives, the session when the page handles its body;   *)
(* signing out forgets the tokens and leaves the cookie.                    *)
(***************************************************************************)
EXTENDS Naturals, FiniteSets

CONSTANTS
    Accounts,   \* the accounts a person at this browser signs in with
    Nobody

ASSUME NobodyAssumption == Nobody \notin Accounts

VARIABLES session, cookie

account == <<session, cookie>>

\* AuthService.isAuthenticated.
isAuthenticated == session # Nobody

AccountInit == session = Nobody /\ cookie = Nobody

\* The head of the ingress's answer to a login or a verification: Set-Cookie.
SetAuthCookie(a) == cookie' = a /\ UNCHANGED session

\* The page handles the body: AuthService.persistSession.
PersistSession(a) == session' = a /\ UNCHANGED cookie

\* AuthService.logoutLocal: tokens only.
LogoutLocal == isAuthenticated /\ session' = Nobody /\ UNCHANGED cookie

\* The cookie's max_age has passed.
CookieExpires == cookie # Nobody /\ cookie' = Nobody /\ UNCHANGED session

AccountNext ==
    \/ \E a \in Accounts : SetAuthCookie(a)
    \/ \E a \in Accounts : PersistSession(a)
    \/ LogoutLocal
    \/ CookieExpires

AccountSpec == AccountInit /\ [][AccountNext]_account
================================================================================
