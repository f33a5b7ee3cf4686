------------------------------- MODULE Session -------------------------------
(***************************************************************************)
(* The session of a browser page: the access token in memory, the refresh  *)
(* token in a cookie, and the requests that share both                     *)
(* (frontend/src/lib/apiClient.ts, store/authStore.ts, app/RequireAuth.tsx *)
(* and backend/apps/users/views.py).                                       *)
(*                                                                         *)
(* A request that gets 401 asks for a new access token and is sent once    *)
(* more; every request does that on its own.  The server takes a refresh   *)
(* token once: it looks at the token, then blacklists it and issues        *)
(* another.  A slot is a place of the page that has at most one request    *)
(* under way; the slot "auth" is that of the auth store.                   *)
(***************************************************************************)
EXTENDS Naturals, FiniteSets, FiniteSetsExt

CONSTANTS
  PageSlot,   \* slots of the screen that is open
  Null,
  MaxFaults   \* bound: expiries, lost connections, reloads

Slot == PageSlot \cup {"auth"}

(* Every slot may hold a token, so may the cookie, and one is new; a token *)
(* that nobody holds any more is used again.                               *)
Token == 1..(Cardinality(Slot) + 2)

ASSUME SessionConstants ==
  /\ IsFiniteSet(PageSlot) /\ "auth" \notin PageSlot
  /\ Null \notin Token /\ MaxFaults \in Nat

VARIABLES
  active,   \* User.is_active
  live,     \* refresh tokens that are neither blacklisted nor too old
  cookie,   \* the one in the browser's cookie
  access,   \* the access token in memory
  screen,   \* the status of the auth store
  auth,     \* what the auth store is doing; "stuck" when bootstrap threw
  phase,    \* where the request of a slot is
  carried,  \* it carries an access token that is valid
  token,    \* the refresh token it carries or is answered with
  retried,  \* it is sent the second time
  faults,   \* faults so far
  harmed,   \* history: something may have cost the user the session
  left      \* history: the user signed out, and nothing raced with it

server == <<active, live>>
page == <<cookie, access, screen, auth>>
promises == <<phase, carried, token, retried>>
past == <<faults, harmed, left>>
sessionVars == <<server, page, promises, past>>

Refreshing == {"refreshing", "checked", "granted", "refused"}
LoggingIn == {"login", "tokenLogin"}
Phase == {"idle", "calling", "serving", "answered"} \cup Refreshing

SessionTypeOK ==
  /\ active \in BOOLEAN /\ live \subseteq Token
  /\ cookie \in Token \cup {Null}
  /\ access \in {"none", "valid", "expired"}
  /\ screen \in {"loading", "authenticated", "anonymous"}
  /\ auth \in {"none", "boot", "me", "logout", "stuck"} \cup LoggingIn
  /\ phase \in [Slot -> Phase]
  /\ carried \in [Slot -> BOOLEAN]
  /\ token \in [Slot -> Token \cup {Null}] /\ retried \in [Slot -> BOOLEAN]
  /\ (phase["auth"] = "idle") <=> (auth \in {"none", "stuck"})
  /\ faults \in 0..MaxFaults
  /\ harmed \in BOOLEAN /\ left \in BOOLEAN

(* A page is loaded, with or without the cookie of an earlier session. *)
SessionInit ==
  /\ active = TRUE
  /\ cookie \in {1, Null} /\ live = {cookie} \ {Null}
  /\ access = "none" /\ screen = "loading" /\ auth = "none"
  /\ phase = [s \in Slot |-> "idle"] /\ carried = [s \in Slot |-> FALSE]
  /\ token = [s \in Slot |-> Null] /\ retried = [s \in Slot |-> FALSE]
  /\ faults = 0 /\ harmed = (cookie = Null) /\ left = FALSE

-----------------------------------------------------------------------------
Go(s, there) == phase' = [phase EXCEPT ![s] = there]

(* The promise of s is settled. *)
Settle(s) ==
  /\ Go(s, "idle")
  /\ carried' = [carried EXCEPT ![s] = FALSE]
  /\ token' = [token EXCEPT ![s] = Null]
  /\ retried' = [retried EXCEPT ![s] = FALSE]

Harm(case) == harmed' = (harmed \/ case)
OtherRefreshes(s) == \E o \in Slot \ {s} : phase[o] \in Refreshing

(* The only use of a cap: an action that counts as a fault. *)
Fault == faults < MaxFaults /\ faults' = faults + 1

(* call: the access token of this moment goes into the header.  The cookie *)
(* goes along, and matters to LogoutView.                                  *)
Call(s, refresh) ==
  /\ phase[s] = "idle"
  /\ Go(s, "calling")
  /\ carried' = [carried EXCEPT ![s] = access = "valid"]
  /\ token' = [token EXCEPT ![s] = refresh]
  /\ UNCHANGED retried

(* The request reaches a view: its token is valid and its user active. *)
Authorized(s) == phase[s] = "calling" /\ carried[s] /\ active
Unauthorized(s) == phase[s] = "calling" /\ ~(carried[s] /\ active)

(* The view has the request, or answers it: the tokens have done their work. *)
Reach(s, there) ==
  /\ Go(s, there)
  /\ carried' = [carried EXCEPT ![s] = FALSE]
  /\ retried' = [retried EXCEPT ![s] = FALSE]

SendRefresh(s) ==
  /\ Go(s, "refreshing")
  /\ token' = [token EXCEPT ![s] = cookie]
  /\ Harm(OtherRefreshes(s))

(* 401 to a request that is sent the first time. *)
StartRefresh(s) ==
  /\ Unauthorized(s) /\ ~retried[s] /\ ~(s = "auth" /\ auth \in LoggingIn)
  /\ SendRefresh(s)
  /\ UNCHANGED <<server, page, carried, retried, faults, left>>

(* RefreshView: the token is looked at, ... *)
CheckRefresh(s) ==
  /\ phase[s] = "refreshing"
  /\ Go(s, IF token[s] \in live /\ active THEN "checked" ELSE "refused")
  /\ UNCHANGED <<server, page, carried, token, retried, past>>

HeldTokens == {cookie} \cup {token[s] : s \in Slot}
NewToken == Min(Token \ HeldTokens)

(* ... then blacklisted, and another one is issued.                        *)
Rotate(s) ==
  /\ phase[s] = "checked"
  /\ live' = ((live \cap HeldTokens) \ {token[s]}) \cup {NewToken}
  /\ token' = [token EXCEPT ![s] = NewToken]
  /\ Go(s, "granted")
  /\ UNCHANGED <<active, page, carried, retried, past>>

(* The new tokens arrive; the request is sent once more, or bootstrap goes *)
(* on and asks who the user is.                                            *)
RefreshedKeeping(s) ==  \* mutant: the answer does not set the cookie
  /\ phase[s] = "granted"
  /\ access' = "valid" /\ Go(s, "calling")
  /\ carried' = [carried EXCEPT ![s] = TRUE]
  /\ retried' = [retried EXCEPT ![s] = s # "auth" \/ auth # "boot"]
  /\ auth' = IF s = "auth" /\ auth = "boot" THEN "me" ELSE auth
  /\ token' = [token EXCEPT ![s] = IF s = "auth" /\ auth = "logout" THEN @ ELSE Null]
  /\ UNCHANGED <<server, cookie, screen, past>>
Refreshed(s) ==
  /\ phase[s] = "granted"
  /\ cookie' = token[s] /\ access' = "valid"
  /\ Go(s, "calling")
  /\ carried' = [carried EXCEPT ![s] = TRUE]
  /\ retried' = [retried EXCEPT ![s] = s # "auth" \/ auth # "boot"]
  /\ auth' = IF s = "auth" /\ auth = "boot" THEN "me" ELSE auth
  /\ token' = [token EXCEPT ![s] = IF s = "auth" /\ auth = "logout" THEN @ ELSE Null]
  /\ UNCHANGED <<server, screen, past>>

(* The refresh is refused: the session is gone (onAuthLost); a bootstrap   *)
(* or a logout has come to its end with that.                              *)
AuthLost(s) ==
  /\ phase[s] = "refused"
  /\ Settle(s)
  /\ access' = IF s = "auth" /\ auth = "boot" THEN access ELSE "none"
  /\ screen' = "anonymous"
  /\ auth' = IF s = "auth" THEN "none" ELSE auth
  /\ UNCHANGED <<server, cookie, past>>

(* 401 to the second attempt is an error like any other.                   *)
RefusedAgain(s) ==
  /\ s \in PageSlot /\ Unauthorized(s) /\ retried[s]
  /\ Settle(s)
  /\ UNCHANGED <<server, page, past>>

(* The page gives up the promises of gone: the server finishes rotations.  *)
Given(gone) == live \ {token[s] : s \in {q \in gone : phase[q] = "checked"}}
Loss(gone) == \E s \in gone : phase[s] \in {"checked", "granted"}

-----------------------------------------------------------------------------
(* The auth store.  RequireAuth starts bootstrap when the page is loaded.  *)
Bootstrap ==
  /\ screen = "loading" /\ auth = "none"
  /\ auth' = "boot"
  /\ SendRefresh("auth")
  /\ UNCHANGED <<server, cookie, access, screen, carried, retried, faults, left>>

(* login and logout.  A refresh that ended after the session was lost has  *)
(* left an access token, which goes into the header of a login, too.       *)
Ask(what) ==
  /\ auth = "none"
  /\ \/ what = "login" /\ screen = "anonymous"
     \/ what = "logout" /\ screen = "authenticated"
  /\ auth' = IF what = "login" /\ access # "none" THEN "tokenLogin" ELSE what
  /\ Call("auth", IF what = "logout" THEN cookie ELSE Null)
  /\ Harm(what = "logout")
  /\ UNCHANGED <<server, cookie, access, screen, faults, left>>

(* LoginView issues a token, LogoutView blacklists the one it gets.  Each  *)
(* view refuses a header that is not valid any more; LoginView needs none. *)
ServeAuth ==
  /\ phase["auth"] = "calling"
  /\ IF auth = "login" THEN active ELSE Authorized("auth")
  /\ Reach("auth", "answered")
  /\ live' = CASE auth \in LoggingIn -> (live \cap HeldTokens) \cup {NewToken}
               [] auth = "logout" -> live \ {token["auth"]}
               [] OTHER -> live
  /\ token' = IF auth \in LoggingIn THEN [token EXCEPT !["auth"] = NewToken] ELSE token
  /\ UNCHANGED <<active, page, past>>

(* Signing in begins a session that nothing has harmed, except a refresh   *)
(* that is still under way.                                                *)
SignedIn ==
  /\ phase["auth"] = "answered" /\ auth \in LoggingIn
  /\ Settle("auth") /\ auth' = "none"
  /\ cookie' = token["auth"] /\ access' = "valid" /\ screen' = "authenticated"
  /\ harmed' = (~active \/ OtherRefreshes("auth"))
  /\ left' = FALSE
  /\ UNCHANGED <<server, faults>>

IdentifiedOnly ==  \* mutant: bootstrap stores the user without the status
  /\ phase["auth"] = "answered" /\ auth = "me"
  /\ Settle("auth") /\ auth' = "none"
  /\ UNCHANGED <<server, cookie, access, screen, past>>
Identified ==
  /\ phase["auth"] = "answered" /\ auth = "me"
  /\ Settle("auth") /\ auth' = "none"
  /\ screen' = "authenticated"
  /\ UNCHANGED <<server, cookie, access, past>>

SignedOut ==
  /\ phase["auth"] = "answered" /\ auth = "logout"
  /\ Settle("auth") /\ auth' = "none"
  /\ cookie' = Null /\ access' = "none" /\ screen' = "anonymous"
  /\ left' = ~OtherRefreshes("auth")
  /\ UNCHANGED <<server, faults, harmed>>

(* A request of the store fails: it is refused, or the connection is lost. *)
(* login reports the error, logout clears the state regardless, bootstrap  *)
(* catches what /auth/me/ throws but not what the refresh throws.          *)
StoreFails ==
  /\ Settle("auth")
  /\ auth' = IF auth = "boot" THEN "stuck" ELSE "none"
  /\ access' = IF auth \in {"me", "logout"} THEN "none" ELSE access
  /\ screen' = IF auth \in {"me", "logout"} THEN "anonymous" ELSE screen
  /\ live' = Given({"auth"})
  /\ Harm(auth \notin LoggingIn)
  /\ UNCHANGED <<active, cookie, left>>

AuthRefused ==
  /\ phase["auth"] = "calling"
  /\ IF auth = "login" THEN ~active
     ELSE Unauthorized("auth") /\ (retried["auth"] \/ auth \in LoggingIn)
  /\ StoreFails
  /\ UNCHANGED faults

AuthFails == phase["auth"] # "idle" /\ Fault /\ StoreFails

-----------------------------------------------------------------------------
(* A page slot's connection is lost.  A refresh that the server completed  *)
(* has blacklisted the token the cookie still holds.                       *)
LoseConnection(s) ==
  /\ phase[s] # "idle" /\ Fault
  /\ Harm(Loss({s}))
  /\ live' = Given({s})
  /\ Settle(s)
  /\ UNCHANGED <<active, page, left>>

(* Fifteen minutes, or seven days, pass. *)
ExpireAccess ==
  /\ access = "valid" /\ Fault
  /\ access' = "expired"
  /\ carried' = [s \in Slot |-> FALSE]
  /\ UNCHANGED <<server, cookie, screen, auth, phase, token, retried, harmed, left>>

ExpireRefresh ==
  /\ cookie \in live /\ Fault
  /\ live' = live \ {cookie}
  /\ Harm(TRUE)
  /\ UNCHANGED <<active, page, promises, left>>

(* An administrator deactivates the user. *)
Deactivate ==
  /\ active /\ active' = FALSE
  /\ Harm(TRUE)
  /\ UNCHANGED <<live, page, promises, faults, left>>

(* The page is loaded again, at any time or because nothing happens any    *)
(* more; nobody awaits its requests.                                       *)
Reload ==
  /\ IF auth = "stuck" THEN UNCHANGED faults ELSE Fault
  /\ access' = "none" /\ screen' = "loading" /\ auth' = "none"
  /\ phase' = [s \in Slot |-> "idle"] /\ carried' = [s \in Slot |-> FALSE]
  /\ token' = [s \in Slot |-> Null] /\ retried' = [s \in Slot |-> FALSE]
  /\ Harm(Loss(Slot)) /\ live' = Given(Slot)
  /\ UNCHANGED <<active, cookie, left>>

(* Steps of the server and of the page that need nobody to ask for them. *)
Proceed(s) ==
  \/ StartRefresh(s) \/ CheckRefresh(s) \/ Rotate(s) \/ Refreshed(s)
  \/ AuthLost(s) \/ RefusedAgain(s)

StoreProceeds ==
  Proceed("auth") \/ Bootstrap \/ ServeAuth \/ SignedIn \/ Identified \/ SignedOut \/ AuthRefused

Elapse == ExpireAccess \/ ExpireRefresh \/ Deactivate
-----------------------------------------------------------------------------
(* A session survives what its user can do: unless two refreshes          *)
(* overlapped, an answer was lost, or the user or the token came to an     *)
(* end, the cookie can be refreshed and nobody is sent to the login page;  *)
(* who signed out stays out unless a refresh overlapped; and a screen is   *)
(* shown as signed in only with an access token in memory                  *)
(* (apiClient.ts:85-97, authStore.ts:43-63).                               *)
SessionIsExplained ==
  /\ ~harmed => screen # "anonymous"
  /\ ~harmed => \/ cookie \in live
                \/ \E s \in Slot : phase[s] = "granted" /\ token[s] \in live
  /\ left => cookie = Null /\ access = "none" /\ screen # "authenticated"
  /\ screen = "authenticated" => access # "none"
=============================================================================
