----------------------------- MODULE AuthSession -----------------------------
(***************************************************************************)
(* What a tab of the trader app believes of its session, and the session   *)
(* the server would confirm. The session is HttpOnly cookies the app       *)
(* cannot read: it keeps the signed-in user in a store and a hint in local *)
(* storage, and asks GET /auth/me at the start, after a sign-in and every  *)
(* minute.                                                                 *)
(*                                                                         *)
(* A request is sent and answered in one step and its answer is delivered  *)
(* in a later one.                                                         *)
(***************************************************************************)
EXTENDS Integers

CONSTANTS
    MaxSigns,    \* bound: sign-ins, sign-outs and page loads
    MaxEnds,     \* bound: sessions that expire or are ended elsewhere
    MaxFaults    \* bound: requests that fail whatever the session

VARIABLES
    calm,             \* nothing fails, and one thing happens at a time
    cookies,          \* what the server would say of the tab's cookies
    hint,             \* SESSION_HINT is in local storage
    isAuthenticated,  \* the store has a user
    isInitialized,    \* the store has made up its mind once
    load,             \* the request loadUser waits for, and its answer
    signIn,           \* likewise, of login, demoLogin, googleLogin or register
    refresh,          \* likewise, of refreshUser
    signOut,          \* POST /auth/logout is under way
    signs, ends, faults

flows == <<load, signIn, refresh, signOut>>
store == <<hint, isAuthenticated, isInitialized>>
vars == <<calm, cookies, store, flows, signs, ends, faults>>

\* "live": the access cookie is valid.  "stale": only the refresh cookie is.
Cookies == {"none", "live", "stale"}
Replies == {"ok", "denied", "failed"}
Nothing == [asks |-> "nothing", reply |-> "ok"]
Flows(asks) == [asks : asks, reply : Replies] \union {Nothing}

TypeOK ==
    /\ calm \in BOOLEAN
    /\ cookies \in Cookies
    /\ {hint, isAuthenticated, isInitialized, signOut} \subseteq BOOLEAN
    /\ load \in Flows({"me", "refresh", "meAgain"})
    /\ signIn \in Flows({"me"})
    /\ refresh \in Flows({"me"})
    /\ signs \in 0..MaxSigns
    /\ ends \in 0..MaxEnds
    /\ faults \in 0..MaxFaults

\* A page is loaded: by a visitor, by a user whose session is alive, or after one that is
\* not.  Every sign-in left the hint.
Init ==
    /\ calm \in BOOLEAN
    /\ cookies \in Cookies
    /\ hint \in BOOLEAN
    /\ cookies # "none" => hint
    /\ isAuthenticated = FALSE
    /\ isInitialized = FALSE
    /\ load = Nothing
    /\ signIn = Nothing
    /\ refresh = Nothing
    /\ signOut = FALSE
    /\ signs = 0
    /\ ends = 0
    /\ faults = 0

-----------------------------------------------------------------------------
(* Requests. *)

Alive == cookies # "none"

\* The server's answer to GET /auth/me or POST /auth/refresh, or a failure of another kind:
\* a timeout, a network error, a 5xx.
Sent(asks, reply) ==
    \/ /\ reply = IF cookies = "live" \/ (asks = "refresh" /\ Alive) THEN "ok" ELSE "denied"
       /\ UNCHANGED faults
    \/ /\ reply = "failed"
       /\ ~calm
       /\ faults < MaxFaults
       /\ faults' = faults + 1

Asking(asks, reply) == [asks |-> asks, reply |-> reply]

Idle == load = Nothing /\ signIn = Nothing /\ refresh = Nothing /\ ~signOut

SignedIn == isAuthenticated' = TRUE /\ hint' = TRUE

-----------------------------------------------------------------------------
(* loadUser: the page load, the Navbar, and the heartbeat of a signed-in tab. *)

\* Without a hint there is nothing to ask, and nobody is signed in, even if a load is under
\* way; with one, a load under way is shared.
loadUser ==
    /\ ~isInitialized \/ isAuthenticated
    /\ \/ /\ hint /\ load = Nothing
          /\ \E reply \in Replies : Sent("me", reply) /\ load' = Asking("me", reply)
          /\ UNCHANGED store
       \/ /\ ~hint
          /\ isAuthenticated' = FALSE
          /\ isInitialized' = TRUE
          /\ UNCHANGED <<hint, load, faults>>
    /\ UNCHANGED <<calm, cookies, signIn, refresh, signOut, signs, ends>>

LoadEnds == load' = Nothing /\ UNCHANGED <<cookies, faults>>

\* Variant of LoadAnswered: a load that fails changes nothing.
LoadSwallowed ==
    /\ load # Nothing
    /\ \/ /\ load.asks \in {"me", "meAgain"} /\ load.reply = "ok"
          /\ SignedIn
          /\ isInitialized' = TRUE
          /\ LoadEnds
       \/ /\ load.reply # "ok"
          /\ UNCHANGED store
          /\ LoadEnds
       \/ /\ load.asks = "refresh" /\ load.reply = "ok"
          /\ \E reply \in Replies : Sent("me", reply) /\ load' = Asking("meAgain", reply)
          /\ UNCHANGED <<store, cookies>>
    /\ UNCHANGED <<calm, signIn, refresh, signOut, signs, ends>>

\* Variant of LoadAnswered: an expired access cookie is taken for the end of the session.
LoadUnrefreshed ==
    /\ load # Nothing
    /\ IF load.reply = "ok" THEN SignedIn ELSE isAuthenticated' = FALSE /\ hint' = FALSE
    /\ isInitialized' = TRUE
    /\ LoadEnds
    /\ UNCHANGED <<calm, signIn, refresh, signOut, signs, ends>>

\* A refused /auth/me is asked once more after POST /auth/refresh, which renews a stale
\* access cookie; any other failure, and a second one, ends in no session.
LoadAnswered ==
    /\ load # Nothing
    /\ \/ /\ load.asks \in {"me", "meAgain"} /\ load.reply = "ok"
          /\ SignedIn
          /\ isInitialized' = TRUE
          /\ LoadEnds
       \/ /\ load.asks = "me" /\ load.reply = "denied"
          /\ \E reply \in Replies : Sent("refresh", reply) /\ load' = Asking("refresh", reply)
          /\ cookies' = IF load'.reply = "ok" THEN "live" ELSE cookies
          /\ UNCHANGED store
       \/ /\ load.asks = "refresh" /\ load.reply = "ok"
          /\ \E reply \in Replies : Sent("me", reply) /\ load' = Asking("meAgain", reply)
          /\ UNCHANGED <<store, cookies>>
       \/ /\ load.reply = "failed" \/ (load.reply = "denied" /\ load.asks # "me")
          /\ hint' = FALSE
          /\ isAuthenticated' = FALSE
          /\ isInitialized' = TRUE
          /\ LoadEnds
    /\ UNCHANGED <<calm, signIn, refresh, signOut, signs, ends>>

-----------------------------------------------------------------------------
(* Signing in and out. *)

Clicks ==
    /\ signs < MaxSigns
    /\ signs' = signs + 1
    /\ isInitialized
    /\ calm => Idle

\* GET /auth/me right after the cookies were set.
Profile(reply) ==
    \/ reply = "ok" /\ UNCHANGED faults
    \/ reply = "failed" /\ ~calm /\ faults < MaxFaults /\ faults' = faults + 1

\* login and its like: the POST that sets the cookies, the hint, and GET /auth/me.
login ==
    /\ Clicks
    /\ signIn = Nothing
    /\ ~isAuthenticated
    /\ cookies' = "live"
    /\ hint' = TRUE
    /\ \E reply \in {"ok", "failed"} : Profile(reply) /\ signIn' = Asking("me", reply)
    /\ UNCHANGED <<calm, isAuthenticated, isInitialized, load, refresh, signOut, ends>>

LoginAnswered ==
    /\ signIn # Nothing
    /\ signIn' = Nothing
    /\ isAuthenticated' = (isAuthenticated \/ signIn.reply = "ok")
    /\ UNCHANGED <<calm, cookies, hint, isInitialized, load, refresh, signOut, signs, ends, faults>>

\* A page arrives from another domain with a hand-off code and redeems it before the load.
redeemHandoff ==
    /\ signs < MaxSigns
    /\ signs' = signs + 1
    /\ ~isInitialized
    /\ Idle
    /\ cookies' = "live"
    /\ hint' = TRUE
    /\ UNCHANGED <<calm, isAuthenticated, isInitialized, flows, ends, faults>>

\* A page is loaded anew: cookies and hint are what is left.
Reload ==
    /\ signs < MaxSigns
    /\ signs' = signs + 1
    /\ calm => Idle
    /\ isAuthenticated' = FALSE
    /\ isInitialized' = FALSE
    /\ load' = Nothing
    /\ signIn' = Nothing
    /\ refresh' = Nothing
    /\ signOut' = FALSE
    /\ UNCHANGED <<calm, cookies, hint, ends, faults>>

\* The sign-up steps set the cookies, and the profile gate changes the user: refreshUser
\* follows.
SignUp ==
    /\ Clicks
    /\ refresh = Nothing
    /\ ~isAuthenticated
    /\ cookies' = "live"
    /\ \E reply \in {"ok", "failed"} : Profile(reply) /\ refresh' = Asking("me", reply)
    /\ UNCHANGED <<calm, store, load, signIn, signOut, ends>>

refreshUser ==
    /\ refresh = Nothing
    /\ isAuthenticated
    /\ \E reply \in Replies : Sent("me", reply) /\ refresh' = Asking("me", reply)
    /\ UNCHANGED <<calm, cookies, store, load, signIn, signOut, signs, ends>>

\* A failure is swallowed.
RefreshAnswered ==
    /\ refresh # Nothing
    /\ refresh' = Nothing
    /\ IF refresh.reply = "ok" THEN SignedIn ELSE UNCHANGED <<isAuthenticated, hint>>
    /\ UNCHANGED <<calm, cookies, isInitialized, load, signIn, signOut, signs, ends, faults>>

\* The user signs out, or maintenance forces it: POST /auth/logout, and its answer or its
\* failure clears the client.
logout ==
    /\ Clicks
    /\ isAuthenticated
    /\ ~signOut
    /\ signOut' = TRUE
    /\ \/ cookies' = "none" /\ UNCHANGED faults
       \/ ~calm /\ faults < MaxFaults /\ faults' = faults + 1 /\ UNCHANGED cookies
    /\ UNCHANGED <<calm, store, load, signIn, refresh, ends>>

LogoutAnswered ==
    /\ signOut
    /\ signOut' = FALSE
    /\ hint' = FALSE
    /\ isAuthenticated' = FALSE
    /\ UNCHANGED <<calm, cookies, isInitialized, load, signIn, refresh, signs, ends, faults>>

-----------------------------------------------------------------------------
(* The server. *)

\* The access cookie expires, or the session does, or it is ended from elsewhere.
SessionEnds ==
    /\ Alive
    /\ calm => Idle
    /\ ends < MaxEnds
    /\ ends' = ends + 1
    /\ cookies' \in {"stale", "none"}
    /\ UNCHANGED <<calm, store, flows, signs, faults>>

-----------------------------------------------------------------------------
Next ==
    \/ loadUser \/ LoadAnswered
    \/ redeemHandoff \/ Reload
    \/ login \/ LoginAnswered \/ SignUp \/ refreshUser \/ RefreshAnswered
    \/ logout \/ LogoutAnswered
    \/ SessionEnds

Spec == Init /\ [][Next]_vars

\* The page loads and the heartbeat ticks in a visible tab; api.request answers or times
\* out.
FairSpec ==
    /\ Spec
    /\ WF_vars(loadUser)
    /\ WF_vars(LoadAnswered)
    /\ WF_vars(LoginAnswered)
    /\ WF_vars(RefreshAnswered)
    /\ WF_vars(LogoutAnswered)

-----------------------------------------------------------------------------
(* Properties. *)

\* A user whose session is alive is not shown the signed-out site while nothing fails:
\* loadUser renews an expired access cookie and each sign-in ends in a user.
SignedInIsShown == calm /\ Idle /\ isInitialized /\ Alive => isAuthenticated

\* The inductive invariant behind it: while nothing fails, an answer under way is true of the
\* cookies as they are, and a live session that is not shown, or has left no hint yet, is
\* about to be by the answer of the sign-in or sign-up that started it.
ShownSoon == refresh # Nothing /\ refresh.reply = "ok"
SessionInv ==
    /\ TypeOK
    /\ calm =>
        /\ load.reply # "failed"
        /\ load.asks = "meAgain" => load.reply = "ok"
        /\ load.asks = "refresh" => IF load.reply = "ok" THEN cookies = "live" ELSE ~Alive
        /\ signIn.reply = "ok"
        /\ signOut => ~Alive
        /\ Alive /\ isInitialized /\ ~isAuthenticated => signIn # Nothing \/ ShownSoon
        /\ Alive /\ ~hint =>
              /\ isInitialized /\ ~isAuthenticated /\ ShownSoon
              /\ load = Nothing /\ signIn = Nothing /\ ~signOut

\* The heartbeat "doubles as a session-validity check" (AuthProvider.tsx:106-107): in the
\* end the store has no user whose session is gone, whichever late answer put it there.
EndIsNoticed == <>[](isAuthenticated => Alive)

\* The page appears: an app route renders nothing until the first load has ended, and a
\* failed, a refused and a needless one all end it.
Appears == <>isInitialized
=============================================================================
