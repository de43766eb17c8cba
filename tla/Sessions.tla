------------------------------ MODULE Sessions ------------------------------
(***************************************************************************)
(* A signed-in user: the refresh tokens of the server (auth.py refresh,    *)
(* RefreshTokenStore) and the tabs of one browser (auth.ts authFetch,      *)
(* AuthContext), which share localStorage.  A sign-in or a refresh issues  *)
(* a pair of an access and a refresh token; pairs are numbered.  The       *)
(* refresh handler is three transactions with others between them; its     *)
(* answer may be lost, and a page may be reloaded at any moment.  A tab's  *)
(* access to localStorage is one step.  Both sides are taken to mean the   *)
(* same path, although auth.ts asks for /api/auth and auth.py serves /auth.*)
(***************************************************************************)
EXTENDS Naturals, FiniteSets

CONSTANTS
    Tabs,         \* pages open in the browser
    Calls,        \* API calls a page may have under way at once
    MaxLogins,    \* bound on sign-ins
    MaxRefreshes  \* bound on refresh requests

ASSUME SessionsAssumption == MaxLogins \in Nat /\ MaxRefreshes \in Nat

MaxPairs == MaxLogins + MaxRefreshes
Pairs    == 1..MaxPairs
Requests == 1..MaxRefreshes
None     == 0

VARIABLES
    row,         \* refresh_tokens: pair -> "none", "live", "revoked", "expired"
    storage,     \* localStorage: the pair the tabs share, or None
    user,        \* AuthContext: does the tab show a signed-in user?
    refreshing,  \* refreshPromise: tab -> its request, or None
    request,     \* POST /auth/refresh: the requests made so far
    call,        \* authFetch: tab, call -> where it is
    logins       \* counter for the bound

vars == <<row, storage, user, refreshing, request, call, logins>>

Unsent == [tab |-> None, presented |-> None, pc |-> "unsent", granted |-> None,
           lost |-> FALSE, after |-> {}]

Init ==
    /\ row = [p \in Pairs |-> "none"]
    /\ storage = None
    /\ user = [t \in Tabs |-> FALSE]
    /\ refreshing = [t \in Tabs |-> None]
    /\ request = [r \in Requests |-> Unsent]
    /\ call = [t \in Tabs |-> [c \in Calls |-> "idle"]]
    /\ logins = 0

NewPair(p) == p \in Pairs /\ row[p] = "none" /\ \A q \in 1..(p - 1) : row[q] # "none"
NewRequest(r) ==
    /\ r \in Requests /\ request[r].pc = "unsent"
    /\ \A q \in 1..(r - 1) : request[q].pc # "unsent"
-----------------------------------------------------------------------------
(* The server. *)

\* The token pair is created: access token, refresh token and its row.
IssueMutant(p) == NewPair(p) /\ row' = row
Issue(p) ==
    /\ NewPair(p)
    /\ row' = [row EXCEPT ![p] = "live"]

\* refresh: the row is read; missing, revoked and expired tokens get a 401.
HandlerGet(r) ==
    /\ request[r].pc = "get"
    /\ request' = [request EXCEPT ![r].pc =
          IF row[request[r].presented] = "live" THEN "revoke" ELSE "denied"]
    /\ UNCHANGED <<row, storage, user, refreshing, call, logins>>

\* The rotation: the presented token is revoked.
RevokedRowMutant(p) == row
RevokedRow(p) == [row EXCEPT ![p] = "revoked"]
HandlerRevoke(r) ==
    /\ request[r].pc = "revoke"
    /\ row' = RevokedRow(request[r].presented)
    /\ request' = [request EXCEPT ![r].pc = "create"]
    /\ UNCHANGED <<storage, user, refreshing, call, logins>>

\* The user is looked up (users are never removed) and the new pair created.
HandlerCreate(r) ==
    /\ request[r].pc = "create"
    /\ \E p \in Pairs :
        /\ Issue(p)
        /\ request' = [request EXCEPT ![r].pc = "granted", ![r].granted = p]
    /\ UNCHANGED <<storage, user, refreshing, call, logins>>

\* Something before the handler answers instead: 429 of the rate limiter, 5xx.
Refused(r) ==
    /\ request[r].pc = "get"
    /\ request' = [request EXCEPT ![r].pc = "refused"]
    /\ UNCHANGED <<row, storage, user, refreshing, call, logins>>

\* Refresh tokens expire after days.
RefreshExpires(p) ==
    /\ row[p] = "live"
    /\ row' = [row EXCEPT ![p] = "expired"]
    /\ UNCHANGED <<storage, user, refreshing, request, call, logins>>
-----------------------------------------------------------------------------
(* The tabs. *)

\* AuthContext login, logout; a page load takes the user from the storage.
Login(t) ==
    /\ ~user[t] /\ logins < MaxLogins
    /\ \E p \in Pairs : Issue(p) /\ storage' = p
    /\ user' = [user EXCEPT ![t] = TRUE]
    /\ logins' = logins + 1
    /\ UNCHANGED <<refreshing, request, call>>

Logout(t) ==
    /\ user[t]
    /\ storage' = None
    /\ user' = [user EXCEPT ![t] = FALSE]
    /\ UNCHANGED <<row, refreshing, request, call, logins>>

Drop(r) == IF r = None THEN request ELSE [request EXCEPT ![r].lost = TRUE]

Reload(t) ==
    /\ user' = [user EXCEPT ![t] = storage # None]
    /\ request' = Drop(refreshing[t])
    /\ refreshing' = [refreshing EXCEPT ![t] = None]
    /\ call' = [call EXCEPT ![t] = [c \in Calls |-> "idle"]]
    /\ UNCHANGED <<row, storage, logins>>

\* authFetch: the request is sent.  Whether its access token, which lasts for
\* minutes, has expired when the server looks at it is left open.
CallSend(t, c) ==
    /\ user[t] /\ call[t][c] = "idle"
    /\ call' = [call EXCEPT ![t][c] = "sent"]
    /\ UNCHANGED <<row, storage, user, refreshing, request, logins>>

\* Any answer but a 401, a 401 with no refresh token stored, or a network
\* error ends the call.
CallEnds(t, c) ==
    /\ call[t][c] = "sent"
    /\ call' = [call EXCEPT ![t][c] = "idle"]
    /\ UNCHANGED <<row, storage, user, refreshing, request, logins>>

\* A 401: the call joins the refresh of its tab, or starts it.
JoinsMutant(t) == FALSE
Joins(t) == refreshing[t] # None
CallUnauthorized(t, c) ==
    /\ call[t][c] = "sent" /\ storage # None
    /\ call' = [call EXCEPT ![t][c] = "waiting"]
    /\ \/ Joins(t) /\ UNCHANGED <<refreshing, request>>
       \/ /\ ~Joins(t)
          /\ \E r \in Requests :
              /\ NewRequest(r)
              /\ refreshing' = [refreshing EXCEPT ![t] = r]
              /\ request' = [request EXCEPT ![r] =
                    [Unsent EXCEPT !.tab = t, !.presented = storage, !.pc = "get",
                        !.after = {q \in Requests :
                            request[q].pc \in {"granted", "denied", "refused"}}]]
    /\ UNCHANGED <<row, storage, user, logins>>

\* refreshPromise settles: the calls that wait for it return their 401, or
\* are repeated once and end with whatever the answer is.
SettleMutant(t) ==
    /\ refreshing' = [refreshing EXCEPT ![t] = None]
    /\ UNCHANGED call
Settle(t) ==
    /\ refreshing' = [refreshing EXCEPT ![t] = None]
    /\ call' = [call EXCEPT ![t] = [c \in Calls |->
          IF call[t][c] = "waiting" THEN "idle" ELSE call[t][c]]]

Answered(t, pc) == refreshing[t] # None /\ request[refreshing[t]].pc = pc

\* 200: saveTokens; the calls are repeated with the new access token.
SavedMutant(p) == storage
Saved(p) == p
RefreshOk(t) ==
    /\ Answered(t, "granted")
    /\ storage' = Saved(request[refreshing[t]].granted)
    /\ Settle(t)
    /\ UNCHANGED <<row, user, request, logins>>

\* Any other status: clearTokens; the calls return their 401.
RefreshFailed(t) ==
    /\ Answered(t, "denied") \/ Answered(t, "refused")
    /\ storage' = None
    /\ Settle(t)
    /\ UNCHANGED <<row, user, request, logins>>

\* A network error: the tokens stay.  The handler may run all the same.
KeptMutant == None
Kept == storage
RefreshLost(t) ==
    /\ refreshing[t] # None
    /\ request' = Drop(refreshing[t])
    /\ storage' = Kept
    /\ Settle(t)
    /\ UNCHANGED <<row, user, logins>>

Handler(r) == HandlerGet(r) \/ HandlerRevoke(r) \/ HandlerCreate(r) \/ Refused(r)

Next ==
    \/ \E r \in Requests : Handler(r)
    \/ \E p \in Pairs : RefreshExpires(p)
    \/ \E t \in Tabs :
        \/ Login(t) \/ Logout(t) \/ Reload(t)
        \/ RefreshOk(t) \/ RefreshFailed(t) \/ RefreshLost(t)
        \/ \E c \in Calls :
            CallSend(t, c) \/ CallEnds(t, c) \/ CallUnauthorized(t, c)

Spec == Init /\ [][Next]_vars
-----------------------------------------------------------------------------
(* Properties. *)

\* Types; a stored pair has been issued.
SessionsTypeOK ==
    /\ row \in [Pairs -> {"none", "live", "revoked", "expired"}]
    /\ storage \in Pairs \cup {None}
    /\ storage # None => row[storage] # "none"
    /\ \A t \in Tabs : refreshing[t] # None => request[refreshing[t]].tab = t

\* A tab presents a refresh token once: a second time it would find it
\* rotated away and sign the user out.  Only a request that was lost is
\* followed by another with the same token (refreshPromise).
PresentedOnce ==
    \A r, s \in Requests :
        r # s /\ request[r].tab = request[s].tab /\ request[r].presented # None
              /\ request[r].presented = request[s].presented
        => request[r].lost \/ request[s].lost

\* A refresh token is good for one refresh: of two requests that present the
\* same one and are both granted, neither was sent after the other's answer.
OneSuccessor ==
    \A r, s \in Requests :
        r # s /\ request[r].granted # None /\ request[s].granted # None
              /\ request[r].presented = request[s].presented
        => r \notin request[s].after

\* Between refreshes the browser holds no dead refresh token, whatever the
\* tabs did at once: unless an answer was lost or days have gone by, what is
\* stored can be refreshed again.
AtRestUsable ==
    /\ \A t \in Tabs : refreshing[t] = None
    /\ \A r \in Requests : ~request[r].lost
    /\ storage # None
    => row[storage] \in {"live", "expired"}

\* A tab gives up tokens that are still good only when the user signs out, or
\* when a refresh it had begun with an older token, or that was refused before
\* it was handled, fails.
GoodTokensKept ==
    [][\A t \in Tabs :
        /\ storage # None /\ storage' = None
        /\ refreshing[t] # None /\ refreshing'[t] = None
        /\ user' = user
        => \/ row[storage] # "live"
           \/ request[refreshing[t]].presented # storage
           \/ Answered(t, "refused")]_vars

\* No call waits for ever: whatever settles refreshPromise, an answer, a
\* refusal, a network error or the page going away, settles every call that
\* has joined it, and none waits without it.
NoOrphanWaiter ==
    \A t \in Tabs, c \in Calls : call[t][c] = "waiting" => refreshing[t] # None
=============================================================================
