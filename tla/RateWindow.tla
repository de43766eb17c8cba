----------------------------- MODULE RateWindow -----------------------------
(***************************************************************************)
(* RateLimitMiddleware: a sliding window of accepted requests per key,     *)
(* kept in the memory of the API server.  dispatch runs on the event loop  *)
(* and awaits nothing before its answer, so a request is one step.  Times  *)
(* are ages in ticks; an age stops growing once it has left the window.    *)
(***************************************************************************)
EXTENDS Integers, FiniteSets, Selection

CONSTANTS
    Clients,         \* client addresses
    Routes,          \* <<method, path>> of the requests
    RuledRoutes,     \* the routes with a rule of their own (path_rules)
    OwnMax,          \* max_requests of such a rule
    DefaultMax,      \* max_requests of default_rule
    WindowTicks,     \* window_seconds
    TicksPerSecond   \* resolution of time.monotonic()

\* What stands for the route in the key of the default rule.
Default == "default"

ASSUME RateAssumption ==
    /\ RuledRoutes \subseteq Routes /\ Default \notin Routes
    /\ {OwnMax, DefaultMax, WindowTicks, TicksPerSecond} \subseteq Nat \ {0}

VARIABLES
    timestamps,  \* _windows: key -> ages of the entries, oldest first
    accepted,    \* history: client -> route and age of the requests let through
                 \* during the last window
    promise      \* history: key -> ticks left of the earliest Retry-After
                 \* given since the last accepted request, or NoPromise

vars == <<timestamps, accepted, promise>>

NoPromise == -1

\* key: the client with its own rule's route, or with all other routes.
KeyOfMutant(c, r) == <<c, Default>>
KeyOf(c, r) == IF r \in RuledRoutes THEN <<c, r>> ELSE <<c, Default>>
Keys == Clients \X (RuledRoutes \cup {Default})

\* _get_rule
MaxOf(k) == IF k[2] = Default THEN DefaultMax ELSE OwnMax

Init ==
    /\ timestamps = [k \in Keys |-> << >>]
    /\ accepted   = [c \in Clients |-> << >>]
    /\ promise    = [k \in Keys |-> NoPromise]

\* count_and_clean: what is left of the window.
CleanedMutant(seq) == Selected(seq, {i \in DOMAIN seq : seq[i] <= WindowTicks})
Cleaned(seq) == Selected(seq, {i \in DOMAIN seq : seq[i] < WindowTicks})

\* The header Retry-After of a 429, in ticks: seconds are truncated, plus one.
RetryAfterMutant(fresh) ==
    TicksPerSecond * ((WindowTicks - fresh[1]) \div TicksPerSecond)
RetryAfter(fresh) ==
    TicksPerSecond * ((WindowTicks - fresh[1]) \div TicksPerSecond + 1)

\* dispatch, the request is let through.
Accept(c, r) ==
    LET k == KeyOf(c, r)
        fresh == Cleaned(timestamps[k])
    IN /\ Len(fresh) < MaxOf(k)
       /\ timestamps' = [timestamps EXCEPT ![k] = Append(fresh, 0)]
       /\ accepted' = [accepted EXCEPT ![c] = Append(@, [route |-> r, age |-> 0])]
       /\ promise' = [promise EXCEPT ![k] = NoPromise]

\* dispatch, 429: nothing is recorded, so asking again does not prolong it.
RefuseRecordsMutant(c, r) ==
    LET k == KeyOf(c, r)
        fresh == Cleaned(timestamps[k])
    IN /\ Len(fresh) >= MaxOf(k)
       /\ timestamps' = [timestamps EXCEPT ![k] = Append(Tail(fresh), 0)]
       /\ UNCHANGED <<accepted, promise>>
Refuse(c, r) ==
    LET k == KeyOf(c, r)
        fresh == Cleaned(timestamps[k])
    IN /\ Len(fresh) >= MaxOf(k)
       /\ timestamps' = [timestamps EXCEPT ![k] = fresh]
       /\ promise' = [promise EXCEPT ![k] =
             IF @ = NoPromise \/ @ > RetryAfter(fresh) THEN RetryAfter(fresh) ELSE @]
       /\ UNCHANGED accepted

\* One tick of the clock, for the entries and for the histories.
Older(age) == IF age < WindowTicks THEN age + 1 ELSE age
Tick ==
    /\ timestamps' = [k \in Keys |-> [i \in DOMAIN timestamps[k] |-> Older(timestamps[k][i])]]
    /\ accepted' = [c \in Clients |->
          LET aged == [i \in DOMAIN accepted[c] |-> [accepted[c][i] EXCEPT !.age = @ + 1]]
          IN  Selected(aged, {i \in DOMAIN aged : aged[i].age < WindowTicks})]
    /\ promise' = [k \in Keys |->
          IF promise[k] = NoPromise \/ promise[k] = 0 THEN promise[k] ELSE promise[k] - 1]

Next ==
    \/ \E c \in Clients, r \in Routes : Accept(c, r) \/ Refuse(c, r)
    \/ Tick

Spec == Init /\ [][Next]_vars

\* Time passes, and every client keeps asking on every route.
FairSpec ==
    /\ Spec
    /\ WF_vars(Tick)
    /\ \A c \in Clients, r \in Routes : SF_vars(Accept(c, r))
-----------------------------------------------------------------------------
(* Properties. *)

\* Requests of a key let through during the last window, by the history.
InWindow(k) ==
    Cardinality({i \in DOMAIN accepted[k[1]] : KeyOf(k[1], accepted[k[1]][i].route) = k})

\* The list a key keeps tells exactly how many of its requests went through
\* during the last window: none is forgotten early, none counted too long,
\* and none counted against another rule (count_and_clean, key).
CountsExactly ==
    \A k \in Keys : Len(Cleaned(timestamps[k])) = InWindow(k)

\* In any window a client gets at most max_requests through for each rule:
\* on a route with a rule of its own, and on all the others together.
WindowBound ==
    \A c \in Clients :
        /\ \A r \in RuledRoutes :
              Cardinality({i \in DOMAIN accepted[c] : accepted[c][i].route = r}) <= OwnMax
        /\ Cardinality({i \in DOMAIN accepted[c] :
                           accepted[c][i].route \notin RuledRoutes}) <= DefaultMax

\* Retry-After is honest: when it has elapsed and nothing of the key was let
\* through meanwhile, the next request is let through.
RetryAfterHonest ==
    \A k \in Keys : promise[k] = 0 => Len(Cleaned(timestamps[k])) < MaxOf(k)

\* Asking too often starves nobody: a refused request is not recorded, so a
\* client that keeps asking is let through again and again, on every route.
AskersServed ==
    \A c \in Clients, r \in Routes : []<><<Accept(c, r)>>_vars
=============================================================================
