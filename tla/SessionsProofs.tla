--------------------------- MODULE SessionsProofs ---------------------------
(***************************************************************************)
(* TLAPS proofs about Sessions: how refresh tokens are rotated, presented  *)
(* and given up, for any number of tabs, calls, sign-ins and refreshes.    *)
(***************************************************************************)
EXTENDS Sessions, TLAPS

Rows == {"none", "live", "revoked", "expired"}
RequestPcs == {"unsent", "get", "revoke", "create", "granted", "denied", "refused"}
Final == {"granted", "denied", "refused"}
CallPcs == {"idle", "sent", "waiting"}

RequestType == [tab : Tabs \cup {None}, presented : Pairs \cup {None}, pc : RequestPcs,
                granted : Pairs \cup {None}, lost : BOOLEAN, after : SUBSET Requests]

Typed ==
    /\ row \in [Pairs -> Rows]
    /\ storage \in Pairs \cup {None}
    /\ user \in [Tabs -> BOOLEAN]
    /\ refreshing \in [Tabs -> Requests \cup {None}]
    /\ request \in [Requests -> RequestType]
    /\ call \in [Tabs -> [Calls -> CallPcs]]
    /\ logins \in Nat

\* A request is sent once, by a tab that holds a token, and grants a pair only
\* by its answer.
WellFormed(r) ==
    /\ r.pc = "unsent" => r.presented = None /\ ~r.lost
    /\ r.pc # "unsent" => r.tab \in Tabs /\ r.presented \in Pairs
    /\ r.granted # None <=> r.pc = "granted"

\* What a pair's row says of the requests and of the storage.
RowsInv ==
    /\ storage # None => row[storage] # "none"
    /\ \A r \in Requests :
        /\ WellFormed(request[r])
        /\ request[r].pc # "unsent" => row[request[r].presented] # "none"
        /\ request[r].granted # None => row[request[r].granted] # "none"
        /\ request[r].pc \in {"create", "granted"} => row[request[r].presented] = "revoked"
        /\ request[r].pc = "denied" => row[request[r].presented] # "live"
    /\ \A p \in Pairs : row[p] = "revoked" => \E r \in Requests : request[r].presented = p

\* Whom a tab waits for.
TabsInv ==
    /\ \A t \in Tabs : refreshing[t] # None => request[refreshing[t]].tab = t
                                              /\ request[refreshing[t]].pc # "unsent"
    /\ \A r, s \in Requests : r # s /\ request[r].granted # None =>
                                  request[r].granted # request[s].granted

\* The answer of r has not been taken yet.
Awaited(r) == request[r].tab \in Tabs /\ refreshing[request[r].tab] = r

\* A pair is neither stored nor presented before its answer is taken, and what
\* a tab has presented leaves the storage with the answer, or the answer is lost.
PairsInv ==
    /\ \A r \in Requests : request[r].granted # None /\ Awaited(r) =>
          /\ storage # request[r].granted
          /\ \A s \in Requests : request[s].presented # request[r].granted
    /\ \A r \in Requests : request[r].pc # "unsent" /\ ~request[r].lost =>
          Awaited(r) \/ storage # request[r].presented

\* A token that was rotated before it was presented again is denied.
AfterInv ==
    \A r, s \in Requests : r \in request[s].after =>
        /\ request[r].pc \in Final
        /\ request[r].pc = "granted" /\ request[r].presented = request[s].presented =>
              request[s].pc \notin {"revoke", "create", "granted"}

Inv == /\ Typed /\ RowsInv /\ TabsInv /\ PairsInv /\ AfterInv
       /\ NoOrphanWaiter /\ PresentedOnce
-----------------------------------------------------------------------------
(* How a step changes a request. *)

\* Request r gets a new state, answer and fate; nothing else changes.
Turns(r, pc, granted, lost) ==
    /\ request' \in [Requests -> RequestType]
    /\ request'[r].tab = request[r].tab /\ request'[r].presented = request[r].presented
    /\ request'[r].after = request[r].after
    /\ request'[r].pc = pc /\ request'[r].granted = granted /\ request'[r].lost = lost
    /\ \A s \in Requests : s # r => request'[s] = request[s]

LEMMA RequestTurns ==
    ASSUME Typed, NEW r \in Requests, NEW pc \in RequestPcs, NEW granted \in Pairs \cup {None},
           NEW lost \in BOOLEAN,
           request' = [request EXCEPT ![r] =
               [request[r] EXCEPT !.pc = pc, !.granted = granted, !.lost = lost]]
    PROVE  Turns(r, pc, granted, lost)
<1> DEFINE n == [request[r] EXCEPT !.pc = pc, !.granted = granted, !.lost = lost]
<1>1. request[r] \in RequestType /\ request \in [Requests -> RequestType]
  BY DEF Typed
<1>2. /\ n \in RequestType /\ n.tab = request[r].tab /\ n.presented = request[r].presented
      /\ n.after = request[r].after /\ n.pc = pc /\ n.granted = granted /\ n.lost = lost
  BY <1>1 DEF RequestType
<1>3. request' = [request EXCEPT ![r] = n]
  OBVIOUS
<1> HIDE DEF n
<1> QED
  BY <1>1, <1>2, <1>3 DEF Turns

\* A handler moves on.
LEMMA PcTurns ==
    ASSUME Typed, NEW r \in Requests, NEW pc \in RequestPcs,
           request' = [request EXCEPT ![r].pc = pc]
    PROVE  Turns(r, pc, request[r].granted, request[r].lost)
<1>1. request[r] \in RequestType
  BY DEF Typed
<1>2. [request[r] EXCEPT !.pc = pc]
        = [request[r] EXCEPT !.pc = pc, !.granted = request[r].granted, !.lost = request[r].lost]
  BY <1>1 DEF RequestType
<1>3. request[r].granted \in Pairs \cup {None} /\ request[r].lost \in BOOLEAN
  BY <1>1 DEF RequestType
<1>4. request' = [request EXCEPT ![r] =
          [request[r] EXCEPT !.pc = pc, !.granted = request[r].granted, !.lost = request[r].lost]]
  BY <1>2
<1> QED
  BY <1>3, <1>4, RequestTurns

LEMMA CreateTurns ==
    ASSUME Typed, NEW r \in Requests, NEW p \in Pairs,
           request' = [request EXCEPT ![r].pc = "granted", ![r].granted = p]
    PROVE  Turns(r, "granted", p, request[r].lost)
<1> DEFINE n == [request[r] EXCEPT !.pc = "granted", !.granted = p]
<1>1. request[r] \in RequestType /\ request \in [Requests -> RequestType]
  BY DEF Typed
<1>2. "granted" \in RequestPcs /\ p \in Pairs \cup {None}
  BY DEF RequestPcs
<1>3. /\ n \in RequestType /\ n.tab = request[r].tab /\ n.presented = request[r].presented
      /\ n.after = request[r].after /\ n.pc = "granted" /\ n.granted = p
      /\ n.lost = request[r].lost
  BY <1>1, <1>2 DEF RequestType
<1>4. request' = [request EXCEPT ![r] = n]
  BY <1>1
<1> HIDE DEF n
<1> QED
  BY <1>1, <1>3, <1>4 DEF Turns

\* An answer is lost.
LEMMA DropTurns ==
    ASSUME Typed, NEW r \in Requests, request' = Drop(r)
    PROVE  Turns(r, request[r].pc, request[r].granted, TRUE)
<1>1. request[r] \in RequestType /\ r # None
  BY DEF Typed, Requests, None
<1>2. [request[r] EXCEPT !.lost = TRUE]
        = [request[r] EXCEPT !.pc = request[r].pc, !.granted = request[r].granted, !.lost = TRUE]
  BY <1>1 DEF RequestType
<1>3. request[r].granted \in Pairs \cup {None} /\ request[r].pc \in RequestPcs
  BY <1>1 DEF RequestType
<1>4. request' = [request EXCEPT ![r].lost = TRUE]
  BY <1>1 DEF Drop
<1> QED
  BY <1>2, <1>3, <1>4, RequestTurns

\* A tab sends a request.
Sends(r, t) ==
    /\ request' \in [Requests -> RequestType] /\ request[r].pc = "unsent"
    /\ request'[r].tab = t /\ request'[r].presented = storage
    /\ request'[r].pc = "get" /\ request'[r].granted = None /\ request'[r].lost = FALSE
    /\ request'[r].after = {q \in Requests : request[q].pc \in Final}
    /\ \A s \in Requests : s # r => request'[s] = request[s]

LEMMA RequestSent ==
    ASSUME Typed, NEW t \in Tabs, NEW c \in Calls, CallUnauthorized(t, c)
    PROVE  \/ UNCHANGED <<refreshing, request>>
           \/ /\ refreshing[t] = None /\ storage # None
              /\ \E r \in Requests :
                    Sends(r, t) /\ refreshing' = [refreshing EXCEPT ![t] = r]
<1> SUFFICES ASSUME ~UNCHANGED <<refreshing, request>>
             PROVE  /\ refreshing[t] = None /\ storage # None
                    /\ \E r \in Requests :
                          Sends(r, t) /\ refreshing' = [refreshing EXCEPT ![t] = r]
  OBVIOUS
<1> DEFINE after == {q \in Requests : request[q].pc \in {"granted", "denied", "refused"}}
           n == [Unsent EXCEPT !.tab = t, !.presented = storage, !.pc = "get", !.after = after]
<1>1. refreshing[t] = None /\ storage # None
  BY DEF CallUnauthorized, Joins
<1>2. PICK r \in Requests : /\ request[r].pc = "unsent"
                            /\ refreshing' = [refreshing EXCEPT ![t] = r]
                            /\ request' = [request EXCEPT ![r] = n]
  BY DEF CallUnauthorized, NewRequest
<1>3. after \in SUBSET Requests /\ after = {q \in Requests : request[q].pc \in Final}
  BY DEF Final
<1> HIDE DEF after
<1>4. /\ Unsent \in RequestType /\ Unsent.granted = None /\ Unsent.lost = FALSE
      /\ "get" \in RequestPcs /\ storage \in Pairs \cup {None}
  BY DEF Unsent, RequestType, RequestPcs, Typed
<1>5. /\ n \in RequestType /\ n.tab = t /\ n.presented = storage /\ n.pc = "get"
      /\ n.granted = None /\ n.lost = FALSE /\ n.after = after
  BY <1>3, <1>4 DEF RequestType
<1> HIDE DEF n
<1>6. Sends(r, t)
  BY <1>2, <1>3, <1>5 DEF Sends, Typed
<1> QED
  BY <1>1, <1>2, <1>6
-----------------------------------------------------------------------------
(* The invariant. *)

\* A step of a handler, of a tab that sends or loses a request, and the rest.
LEMMA Steps ==
    ASSUME Typed, [Next]_vars
    PROVE  \/ \E r \in Requests : HandlerGet(r)
                  /\ Turns(r, IF row[request[r].presented] = "live" THEN "revoke" ELSE "denied",
                           request[r].granted, request[r].lost)
           \/ \E r \in Requests : HandlerRevoke(r)
                  /\ Turns(r, "create", request[r].granted, request[r].lost)
           \/ \E r \in Requests, p \in Pairs :
                  /\ HandlerCreate(r) /\ Issue(p) /\ Turns(r, "granted", p, request[r].lost)
           \/ \E r \in Requests : Refused(r)
                  /\ Turns(r, "refused", request[r].granted, request[r].lost)
           \/ \E t \in Tabs : (Reload(t) \/ RefreshLost(t)) /\ refreshing[t] # None
                  /\ Turns(refreshing[t], request[refreshing[t]].pc,
                           request[refreshing[t]].granted, TRUE)
           \/ \E t \in Tabs, c \in Calls : CallUnauthorized(t, c) /\ refreshing[t] = None
                  /\ storage # None
                  /\ \E r \in Requests : Sends(r, t) /\ refreshing' = [refreshing EXCEPT ![t] = r]
           \/ request' = request
<1>1. ASSUME NEW r \in Requests, HandlerGet(r)
      PROVE  Turns(r, IF row[request[r].presented] = "live" THEN "revoke" ELSE "denied",
                   request[r].granted, request[r].lost)
  <2> DEFINE pc == IF row[request[r].presented] = "live" THEN "revoke" ELSE "denied"
  <2>1. pc \in RequestPcs /\ request' = [request EXCEPT ![r].pc = pc]
    BY <1>1 DEF HandlerGet, RequestPcs
  <2> HIDE DEF pc
  <2>2. Turns(r, pc, request[r].granted, request[r].lost)
    BY <2>1, PcTurns
  <2> QED
    BY <2>2 DEF pc
<1>2. ASSUME NEW r \in Requests, HandlerRevoke(r)
      PROVE  Turns(r, "create", request[r].granted, request[r].lost)
  <2>1. "create" \in RequestPcs /\ request' = [request EXCEPT ![r].pc = "create"]
    BY <1>2 DEF HandlerRevoke, RequestPcs
  <2> QED
    BY <2>1, PcTurns
<1>3. ASSUME NEW r \in Requests, HandlerCreate(r)
      PROVE  \E p \in Pairs : Issue(p) /\ Turns(r, "granted", p, request[r].lost)
  BY <1>3, CreateTurns DEF HandlerCreate
<1>4. ASSUME NEW r \in Requests, Refused(r)
      PROVE  Turns(r, "refused", request[r].granted, request[r].lost)
  <2>1. "refused" \in RequestPcs /\ request' = [request EXCEPT ![r].pc = "refused"]
    BY <1>4 DEF Refused, RequestPcs
  <2> QED
    BY <2>1, PcTurns
<1>5. ASSUME NEW t \in Tabs, Reload(t) \/ RefreshLost(t), refreshing[t] # None
      PROVE  Turns(refreshing[t], request[refreshing[t]].pc, request[refreshing[t]].granted, TRUE)
  <2>1. refreshing[t] \in Requests
    BY <1>5 DEF Typed
  <2>2. request' = Drop(refreshing[t])
    BY <1>5 DEF Reload, RefreshLost
  <2> QED
    BY <2>1, <2>2, DropTurns
<1>6. ASSUME NEW t \in Tabs, Reload(t) \/ RefreshLost(t), refreshing[t] = None
      PROVE  request' = request
  BY <1>6 DEF Reload, RefreshLost, Drop
<1> QED
  BY <1>1, <1>2, <1>3, <1>4, <1>5, <1>6, RequestSent DEF Next, Handler, RefreshExpires, Login,
     Logout, RefreshOk, RefreshFailed, CallSend, CallEnds, vars

\* Types, apart from those of the requests.
LEMMA NextTyped ==
    ASSUME Typed, RowsInv, [Next]_vars
    PROVE  Typed'
<1>1. request' \in [Requests -> RequestType]
  <2>1. request \in [Requests -> RequestType]
    BY DEF Typed
  <2> QED
    BY <2>1, Steps DEF Turns, Sends
<1>2. row' \in [Pairs -> Rows]
  BY DEF Typed, Rows, Next, Handler, HandlerGet, HandlerRevoke, RevokedRow, HandlerCreate, Issue,
     Refused, RefreshExpires, Login, Logout, Reload, RefreshOk, RefreshFailed, RefreshLost,
     CallSend, CallEnds, CallUnauthorized, vars
<1>3. storage' \in Pairs \cup {None}
  <2>1. ASSUME NEW t \in Tabs, RefreshOk(t) PROVE storage' \in Pairs \cup {None}
    <3>1. request[refreshing[t]] \in RequestType
      BY <2>1 DEF RefreshOk, Answered, Typed
    <3> QED
      BY <2>1, <3>1 DEF RefreshOk, Saved, RequestType
  <2>2. ASSUME NEW t \in Tabs, Login(t) PROVE storage' \in Pairs \cup {None}
    BY <2>2 DEF Login
  <2>3. (\E t \in Tabs : Logout(t) \/ RefreshFailed(t)) => storage' = None
    BY DEF Logout, RefreshFailed
  <2>4. \/ storage' = storage
        \/ \E t \in Tabs : RefreshOk(t) \/ Login(t) \/ Logout(t) \/ RefreshFailed(t)
    BY DEF Next, Handler, HandlerGet, HandlerRevoke, HandlerCreate, Refused, RefreshExpires,
       Reload, RefreshLost, Kept, CallSend, CallEnds, CallUnauthorized, vars
  <2> QED
    BY <2>1, <2>2, <2>3, <2>4 DEF Typed
<1>4. refreshing' \in [Tabs -> Requests \cup {None}]
  BY DEF Typed, Next, Handler, HandlerGet, HandlerRevoke, HandlerCreate,
     Refused, RefreshExpires, Login, Logout, Reload, RefreshOk, RefreshFailed, RefreshLost,
     Settle, CallSend, CallEnds, CallUnauthorized, vars
<1>5. user' \in [Tabs -> BOOLEAN] /\ logins' \in Nat
  <2>1. \/ user' = user /\ logins' = logins
        \/ \E t \in Tabs : Login(t) \/ Logout(t) \/ Reload(t)
    BY DEF Next, Handler, HandlerGet, HandlerRevoke, HandlerCreate, Refused, RefreshExpires,
       RefreshOk, RefreshFailed, RefreshLost, CallSend, CallEnds, CallUnauthorized, vars
  <2>2. \A t \in Tabs : Login(t) \/ Logout(t) \/ Reload(t) =>
            \E b \in BOOLEAN : user' = [user EXCEPT ![t] = b] /\ logins' \in {logins, logins + 1}
    BY DEF Login, Logout, Reload
  <2> QED
    BY <2>1, <2>2 DEF Typed
<1>6. call' \in [Tabs -> [Calls -> CallPcs]]
  <2>1. CASE call' = call
    BY <2>1 DEF Typed
  <2>2. ASSUME NEW t \in Tabs, Settle(t) PROVE call' \in [Tabs -> [Calls -> CallPcs]]
    <3> DEFINE new == [c \in Calls |-> IF call[t][c] = "waiting" THEN "idle" ELSE call[t][c]]
    <3>1. new \in [Calls -> CallPcs]
      BY DEF Typed, CallPcs
    <3>2. call' = [call EXCEPT ![t] = new]
      BY <2>2 DEF Settle
    <3> HIDE DEF new
    <3> QED
      BY <3>1, <3>2 DEF Typed
  <2>3. ASSUME NEW t \in Tabs, Reload(t) PROVE call' \in [Tabs -> [Calls -> CallPcs]]
    BY <2>3 DEF Typed, Reload, CallPcs
  <2>4. ASSUME NEW t \in Tabs, NEW c \in Calls, NEW pc \in CallPcs, call' = [call EXCEPT ![t][c] = pc]
        PROVE  call' \in [Tabs -> [Calls -> CallPcs]]
    BY <2>4 DEF Typed
  <2>5. \A t \in Tabs, c \in Calls : CallSend(t, c) \/ CallEnds(t, c) \/ CallUnauthorized(t, c)
          => \E pc \in CallPcs : call' = [call EXCEPT ![t][c] = pc]
    BY DEF CallSend, CallEnds, CallUnauthorized, CallPcs
  <2> QED
    <3>1. \/ call' = call
          \/ \E t \in Tabs : Settle(t) \/ Reload(t)
          \/ \E t \in Tabs, c \in Calls :
                CallSend(t, c) \/ CallEnds(t, c) \/ CallUnauthorized(t, c)
      BY DEF Next, Handler, HandlerGet, HandlerRevoke, HandlerCreate,
         Refused, RefreshExpires, Login, Logout, RefreshOk, RefreshFailed, RefreshLost, vars
    <3> QED
      BY <2>1, <2>2, <2>3, <2>4, <2>5, <3>1
<1> QED
  BY <1>1, <1>2, <1>3, <1>4, <1>5, <1>6 DEF Typed

\* A token is issued once, and never comes to life again.
LEMMA RowsMove ==
    ASSUME Typed, RowsInv, [Next]_vars, NEW p \in Pairs
    PROVE  /\ row[p] # "none" => row'[p] # "none"
           /\ row[p] = "revoked" => row'[p] = "revoked"
           /\ row[p] \notin {"none", "live"} => row'[p] # "live"
<1>1. CASE row' = row
  BY <1>1
<1>2. ASSUME NEW q \in Pairs, Issue(q)
      PROVE  row'[p] = row[p] \/ (row[p] = "none" /\ row'[p] = "live")
  BY <1>2 DEF Issue, NewPair, Typed
<1>3. ASSUME NEW r \in Requests, HandlerRevoke(r)
      PROVE  row'[p] = row[p] \/ (row[p] # "none" /\ row'[p] = "revoked")
  <2>1. row[request[r].presented] # "none"
    BY <1>3 DEF HandlerRevoke, RowsInv
  <2> QED
    BY <1>3, <2>1 DEF HandlerRevoke, RevokedRow, Typed
<1>4. ASSUME NEW q \in Pairs, RefreshExpires(q)
      PROVE  row'[p] = row[p] \/ (row[p] = "live" /\ row'[p] = "expired")
  BY <1>4 DEF RefreshExpires, Typed
<1>5. \/ row' = row
      \/ \E q \in Pairs : Issue(q) \/ RefreshExpires(q)
      \/ \E r \in Requests : HandlerRevoke(r)
  BY DEF Next, Handler, HandlerGet, HandlerCreate, Refused, Login, Logout, Reload, RefreshOk,
     RefreshFailed, RefreshLost, CallSend, CallEnds, CallUnauthorized, vars
<1> QED
  BY <1>1, <1>2, <1>3, <1>4, <1>5

\* What is stored has been issued.
LEMMA NextStored ==
    ASSUME Typed, RowsInv, [Next]_vars, storage' # None
    PROVE  row'[storage'] # "none"
<1>1. CASE storage' = storage
  BY <1>1, RowsMove DEF Typed, RowsInv
<1>2. ASSUME NEW t \in Tabs, Login(t) PROVE row'[storage'] # "none"
  BY <1>2 DEF Login, Issue, Typed
<1>3. ASSUME NEW t \in Tabs, RefreshOk(t) PROVE row'[storage'] # "none"
  <2> DEFINE r == refreshing[t]
  <2>1. r \in Requests /\ request[r] \in RequestType /\ request[r].pc = "granted"
        /\ storage' = request[r].granted
    BY <1>3 DEF RefreshOk, Answered, Saved, Typed
  <2>2. request[r].granted \in Pairs /\ row[request[r].granted] # "none"
    BY <2>1 DEF RowsInv, WellFormed, RequestType
  <2> QED
    BY <2>1, <2>2, RowsMove
<1>4. \/ storage' = storage \/ storage' = None
      \/ \E t \in Tabs : Login(t) \/ RefreshOk(t)
  BY DEF Next, Handler, HandlerGet, HandlerRevoke, HandlerCreate, Refused, RefreshExpires, Logout,
     Reload, RefreshFailed, RefreshLost, Kept, CallSend, CallEnds, CallUnauthorized, vars
<1> QED
  BY <1>1, <1>2, <1>3, <1>4

\* What the rows and the requests say of each other.
RequestRow(r, rows) ==
    /\ WellFormed(r)
    /\ r.pc # "unsent" => rows[r.presented] # "none"
    /\ r.granted # None => rows[r.granted] # "none"
    /\ r.pc \in {"create", "granted"} => rows[r.presented] = "revoked"
    /\ r.pc = "denied" => rows[r.presented] # "live"

LEMMA RequestRowStable ==
    ASSUME Typed, RowsInv, [Next]_vars, NEW r \in RequestType, RequestRow(r, row)
    PROVE  RequestRow(r, row')
<1>1. r.pc # "unsent" => r.presented \in Pairs
  BY DEF RequestRow, WellFormed
<1>2. r.granted # None => r.granted \in Pairs
  BY DEF RequestType
<1> QED
  BY <1>1, <1>2, RowsMove DEF RequestRow

LEMMA NextRequestRows ==
    ASSUME Typed, RowsInv, TabsInv, [Next]_vars, NEW r \in Requests, NEW n, n = request'[r]
    PROVE  RequestRow(n, row')
<1>1. request[r] \in RequestType /\ RequestRow(request[r], row) /\ RequestRow(request[r], row')
  <2>1. request[r] \in RequestType /\ RequestRow(request[r], row)
    BY DEF Typed, RowsInv, RequestRow
  <2> QED
    BY <2>1, RequestRowStable
<1>2. CASE n = request[r]
  BY <1>1, <1>2
<1>3. ASSUME HandlerGet(r),
             Turns(r, IF row[request[r].presented] = "live" THEN "revoke" ELSE "denied",
                   request[r].granted, request[r].lost)
      PROVE  RequestRow(n, row')
  <2>1. row' = row /\ request[r].pc = "get"
    BY <1>3 DEF HandlerGet
  <2> QED
    BY <1>1, <1>3, <2>1 DEF Turns, RequestRow, WellFormed
<1>4. ASSUME HandlerRevoke(r), Turns(r, "create", request[r].granted, request[r].lost)
      PROVE  RequestRow(n, row')
  <2>1. request[r].pc = "revoke" /\ request[r].presented \in Pairs
        /\ row'[request[r].presented] = "revoked"
    BY <1>1, <1>4 DEF HandlerRevoke, RevokedRow, Typed, RequestRow, WellFormed
  <2> QED
    BY <1>1, <1>4, <2>1 DEF Turns, RequestRow, WellFormed
<1>5. ASSUME NEW p \in Pairs, HandlerCreate(r), Issue(p), Turns(r, "granted", p, request[r].lost)
      PROVE  RequestRow(n, row')
  <2>1. request[r].pc = "create" /\ row'[p] = "live" /\ p # None
    BY <1>5 DEF HandlerCreate, Issue, Typed, Pairs, None
  <2> QED
    BY <1>1, <1>5, <2>1 DEF Turns, RequestRow, WellFormed
<1>6. ASSUME Refused(r), Turns(r, "refused", request[r].granted, request[r].lost)
      PROVE  RequestRow(n, row')
  <2>1. request[r].pc = "get"
    BY <1>6 DEF Refused
  <2> QED
    BY <1>1, <1>6, <2>1 DEF Turns, RequestRow, WellFormed
<1>7. ASSUME NEW t \in Tabs, refreshing[t] = r,
             Turns(r, request[r].pc, request[r].granted, TRUE)
      PROVE  RequestRow(n, row')
  <2>1. request[r].pc # "unsent"
    BY <1>7 DEF TabsInv, Requests, None
  <2> QED
    BY <1>1, <1>7, <2>1 DEF Turns, RequestRow, WellFormed
<1>8. ASSUME NEW t \in Tabs, NEW c \in Calls, CallUnauthorized(t, c), storage # None, Sends(r, t)
      PROVE  RequestRow(n, row')
  <2>1. row' = row /\ storage \in Pairs /\ row[storage] # "none"
    BY <1>8 DEF CallUnauthorized, Typed, RowsInv
  <2> QED
    BY <1>8, <2>1 DEF Sends, RequestRow, WellFormed
<1>9. \A s \in Requests : s # r /\ (\E pc, granted, lost : Turns(s, pc, granted, lost)) => n = request[r]
  BY DEF Turns
<1>10. \A s \in Requests, t \in Tabs : s # r /\ Sends(s, t) => n = request[r]
  BY DEF Sends
<1>11. \A t \in Tabs : refreshing[t] # None => refreshing[t] \in Requests
  BY DEF Typed
<1>12. CASE n # request[r]
  <2>1. \/ HandlerGet(r) /\ Turns(r, IF row[request[r].presented] = "live" THEN "revoke" ELSE "denied",
                                request[r].granted, request[r].lost)
        \/ HandlerRevoke(r) /\ Turns(r, "create", request[r].granted, request[r].lost)
        \/ \E p \in Pairs : HandlerCreate(r) /\ Issue(p) /\ Turns(r, "granted", p, request[r].lost)
        \/ Refused(r) /\ Turns(r, "refused", request[r].granted, request[r].lost)
        \/ \E t \in Tabs : refreshing[t] = r /\ Turns(r, request[r].pc, request[r].granted, TRUE)
        \/ \E t \in Tabs, c \in Calls : CallUnauthorized(t, c) /\ storage # None /\ Sends(r, t)
    BY <1>9, <1>10, <1>11, <1>12, Steps
  <2> QED
    BY <1>3, <1>4, <1>5, <1>6, <1>7, <1>8, <2>1
<1> QED
  BY <1>2, <1>12

-----------------------------------------------------------------------------
(* What a step does to the requests, to refreshPromise and to the storage. *)

\* The tab no longer waits for its request.
Released(t) == refreshing[t] # None /\ refreshing' = [refreshing EXCEPT ![t] = None]

HandlerMoves ==
    /\ UNCHANGED <<storage, refreshing>>
    /\ \E r \in Requests, pc \in {"revoke", "create", "denied", "refused", "granted"},
          granted \in Pairs \cup {None} :
        /\ Turns(r, pc, granted, request[r].lost)
        /\ request[r].pc \in {"get", "revoke", "create"}
        /\ pc = "revoke" => request[r].pc = "get" /\ row[request[r].presented] = "live"
        /\ pc = "create" => request[r].pc = "revoke"
        /\ pc = "granted" => request[r].pc = "create"
        /\ granted = request[r].granted \/ (granted \in Pairs /\ row[granted] = "none")

Renews == UNCHANGED <<refreshing, request>> /\ \E p \in Pairs : storage' = p /\ row[p] = "none"
Clears(t) ==
    /\ storage' = None /\ UNCHANGED request
    /\ UNCHANGED refreshing \/ Released(t)
Saves(t) ==
    /\ Released(t) /\ UNCHANGED request
    /\ request[refreshing[t]].pc = "granted" /\ storage' = request[refreshing[t]].granted
Loses(t) ==
    /\ Released(t) /\ UNCHANGED storage
    /\ Turns(refreshing[t], request[refreshing[t]].pc, request[refreshing[t]].granted, TRUE)
Asks(r, t) ==
    /\ Sends(r, t) /\ storage # None /\ refreshing[t] = None
    /\ refreshing' = [refreshing EXCEPT ![t] = r] /\ UNCHANGED storage

LEMMA Moves ==
    ASSUME Typed, RowsInv, [Next]_vars
    PROVE  \/ HandlerMoves \/ Renews
           \/ \E t \in Tabs : Clears(t) \/ Saves(t) \/ Loses(t)
           \/ \E r \in Requests, t \in Tabs : Asks(r, t)
           \/ UNCHANGED <<storage, refreshing, request>>
<1> DEFINE Goal == \/ HandlerMoves \/ Renews
                   \/ \E t \in Tabs : Clears(t) \/ Saves(t) \/ Loses(t)
                   \/ \E r \in Requests, t \in Tabs : Asks(r, t)
                   \/ UNCHANGED <<storage, refreshing, request>>
<1>0. ASSUME NEW r \in Requests
      PROVE  /\ request[r].granted \in Pairs \cup {None}
             /\ request[r].presented \in Pairs \/ request[r].pc = "unsent"
  BY DEF Typed, RequestType, RowsInv, WellFormed
<1>1. ASSUME NEW r \in Requests, HandlerGet(r),
             Turns(r, IF row[request[r].presented] = "live" THEN "revoke" ELSE "denied",
                   request[r].granted, request[r].lost)
      PROVE  HandlerMoves
  BY <1>0, <1>1 DEF HandlerMoves, HandlerGet
<1>2. ASSUME NEW r \in Requests, HandlerRevoke(r),
             Turns(r, "create", request[r].granted, request[r].lost)
      PROVE  HandlerMoves
  BY <1>0, <1>2 DEF HandlerMoves, HandlerRevoke
<1>3. ASSUME NEW r \in Requests, NEW p \in Pairs, HandlerCreate(r), Issue(p),
             Turns(r, "granted", p, request[r].lost)
      PROVE  HandlerMoves
  BY <1>3 DEF HandlerMoves, HandlerCreate, Issue, NewPair
<1>4. ASSUME NEW r \in Requests, Refused(r),
             Turns(r, "refused", request[r].granted, request[r].lost)
      PROVE  HandlerMoves
  BY <1>0, <1>4 DEF HandlerMoves, Refused
<1>5. ASSUME NEW t \in Tabs, Reload(t) \/ RefreshLost(t), refreshing[t] # None,
             Turns(refreshing[t], request[refreshing[t]].pc, request[refreshing[t]].granted, TRUE)
      PROVE  Loses(t)
  BY <1>5 DEF Loses, Released, Reload, RefreshLost, Settle, Kept
<1>6. ASSUME NEW t \in Tabs, NEW c \in Calls, CallUnauthorized(t, c), refreshing[t] = None,
             storage # None, NEW r \in Requests, Sends(r, t),
             refreshing' = [refreshing EXCEPT ![t] = r]
      PROVE  Asks(r, t)
  BY <1>6 DEF Asks, CallUnauthorized
<1>7. CASE request' = request
  <2>1. ASSUME NEW t \in Tabs, Login(t) PROVE Renews
    BY <2>1 DEF Login, Renews, Issue, NewPair
  <2>2. ASSUME NEW t \in Tabs, Logout(t) PROVE Clears(t)
    BY <2>2 DEF Logout, Clears
  <2>3. ASSUME NEW t \in Tabs, RefreshFailed(t) PROVE Clears(t)
    BY <2>3 DEF RefreshFailed, Clears, Released, Settle, Answered
  <2>4. ASSUME NEW t \in Tabs, RefreshOk(t) PROVE Saves(t)
    BY <2>4 DEF RefreshOk, Saves, Released, Settle, Answered, Saved
  <2>5. ASSUME NEW t \in Tabs, Reload(t) \/ RefreshLost(t)
        PROVE  Loses(t) \/ UNCHANGED <<storage, refreshing, request>>
    <3>1. CASE refreshing[t] = None
      BY <1>7, <2>5, <3>1 DEF Typed, Reload, RefreshLost, Settle, Kept
    <3>2. CASE refreshing[t] # None
      <4>1. refreshing[t] \in Requests /\ request' = Drop(refreshing[t])
        BY <2>5, <3>2 DEF Typed, Reload, RefreshLost
      <4> QED
        BY <1>5, <2>5, <3>2, <4>1, DropTurns
    <3> QED
      BY <3>1, <3>2
  <2>6. ASSUME NEW t \in Tabs, NEW c \in Calls, CallUnauthorized(t, c)
        PROVE  Goal
    <3>1. CASE UNCHANGED <<refreshing, request>>
      BY <2>6, <3>1 DEF CallUnauthorized
    <3>2. CASE ~UNCHANGED <<refreshing, request>>
      BY <1>6, <2>6, <3>2, RequestSent
    <3> QED
      BY <3>1, <3>2
  <2>7. ASSUME NEW r \in Requests, Handler(r)
        PROVE  UNCHANGED <<storage, refreshing>>
    BY <2>7 DEF Handler, HandlerGet, HandlerRevoke, HandlerCreate, Refused
  <2>8. (\E p \in Pairs : RefreshExpires(p)) \/ UNCHANGED vars
          \/ (\E t \in Tabs, c \in Calls : CallSend(t, c) \/ CallEnds(t, c))
        => UNCHANGED <<storage, refreshing>>
    BY DEF RefreshExpires, CallSend, CallEnds, vars
  <2> QED
    BY <1>7, <2>1, <2>2, <2>3, <2>4, <2>5, <2>6, <2>7, <2>8 DEF Next
<1> HIDE DEF Goal
<1>8. Goal
  BY <1>1, <1>2, <1>3, <1>4, <1>5, <1>6, <1>7, Steps DEF Goal
<1> QED
  BY <1>8 DEF Goal

\* A request that was sent stays what it is; only its handler grants it a pair.
LEMMA RequestKept ==
    ASSUME Typed, RowsInv, TabsInv, [Next]_vars, NEW r \in Requests, request[r].pc # "unsent"
    PROVE  /\ request'[r].pc # "unsent"
           /\ request'[r].tab = request[r].tab /\ request'[r].presented = request[r].presented
           /\ request'[r].after = request[r].after
           /\ request[r].lost => request'[r].lost
           /\ request[r].pc \in Final => request'[r].pc = request[r].pc
                                         /\ request'[r].granted = request[r].granted
           /\ request'[r].granted = request[r].granted
              \/ (request'[r].granted \in Pairs /\ row[request'[r].granted] = "none")
<1>1. CASE HandlerMoves
  BY <1>1 DEF HandlerMoves, Turns, Final
<1>2. ASSUME NEW t \in Tabs, Loses(t)
      PROVE  request'[r] = request[r] \/
             Turns(r, request[r].pc, request[r].granted, TRUE)
  BY <1>2 DEF Loses, Released, Turns, Typed
<1>3. ASSUME NEW s \in Requests, NEW t \in Tabs, Asks(s, t)
      PROVE  request'[r] = request[r]
  BY <1>3 DEF Asks, Sends
<1>4. Renews \/ (\E t \in Tabs : Clears(t) \/ Saves(t)) => request'[r] = request[r]
  BY DEF Renews, Clears, Saves
<1>5. Turns(r, request[r].pc, request[r].granted, TRUE) =>
         /\ request'[r].pc = request[r].pc /\ request'[r].granted = request[r].granted
         /\ request'[r].tab = request[r].tab /\ request'[r].presented = request[r].presented
         /\ request'[r].after = request[r].after /\ request'[r].lost
  BY DEF Turns
<1>6. \/ HandlerMoves
      \/ request'[r] = request[r]
      \/ Turns(r, request[r].pc, request[r].granted, TRUE)
  BY <1>2, <1>3, <1>4, Moves
<1>7. CASE request'[r] = request[r]
  BY <1>7
<1>8. CASE Turns(r, request[r].pc, request[r].granted, TRUE)
  BY <1>5, <1>8
<1> QED
  BY <1>1, <1>6, <1>7, <1>8

\* A request that was not is sent now, or is still unsent.
LEMMA RequestNew ==
    ASSUME Typed, RowsInv, TabsInv, [Next]_vars, NEW r \in Requests, request[r].pc = "unsent"
    PROVE  request'[r] = request[r] \/ \E t \in Tabs : Asks(r, t)
<1>1. CASE HandlerMoves
  BY <1>1 DEF HandlerMoves, Turns
<1>2. ASSUME NEW t \in Tabs, Loses(t) PROVE request'[r] = request[r]
  BY <1>2 DEF Loses, Released, Turns, Typed, TabsInv
<1>3. ASSUME NEW s \in Requests, NEW t \in Tabs, Asks(s, t), s # r
      PROVE  request'[r] = request[r]
  BY <1>3 DEF Asks, Sends
<1>4. Renews \/ (\E t \in Tabs : Clears(t) \/ Saves(t)) => request'[r] = request[r]
  BY DEF Renews, Clears, Saves
<1> QED
  BY <1>1, <1>2, <1>3, <1>4, Moves

LEMMA NextRevoked ==
    ASSUME Typed, RowsInv, TabsInv, [Next]_vars, NEW p \in Pairs, row'[p] = "revoked"
    PROVE  \E r \in Requests : request'[r].presented = p
<1>1. CASE row[p] = "revoked"
  <2>1. PICK r \in Requests : request[r].presented = p
    BY <1>1 DEF RowsInv
  <2>2. request[r].pc # "unsent"
    BY <2>1 DEF RowsInv, WellFormed, Pairs, None
  <2> QED
    BY <2>1, <2>2, RequestKept
<1>2. CASE row[p] # "revoked"
  <2>1. ASSUME NEW q \in Pairs, Issue(q) \/ RefreshExpires(q) PROVE FALSE
    BY <1>2, <2>1 DEF Issue, RefreshExpires, Typed
  <2>2. ASSUME NEW r \in Requests, HandlerRevoke(r)
        PROVE  request[r].presented = p /\ request[r].pc # "unsent"
    BY <1>2, <2>2 DEF HandlerRevoke, RevokedRow, Typed
  <2>3. \E r \in Requests : HandlerRevoke(r)
    BY <1>2, <2>1 DEF Next, Handler, HandlerGet, HandlerCreate, Refused, Login, Logout, Reload,
       RefreshOk, RefreshFailed, RefreshLost, CallSend, CallEnds, CallUnauthorized, vars
  <2> QED
    BY <2>2, <2>3, RequestKept
<1> QED
  BY <1>1, <1>2

LEMMA NextRows ==
    ASSUME Typed, RowsInv, TabsInv, [Next]_vars
    PROVE  RowsInv'
<1>1. storage' # None => row'[storage'] # "none"
  BY NextStored
<1>2. ASSUME NEW r \in Requests PROVE RequestRow(request'[r], row')
  BY NextRequestRows
<1>3. \A p \in Pairs : row'[p] = "revoked" => \E r \in Requests : request'[r].presented = p
  BY NextRevoked
<1> QED
  BY <1>1, <1>2, <1>3 DEF RowsInv, RequestRow, WellFormed

LEMMA NextTabs ==
    ASSUME Typed, RowsInv, TabsInv, [Next]_vars
    PROVE  TabsInv'
<1>1. ASSUME NEW t \in Tabs, refreshing'[t] # None
      PROVE  /\ request'[refreshing'[t]].tab = t
             /\ request'[refreshing'[t]].pc # "unsent"
  <2>1. CASE refreshing'[t] = refreshing[t]
    <3>1. refreshing[t] \in Requests /\ request[refreshing[t]].pc # "unsent"
          /\ request[refreshing[t]].tab = t
      BY <1>1, <2>1 DEF Typed, TabsInv
    <3> QED
      BY <2>1, <3>1, RequestKept
  <2>2. CASE refreshing'[t] # refreshing[t]
    <3>1. \E r \in Requests, u \in Tabs : Asks(r, u)
      BY <1>1, <2>2, Moves DEF HandlerMoves, Renews, Clears, Saves, Loses, Released, Typed
    <3> QED
      BY <2>2, <3>1 DEF Asks, Sends, Typed
  <2> QED
    BY <2>1, <2>2
<1>2. ASSUME NEW r \in Requests, NEW s \in Requests, r # s, request'[r].granted # None
      PROVE  request'[r].granted # request'[s].granted
  <2> DEFINE Same(x) == request'[x].granted = request[x].granted
             New(x) == request'[x].granted \in Pairs /\ row[request'[x].granted] = "none"
  <2>1. ASSUME NEW x \in Requests PROVE Same(x) \/ New(x) \/ request'[x].granted = None
    BY RequestKept, RequestNew DEF Asks, Sends
  <2>2. ASSUME NEW x \in Requests, Same(x), request'[x].granted # None
        PROVE  row[request'[x].granted] # "none"
    BY <2>2 DEF RowsInv
  <2>3. ~(New(r) /\ New(s))
    <3>1. CASE HandlerMoves
      <4>1. request'[r] = request[r] \/ request'[s] = request[s]
        BY <1>2, <3>1 DEF HandlerMoves, Turns
      <4>2. \A x \in Requests : request[x].granted # None => row[request[x].granted] # "none"
        BY DEF RowsInv
      <4>3. None \notin Pairs
        BY DEF Pairs, None
      <4> QED
        BY <4>1, <4>2, <4>3
    <3>2. CASE ~HandlerMoves
      <4>1. \A x \in Requests : Same(x) \/ request'[x].granted = None
        BY <3>2, Moves DEF Renews, Clears, Saves, Loses, Released, Turns, Asks, Sends, Typed
      <4>2. None \notin Pairs
        BY DEF Pairs, None
      <4> QED
        BY <2>2, <4>1, <4>2
    <3> QED
      BY <3>1, <3>2
  <2> QED
    BY <1>2, <2>1, <2>2, <2>3 DEF TabsInv
<1> QED
  BY <1>1, <1>2 DEF TabsInv

\* A pair no answer has been taken with stays out of the storage and of the
\* requests.
LEMMA NextUntaken ==
    ASSUME Inv, [Next]_vars, NEW r \in Requests,
           request'[r].granted # None, Awaited(r)'
    PROVE  /\ storage' # request'[r].granted
           /\ \A s \in Requests : request'[s].presented # request'[r].granted
<1>0. /\ Typed /\ RowsInv /\ TabsInv /\ PairsInv
      /\ \A s \in Requests : request[s].pc = "unsent" => request[s].presented = None
      /\ \A s \in Requests : request[s].pc # "unsent" => row[request[s].presented] # "none"
      /\ \A s \in Requests : request[s] \in RequestType
      /\ None \notin Pairs /\ r # None
  BY DEF Inv, RowsInv, WellFormed, Typed, Pairs, None, Requests
<1>1. request[r].pc # "unsent"
  <2>1. CASE request'[r] = request[r]
    BY <1>0, <2>1 DEF RowsInv, WellFormed
  <2>2. CASE \E t \in Tabs : Asks(r, t)
    BY <2>2 DEF Asks, Sends
  <2> QED
    BY <1>0, <2>1, <2>2, RequestNew
<1>2. CASE HandlerMoves
  <2>1. storage' = storage /\ Awaited(r)
    BY <1>0, <1>1, <1>2, RequestKept DEF HandlerMoves, Awaited
  <2>2. \A s \in Requests : request'[s].presented = request[s].presented
    BY <1>2 DEF HandlerMoves, Turns
  <2>3. CASE request'[r].granted = request[r].granted
    BY <1>0, <2>1, <2>2, <2>3 DEF PairsInv
  <2>4. CASE request'[r].granted \in Pairs /\ row[request'[r].granted] = "none"
    BY <1>0, <2>1, <2>2, <2>4 DEF RowsInv
  <2> QED
    BY <1>0, <1>1, <2>3, <2>4, RequestKept
<1>3. CASE Renews
  <2>1. request' = request /\ Awaited(r)
    BY <1>3 DEF Renews, Awaited
  <2>2. storage' # request[r].granted
    BY <1>3, <2>1 DEF Renews, RowsInv, Inv
  <2> QED
    BY <1>0, <2>1, <2>2 DEF PairsInv
<1>4. ASSUME NEW t \in Tabs, Clears(t)
      PROVE  /\ storage' # request'[r].granted
             /\ \A s \in Requests : request'[s].presented # request'[r].granted
  <2>1. request' = request /\ Awaited(r) /\ storage' = None
    BY <1>0, <1>4 DEF Clears, Released, Awaited, Typed
  <2> QED
    BY <1>0, <2>1 DEF PairsInv
<1>5. ASSUME NEW t \in Tabs, Saves(t)
      PROVE  /\ storage' # request'[r].granted
             /\ \A s \in Requests : request'[s].presented # request'[r].granted
  <2>1. request' = request /\ Awaited(r) /\ r # refreshing[t]
    BY <1>0, <1>5 DEF Saves, Released, Awaited, Typed, TabsInv
  <2>2. refreshing[t] \in Requests /\ storage' = request[refreshing[t]].granted
    BY <1>0, <1>5 DEF Saves, Released, Typed
  <2> QED
    BY <1>0, <2>1, <2>2 DEF PairsInv, TabsInv
<1>6. ASSUME NEW t \in Tabs, Loses(t)
      PROVE  /\ storage' # request'[r].granted
             /\ \A s \in Requests : request'[s].presented # request'[r].granted
  <2>1. /\ \A s \in Requests : request'[s].presented = request[s].presented
        /\ request'[r].granted = request[r].granted /\ request'[r].tab = request[r].tab
    BY <1>6 DEF Loses, Turns
  <2>2. Awaited(r) /\ storage' = storage
    BY <1>0, <1>6, <2>1 DEF Loses, Released, Awaited, Typed
  <2> QED
    BY <1>0, <2>1, <2>2 DEF PairsInv
<1>7. ASSUME NEW q \in Requests, NEW t \in Tabs, Asks(q, t)
      PROVE  /\ storage' # request'[r].granted
             /\ \A s \in Requests : request'[s].presented # request'[r].granted
  <2>1. q # r
    BY <1>1, <1>7 DEF Asks, Sends
  <2>2. request'[r] = request[r] /\ storage' = storage
        /\ \A s \in Requests : request'[s] = request[s] \/ request'[s].presented = storage
    BY <1>7, <2>1 DEF Asks, Sends
  <2>3. Awaited(r)
    BY <1>0, <1>7, <2>1, <2>2 DEF Asks, Awaited, Typed
  <2> QED
    BY <1>0, <2>2, <2>3 DEF PairsInv
<1>8. CASE UNCHANGED <<storage, refreshing, request>>
  BY <1>0, <1>8 DEF PairsInv, Awaited
<1> QED
  BY <1>0, <1>2, <1>3, <1>4, <1>5, <1>6, <1>7, <1>8, Moves

\* What was presented leaves the storage when the answer is taken.
LEMMA NextPresented ==
    ASSUME Inv, [Next]_vars, NEW r \in Requests,
           request'[r].pc # "unsent", ~request'[r].lost
    PROVE  Awaited(r)' \/ storage' # request'[r].presented
<1>0. /\ Typed /\ RowsInv /\ TabsInv /\ PairsInv
      /\ \A s \in Requests : request[s] \in RequestType
      /\ None \notin Pairs /\ r # None
  BY DEF Inv, Typed, Pairs, None, Requests
<1>1. CASE request[r].pc = "unsent"
  <2>1. request'[r] # request[r]
    BY <1>1
  <2>2. PICK t \in Tabs : Asks(r, t)
    BY <1>0, <1>1, <2>1, RequestNew
  <2> QED
    BY <1>0, <2>2 DEF Asks, Sends, Awaited, Typed
<1>2. CASE request[r].pc # "unsent"
  <2>1. /\ request'[r].tab = request[r].tab /\ request'[r].presented = request[r].presented
        /\ ~request[r].lost
    BY <1>0, <1>2, RequestKept DEF RequestType
  <2>2. Awaited(r) \/ storage # request[r].presented
    BY <1>0, <1>2, <2>1 DEF PairsInv
  <2>3. request[r].presented \in Pairs /\ row[request[r].presented] # "none"
    BY <1>0, <1>2 DEF RowsInv, WellFormed
  <2>4. CASE UNCHANGED <<storage, refreshing>>
    BY <2>1, <2>2, <2>4 DEF Awaited
  <2>5. CASE Renews
    BY <2>1, <2>3, <2>5 DEF Renews
  <2>6. ASSUME NEW t \in Tabs, Clears(t) PROVE storage' # request'[r].presented
    BY <1>0, <2>1, <2>3, <2>6 DEF Clears
  <2>7. ASSUME NEW t \in Tabs, Saves(t) PROVE storage' # request'[r].presented
    <3> DEFINE q == refreshing[t]
    <3>1. /\ q \in Requests /\ request[q].tab = t /\ storage' = request[q].granted
          /\ request[q].granted # None /\ Awaited(q)
      BY <1>0, <2>7 DEF Saves, Released, Typed, TabsInv, Awaited, RowsInv, WellFormed
    <3> HIDE DEF q
    <3> QED
      BY <1>0, <2>1, <3>1 DEF PairsInv
  <2>8. ASSUME NEW t \in Tabs, Loses(t) PROVE Awaited(r)' \/ storage' # request'[r].presented
    <3>1. r # refreshing[t] /\ storage' = storage
      BY <2>8 DEF Loses, Turns
    <3> QED
      BY <1>0, <2>1, <2>2, <2>8, <3>1 DEF Loses, Released, Awaited, Typed
  <2>9. ASSUME NEW q \in Requests, NEW t \in Tabs, Asks(q, t)
        PROVE  Awaited(r)' \/ storage' # request'[r].presented
    BY <1>0, <2>1, <2>2, <2>9 DEF Asks, Awaited, Typed
  <2> QED
    BY <1>0, <2>4, <2>5, <2>6, <2>7, <2>8, <2>9, Moves DEF HandlerMoves
<1> QED
  BY <1>1, <1>2

LEMMA NextAfter ==
    ASSUME Inv, [Next]_vars, NEW r \in Requests, NEW s \in Requests, r \in request'[s].after
    PROVE  /\ request'[r].pc \in Final
           /\ request'[r].pc = "granted" /\ request'[r].presented = request'[s].presented =>
                 request'[s].pc \notin {"revoke", "create", "granted"}
<1>0. Typed /\ RowsInv /\ TabsInv /\ AfterInv
  BY DEF Inv
<1>1. ASSUME request[r].pc \in Final
      PROVE  request'[r].pc = request[r].pc /\ request'[r].presented = request[r].presented
  BY <1>0, <1>1, RequestKept DEF Final
<1>2. CASE \E t \in Tabs : Asks(s, t)
  <2>1. request[r].pc \in Final /\ request'[s].pc = "get"
    BY <1>2 DEF Asks, Sends
  <2> QED
    BY <1>1, <2>1
<1>3. CASE request'[s] = request[s]
  BY <1>0, <1>1, <1>3 DEF AfterInv
<1>4. CASE request[s].pc # "unsent" /\ request'[s] # request[s]
  <2>1. r \in request[s].after /\ request'[s].presented = request[s].presented
    BY <1>0, <1>4, RequestKept
  <2>2. request[r].pc \in Final
    BY <1>0, <2>1 DEF AfterInv
  <2>3. ASSUME request[r].pc = "granted", request[r].presented = request[s].presented
        PROVE  request'[s].pc \notin {"revoke", "create", "granted"}
    <3>1. /\ request[s].pc \notin {"revoke", "create", "granted"}
          /\ row[request[s].presented] # "live"
      BY <1>0, <2>1, <2>3 DEF AfterInv, RowsInv
    <3>2. CASE HandlerMoves
      BY <1>4, <3>1, <3>2 DEF HandlerMoves, Turns
    <3>3. ASSUME NEW t \in Tabs, Loses(t)
          PROVE  request'[s].pc = request[s].pc
      BY <1>0, <3>3 DEF Loses, Released, Turns, Typed
    <3>4. ~(\E q \in Requests, t \in Tabs : Asks(q, t))
      BY <1>4 DEF Asks, Sends
    <3>5. Renews \/ (\E t \in Tabs : Clears(t) \/ Saves(t)) => request' = request
      BY DEF Renews, Clears, Saves
    <3> QED
      BY <1>0, <1>4, <3>1, <3>2, <3>3, <3>4, <3>5, Moves
  <2> QED
    BY <1>1, <2>1, <2>2, <2>3
<1> QED
  BY <1>0, <1>2, <1>3, <1>4, RequestNew

LEMMA NextPresentedOnce ==
    ASSUME Inv, [Next]_vars
    PROVE  PresentedOnce'
<1>0. /\ Typed /\ RowsInv /\ TabsInv /\ PairsInv /\ PresentedOnce
      /\ None \notin Pairs
  BY DEF Inv, Pairs, None
<1>1. SUFFICES ASSUME NEW r \in Requests, NEW s \in Requests, r # s,
                      request'[r].tab = request'[s].tab, request'[r].presented # None,
                      request'[r].presented = request'[s].presented
               PROVE  request'[r].lost \/ request'[s].lost
  BY DEF PresentedOnce
<1>2. ASSUME NEW x \in Requests, request[x].pc # "unsent"
      PROVE  /\ request'[x].tab = request[x].tab /\ request'[x].presented = request[x].presented
             /\ request[x].lost => request'[x].lost
  BY <1>0, <1>2, RequestKept
<1>3. ASSUME NEW x \in Requests, request[x].pc = "unsent", request'[x].presented # None
      PROVE  \E t \in Tabs : Asks(x, t)
  <2>1. request[x].presented = None
    BY <1>0, <1>3 DEF RowsInv, WellFormed
  <2> QED
    BY <1>0, <1>3, <2>1, RequestNew
<1>4. ASSUME NEW x \in Requests, NEW y \in Requests, x # y, NEW t \in Tabs, Asks(x, t),
             request'[y].tab = request'[x].tab, request'[y].presented = request'[x].presented
      PROVE  request'[y].lost
  <2>1. /\ request'[x].tab = t /\ request'[x].presented = storage /\ storage # None
        /\ request'[y] = request[y] /\ refreshing[t] = None
    BY <1>4 DEF Asks, Sends
  <2>2. request[y].pc # "unsent"
    BY <1>0, <1>4, <2>1 DEF RowsInv, WellFormed
  <2>3. ~Awaited(y)
    BY <1>4, <2>1 DEF Awaited, Requests, None
  <2> QED
    BY <1>0, <1>4, <2>1, <2>2, <2>3 DEF PairsInv
<1>5. CASE request[r].pc = "unsent"
  BY <1>1, <1>3, <1>4, <1>5
<1>6. CASE request[s].pc = "unsent"
  BY <1>1, <1>3, <1>4, <1>6
<1>7. CASE request[r].pc # "unsent" /\ request[s].pc # "unsent"
  BY <1>0, <1>1, <1>2, <1>7 DEF PresentedOnce
<1> QED
  BY <1>5, <1>6, <1>7

\* A call starts to wait with a refresh, and stops with it.
LEMMA NextNoOrphan ==
    ASSUME Typed, NoOrphanWaiter, [Next]_vars, NEW t \in Tabs, NEW c \in Calls,
           call'[t][c] = "waiting"
    PROVE  refreshing'[t] # None
<1>0. /\ call \in [Tabs -> [Calls -> CallPcs]] /\ refreshing \in [Tabs -> Requests \cup {None}]
      /\ call[t][c] = "waiting" => refreshing[t] # None
      /\ None \notin Requests
  BY DEF Typed, NoOrphanWaiter, Requests, None
<1>1. CASE UNCHANGED <<call, refreshing>>
  BY <1>0, <1>1
<1>2. ASSUME NEW u \in Tabs, Settle(u) PROVE refreshing'[t] # None
  <2>1. call'[u][c] # "waiting"
    BY <1>0, <1>2 DEF Settle
  <2>2. t # u
    BY <2>1
  <2> QED
    BY <1>0, <1>2, <2>2 DEF Settle
<1>3. ASSUME NEW u \in Tabs, Reload(u) PROVE refreshing'[t] # None
  <2>1. call'[u][c] # "waiting"
    BY <1>0, <1>3 DEF Reload
  <2>2. t # u
    BY <2>1
  <2> QED
    BY <1>0, <1>3, <2>2 DEF Reload
<1>4. ASSUME NEW u \in Tabs, NEW d \in Calls, CallSend(u, d) \/ CallEnds(u, d)
      PROVE  refreshing'[t] # None
  BY <1>0, <1>4 DEF CallSend, CallEnds
<1>5. ASSUME NEW u \in Tabs, NEW d \in Calls, CallUnauthorized(u, d)
      PROVE  refreshing'[t] # None
  <2>1. call' = [call EXCEPT ![u][d] = "waiting"]
    BY <1>5 DEF CallUnauthorized
  <2>2. \/ refreshing' = refreshing /\ refreshing[u] # None
        \/ \E r \in Requests : refreshing' = [refreshing EXCEPT ![u] = r]
    BY <1>5 DEF CallUnauthorized, Joins
  <2>3. refreshing'[u] # None
    BY <1>0, <2>2
  <2>4. CASE t # u
    BY <1>0, <2>1, <2>2, <2>4
  <2> QED
    BY <2>3, <2>4
<1>6. \/ UNCHANGED <<call, refreshing>>
      \/ \E u \in Tabs : Settle(u) \/ Reload(u)
      \/ \E u \in Tabs, d \in Calls :
            CallSend(u, d) \/ CallEnds(u, d) \/ CallUnauthorized(u, d)
  BY DEF Next, Handler, HandlerGet, HandlerRevoke, HandlerCreate, Refused, RefreshExpires,
     Login, Logout, RefreshOk, RefreshFailed, RefreshLost, vars
<1> QED
  BY <1>1, <1>2, <1>3, <1>4, <1>5, <1>6

LEMMA InitInv == Init => Inv
<1> SUFFICES ASSUME Init PROVE Inv
  OBVIOUS
<1> DEFINE none == [tab |-> None, presented |-> None, pc |-> "unsent", granted |-> None,
                    lost |-> FALSE, after |-> {}]
<1>1. none \in RequestType /\ Unsent = none
  BY DEF Unsent, RequestType, RequestPcs
<1>2. \A r \in Requests : request[r] = none
  BY <1>1 DEF Init
<1>3. Typed
  BY <1>1 DEF Init, Typed, Rows, CallPcs
<1>4. /\ none.pc = "unsent" /\ none.presented = None /\ none.granted = None /\ ~none.lost
      /\ none.after = {}
  OBVIOUS
<1> HIDE DEF none
<1>5. RowsInv
  BY <1>2, <1>4 DEF Init, RowsInv, WellFormed
<1>6. TabsInv /\ PairsInv /\ AfterInv /\ PresentedOnce
  BY <1>2, <1>4 DEF Init, TabsInv, PairsInv, AfterInv, PresentedOnce
<1>7. NoOrphanWaiter
  BY DEF Init, NoOrphanWaiter
<1> QED
  BY <1>3, <1>5, <1>6, <1>7 DEF Inv

LEMMA NextInv == Inv /\ [Next]_vars => Inv'
<1> SUFFICES ASSUME Inv, [Next]_vars PROVE Inv'
  OBVIOUS
<1>1. Typed /\ RowsInv /\ TabsInv /\ NoOrphanWaiter
  BY DEF Inv
<1>2. Typed' /\ RowsInv' /\ TabsInv'
  BY <1>1, NextTyped, NextRows, NextTabs
<1>3. PairsInv'
  BY NextUntaken, NextPresented DEF PairsInv
<1>4. AfterInv'
  BY NextAfter DEF AfterInv
<1>5. NoOrphanWaiter'
  BY <1>1, NextNoOrphan DEF NoOrphanWaiter
<1> QED
  BY <1>2, <1>3, <1>4, <1>5, NextPresentedOnce DEF Inv

LEMMA Invariance == Spec => []Inv
BY InitInv, NextInv, PTL DEF Spec
-----------------------------------------------------------------------------
(* Theorems. *)

\* Every reachable state is well typed, and what is stored has been issued.
THEOREM SessionsTypeCorrect == Spec => []SessionsTypeOK
<1>1. Inv => SessionsTypeOK
  BY DEF Inv, Typed, RowsInv, TabsInv, SessionsTypeOK, Rows
<1> QED
  BY <1>1, Invariance, PTL

\* A tab presents a refresh token once, unless an answer was lost
\* (refreshPromise in auth.ts joins the calls of a tab).
THEOREM TokensPresentedOnce == Spec => []PresentedOnce
<1>1. Inv => PresentedOnce
  BY DEF Inv
<1> QED
  BY <1>1, Invariance, PTL

\* The rotation of auth.py refresh: once a token has a successor that was
\* answered, no request that presents it later is granted another.
THEOREM SuccessorsUnique == Spec => []OneSuccessor
<1>1. Inv => OneSuccessor
  BY DEF Inv, RowsInv, WellFormed, AfterInv, OneSuccessor
<1> QED
  BY <1>1, Invariance, PTL

\* At rest the browser holds no token that was rotated away.
THEOREM RestsUsable == Spec => []AtRestUsable
<1>1. ASSUME Inv, \A t \in Tabs : refreshing[t] = None, \A r \in Requests : ~request[r].lost,
             storage # None
      PROVE  row[storage] \in {"live", "expired"}
  <2>1. storage \in Pairs /\ row[storage] \in Rows /\ row[storage] # "none"
    BY <1>1 DEF Inv, Typed, RowsInv
  <2>2. ASSUME row[storage] = "revoked" PROVE FALSE
    <3>1. PICK r \in Requests : request[r].presented = storage
      BY <1>1, <2>1, <2>2 DEF Inv, RowsInv
    <3>2. request[r].pc # "unsent"
      BY <1>1, <3>1 DEF Inv, RowsInv, WellFormed
    <3>3. ~Awaited(r)
      BY <1>1 DEF Awaited, Requests, None
    <3> QED
      BY <1>1, <3>1, <3>2, <3>3 DEF Inv, PairsInv
  <2> QED
    BY <2>1, <2>2 DEF Rows
<1>2. Inv => AtRestUsable
  BY <1>1 DEF AtRestUsable
<1> QED
  BY <1>2, Invariance, PTL

\* No call of authFetch waits for a refresh that is over.
THEOREM NobodyOrphaned == Spec => []NoOrphanWaiter
<1>1. Inv => NoOrphanWaiter
  BY DEF Inv
<1> QED
  BY <1>1, Invariance, PTL

\* clearTokens of auth.ts never takes the token the tab has just presented
\* while it is good, unless something before the handler refused the request.
THEOREM GoodTokensStay == Spec => GoodTokensKept
<1> DEFINE Stays ==
      \A t \in Tabs :
        /\ storage # None /\ storage' = None
        /\ refreshing[t] # None /\ refreshing'[t] = None
        /\ user' = user
        => \/ row[storage] # "live"
           \/ request[refreshing[t]].presented # storage
           \/ Answered(t, "refused")
<1>1. Inv /\ [Next]_vars => [Stays]_vars
  <2> SUFFICES ASSUME Inv, [Next]_vars, NEW t \in Tabs,
                      storage # None, storage' = None,
                      refreshing[t] # None, refreshing'[t] = None, user' = user
               PROVE  \/ row[storage] # "live"
                      \/ request[refreshing[t]].presented # storage
                      \/ Answered(t, "refused")
    OBVIOUS
  <2>0. Typed /\ RowsInv /\ None \notin Pairs /\ refreshing[t] \in Requests
    BY DEF Inv, Typed, Pairs, None
  <2>1. ASSUME NEW u \in Tabs, RefreshFailed(u) PROVE u = t
    BY <2>0, <2>1 DEF RefreshFailed, Settle, Typed
  <2>2. ASSUME NEW u \in Tabs, Logout(u) PROVE FALSE
    BY <2>0, <2>2 DEF Logout, Typed
  <2>3. ASSUME NEW u \in Tabs, RefreshOk(u) PROVE FALSE
    <3>1. refreshing[u] \in Requests /\ request[refreshing[u]].pc = "granted"
      BY <2>0, <2>3 DEF RefreshOk, Answered, Typed
    <3>2. storage' = request[refreshing[u]].granted
      BY <2>3 DEF RefreshOk, Saved
    <3> QED
      BY <2>0, <3>1, <3>2 DEF RowsInv, WellFormed
  <2>4. ASSUME NEW u \in Tabs, Login(u) PROVE FALSE
    BY <2>0, <2>4 DEF Login
  <2>5. \E u \in Tabs : RefreshFailed(u) \/ Logout(u) \/ RefreshOk(u) \/ Login(u)
    BY DEF Next, Handler, HandlerGet, HandlerRevoke, HandlerCreate, Refused, RefreshExpires,
       Reload, RefreshLost, Kept, CallSend, CallEnds, CallUnauthorized, vars
  <2>6. RefreshFailed(t)
    BY <2>1, <2>2, <2>3, <2>4, <2>5
  <2>7. CASE Answered(t, "denied")
    BY <2>0, <2>7 DEF Answered, RowsInv
  <2> QED
    BY <2>6, <2>7 DEF RefreshFailed
<1>2. [][Stays]_vars <=> GoodTokensKept
  BY DEF GoodTokensKept
<1> HIDE DEF Stays
<1> QED
  BY <1>1, <1>2, Invariance, PTL DEF Spec
=============================================================================
