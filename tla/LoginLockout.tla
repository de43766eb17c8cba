---------------------------- MODULE LoginLockout ----------------------------
(***************************************************************************)
(* login(): the lockout after repeated failures.  The count of a user is   *)
(* kept in Redis under a key with a time to live, or, when Redis does not  *)
(* answer a ping, in a dictionary of the API process.  The handler runs in *)
(* the thread pool; every Redis command and every access to the dictionary *)
(* is a step of its own, and Redis may go down between a ping and the      *)
(* command that follows, which then raises (500).                          *)
(***************************************************************************)
EXTENDS Integers, FiniteSets

CONSTANTS
    Users,          \* user names somebody signs in with
    Handlers,       \* threads that may be inside login() at once
    MaxAttempts,    \* max_login_attempts
    LockoutTicks,   \* login_lockout_seconds
    MaxWrong,       \* bound on sign-ins with a wrong password
    MaxOutages      \* bound on the times Redis goes down

ASSUME LockoutAssumption ==
    /\ {MaxAttempts, LockoutTicks} \subseteq Nat \ {0}
    /\ MaxWrong \in Nat /\ MaxOutages \in Nat
    /\ IsFiniteSet(Handlers)       \* the thread pool

VARIABLES
    failKey,    \* Redis: user -> count and ttl of login_fail:<user>
    attempts,   \* _login_attempts: user -> count and age of the last failure
    redisUp,    \* does Redis answer?
    login,      \* the handlers
    signedIn,   \* users that have been given tokens
    wrongs, outages   \* counters for the bounds

vars == <<failKey, attempts, redisUp, login, signedIn, wrongs, outages>>

NoExpiry == -1
NoKey == [count |-> 0, ttl |-> NoExpiry]
NoAttempts == [count |-> 0, age |-> LockoutTicks]

Idle == [pc |-> "idle", user |-> "none", right |-> FALSE, seen |-> 0]

Init ==
    /\ failKey = [u \in Users |-> NoKey]
    /\ attempts = [u \in Users |-> NoAttempts]
    /\ redisUp = TRUE
    /\ login = [h \in Handlers |-> Idle]
    /\ signedIn = {}
    /\ wrongs = 0 /\ outages = 0

Goto(h, pc) == login' = [login EXCEPT ![h].pc = pc]
Answer(h)   == login' = [login EXCEPT ![h] = Idle]
At(h, pc)   == login[h].pc = pc
UserOf(h)   == login[h].user

\* login: a request for u, with the right password or a wrong one.
Arrive(h, u, right) ==
    /\ At(h, "idle")
    /\ right \/ wrongs < MaxWrong
    /\ login' = [login EXCEPT ![h] = [pc |-> "check", user |-> u, right |-> right, seen |-> 0]]
    /\ wrongs' = IF right THEN wrongs ELSE wrongs + 1
    /\ UNCHANGED <<failKey, attempts, redisUp, signedIn, outages>>

ReachedMutant(count) == count > MaxAttempts
Reached(count) == count >= MaxAttempts

\* After the check the password is verified; its outcome comes with the request.
AfterCheck(h) == IF login[h].right THEN "clear" ELSE "record"

\* _check_login_lockout: GET when Redis answers the ping, else the dictionary,
\* which locks until the lockout has passed since the last failure.
CheckGet(h) ==
    /\ At(h, "check") /\ redisUp
    /\ Goto(h, IF Reached(failKey[UserOf(h)].count) THEN "ttl" ELSE AfterCheck(h))
    /\ UNCHANGED <<failKey, attempts, redisUp, signedIn, wrongs, outages>>
CheckDict(h) ==
    /\ At(h, "check") /\ ~redisUp
    /\ LET a == attempts[UserOf(h)] IN
       \/ ~Reached(a.count) /\ Goto(h, AfterCheck(h))
       \/ Reached(a.count) /\ a.age < LockoutTicks /\ Answer(h)    \* 429
       \/ Reached(a.count) /\ a.age >= LockoutTicks /\ Goto(h, "reset")
    /\ UNCHANGED <<failKey, attempts, redisUp, signedIn, wrongs, outages>>

\* TTL answers in whole seconds, rounded: the last tick may read as 0, a key
\* without expiry as -1, no key as -2.
CheckTtl(h) ==
    /\ At(h, "ttl") /\ redisUp
    /\ \/ failKey[UserOf(h)].ttl > 0 /\ Answer(h)                  \* 429
       \/ failKey[UserOf(h)].ttl <= 1 /\ Goto(h, "del")
    /\ UNCHANGED <<failKey, attempts, redisUp, signedIn, wrongs, outages>>
CheckDeleteMutant(h) ==
    /\ At(h, "del") /\ redisUp
    /\ Answer(h)
    /\ UNCHANGED <<failKey, attempts, redisUp, signedIn, wrongs, outages>>
CheckDelete(h) ==
    /\ At(h, "del") /\ redisUp
    /\ failKey' = [failKey EXCEPT ![UserOf(h)] = NoKey]
    /\ Goto(h, AfterCheck(h))
    /\ UNCHANGED <<attempts, redisUp, signedIn, wrongs, outages>>
ResetDict(h) ==
    /\ At(h, "reset")
    /\ attempts' = [attempts EXCEPT ![UserOf(h)] = NoAttempts]
    /\ Goto(h, AfterCheck(h))
    /\ UNCHANGED <<failKey, redisUp, signedIn, wrongs, outages>>

\* _record_login_failure, Redis answers: INCR, and EXPIRE by whom INCR
\* answered 1; the client gets a 401.
ExpireDueMutant(count) == count + 1 = MaxAttempts
ExpireDue(count) == count + 1 = 1
RecordIncr(h) ==
    /\ At(h, "record") /\ redisUp
    /\ failKey' = [failKey EXCEPT ![UserOf(h)].count = @ + 1]
    /\ IF ExpireDue(failKey[UserOf(h)].count) THEN Goto(h, "expire") ELSE Answer(h)
    /\ UNCHANGED <<attempts, redisUp, signedIn, wrongs, outages>>
RecordExpire(h) ==
    /\ At(h, "expire") /\ redisUp
    /\ failKey' = IF failKey[UserOf(h)].count = 0 THEN failKey
                  ELSE [failKey EXCEPT ![UserOf(h)].ttl = LockoutTicks]
    /\ Answer(h)
    /\ UNCHANGED <<attempts, redisUp, signedIn, wrongs, outages>>

\* The fallback reads the count and writes it back in two steps.
RecordRead(h) ==
    /\ At(h, "record") /\ ~redisUp
    /\ login' = [login EXCEPT ![h].pc = "write", ![h].seen = attempts[UserOf(h)].count]
    /\ UNCHANGED <<failKey, attempts, redisUp, signedIn, wrongs, outages>>
RecordWrite(h) ==
    /\ At(h, "write")
    /\ attempts' = [attempts EXCEPT ![UserOf(h)] = [count |-> login[h].seen + 1, age |-> 0]]
    /\ Answer(h)
    /\ UNCHANGED <<failKey, redisUp, signedIn, wrongs, outages>>

\* _clear_login_attempts: DELETE if Redis answers, then the dictionary; login
\* then issues the tokens.
ClearDelete(h) ==
    /\ At(h, "clear")
    /\ failKey' = IF redisUp THEN [failKey EXCEPT ![UserOf(h)] = NoKey] ELSE failKey
    /\ Goto(h, "pop")
    /\ UNCHANGED <<attempts, redisUp, signedIn, wrongs, outages>>
ClearPop(h) ==
    /\ At(h, "pop")
    /\ attempts' = [attempts EXCEPT ![UserOf(h)] = NoAttempts]
    /\ signedIn' = signedIn \cup {UserOf(h)}
    /\ Answer(h)
    /\ UNCHANGED <<failKey, redisUp, wrongs, outages>>

\* A further command that finds Redis gone raises; the client gets a 500.
CommandRaises(h) ==
    /\ login[h].pc \in {"ttl", "del", "expire"} /\ ~redisUp
    /\ Answer(h)
    /\ UNCHANGED <<failKey, attempts, redisUp, signedIn, wrongs, outages>>

LoginStep(h) ==
    \/ CheckGet(h) \/ CheckDict(h) \/ CheckTtl(h) \/ CheckDelete(h) \/ ResetDict(h)
    \/ RecordIncr(h) \/ RecordExpire(h) \/ RecordRead(h) \/ RecordWrite(h)
    \/ ClearDelete(h) \/ ClearPop(h)
    \/ CommandRaises(h)

\* Redis goes away, and comes back with its data.  The first command of
\* handlers that have had their ping answered raises.
RedisDown ==
    /\ redisUp /\ outages < MaxOutages
    /\ redisUp' = FALSE /\ outages' = outages + 1
    /\ \E pinged \in SUBSET {h \in Handlers : login[h].pc \in {"check", "record", "clear"}} :
          login' = [h \in Handlers |-> IF h \in pinged THEN Idle ELSE login[h]]
    /\ UNCHANGED <<failKey, attempts, signedIn, wrongs>>
RedisBack ==
    /\ ~redisUp /\ redisUp' = TRUE
    /\ UNCHANGED <<failKey, attempts, login, signedIn, wrongs, outages>>

\* One tick: keys expire in Redis, ages grow in the dictionary.
KeyAfterTickMutant(k) == IF k.ttl = NoExpiry THEN k ELSE [k EXCEPT !.ttl = @ - 1]
KeyAfterTick(k) ==
    IF k.ttl = NoExpiry THEN k ELSE IF k.ttl = 1 THEN NoKey ELSE [k EXCEPT !.ttl = @ - 1]
Tick ==
    /\ failKey' = [u \in Users |-> KeyAfterTick(failKey[u])]
    /\ attempts' = [u \in Users |->
          IF attempts[u].age < LockoutTicks THEN [attempts[u] EXCEPT !.age = @ + 1] ELSE attempts[u]]
    /\ UNCHANGED <<redisUp, login, signedIn, wrongs, outages>>

Next ==
    \/ \E h \in Handlers, u \in Users, right \in BOOLEAN : Arrive(h, u, right)
    \/ \E h \in Handlers : LoginStep(h)
    \/ RedisDown \/ RedisBack
    \/ Tick

Spec == Init /\ [][Next]_vars

\* Time passes, threads run, and a user keeps trying with the right password;
\* strong fairness, because others may hold the threads.  Redis need not come
\* back.
FairSpec ==
    /\ Spec
    /\ WF_vars(Tick)
    /\ \A h \in Handlers : WF_vars(LoginStep(h))
    /\ \A u \in Users : SF_vars(\E h \in Handlers : Arrive(h, u, TRUE))
-----------------------------------------------------------------------------
(* Properties. *)

\* Types.
LockoutTypeOK ==
    /\ failKey \in [Users -> [count : Nat, ttl : {NoExpiry} \cup 1..LockoutTicks]]
    /\ attempts \in [Users -> [count : Nat, age : 0..LockoutTicks]]
    /\ redisUp \in BOOLEAN /\ signedIn \subseteq Users
    /\ \A h \in Handlers : At(h, "idle") \/ UserOf(h) \in Users

\* While Redis has never failed, the count passes the limit only by the
\* requests that were checked before it was reached: check and count are
\* separate commands, so each other thread may add one, and no more.
BoundedOvershoot ==
    outages = 0 =>
        \A u \in Users : failKey[u].count <= MaxAttempts - 1 + Cardinality(Handlers)

\* While Redis has never failed, a counter without an expiry is one whose
\* EXPIRE some thread is about to send.
ExpiryOwed ==
    outages = 0 =>
        \A u \in Users : failKey[u].count > 0 /\ failKey[u].ttl = NoExpiry =>
            \E h \in Handlers : UserOf(h) = u /\ At(h, "expire")

\* Whoever keeps trying with the right password gets in once the wrong tries
\* stop: a refused try prolongs nothing, and a counter whose EXPIRE was lost
\* in an outage does not lock for ever.
SignsIn == \A u \in Users : <>(u \in signedIn)
=============================================================================
