------------------------- MODULE LoginLockoutProofs -------------------------
(***************************************************************************)
(* TLAPS proofs about LoginLockout: types, the counter that is not left    *)
(* without expiry, and how far it may pass the limit, for any number of    *)
(* users, threads and attempts.                                            *)
(***************************************************************************)
EXTENDS LoginLockout, FiniteSetTheorems, TLAPS

Pcs == {"idle", "check", "ttl", "del", "reset", "record", "expire", "write", "clear", "pop"}

LoginTyped ==
    login \in [Handlers -> [pc : Pcs, user : Users \cup {"none"}, right : BOOLEAN, seen : Nat]]

\* LockoutTypeOK needs the types of the handlers' records and of the counters.
Typed ==
    /\ LockoutTypeOK
    /\ LoginTyped
    /\ outages \in Nat /\ wrongs \in Nat

\* ExpiryOwed needs that Redis is up as long as it has never failed: no
\* EXPIRE that is owed then raises.
NeverDown == outages = 0 => redisUp

Inv == Typed /\ NeverDown /\ ExpiryOwed
-----------------------------------------------------------------------------
(* Lemmas about the handlers. *)

\* A handler that goes to another step keeps its request.
LEMMA GotoTyped ==
    ASSUME LoginTyped, NEW h \in Handlers, NEW pc \in Pcs, Goto(h, pc)
    PROVE  /\ LoginTyped'
           /\ login'[h] = [login[h] EXCEPT !.pc = pc]
           /\ \A g \in Handlers \ {h} : login'[g] = login[g]
BY DEF LoginTyped, Goto

\* A handler that has answered is idle.
LEMMA AnswerTyped ==
    ASSUME LoginTyped, NEW h \in Handlers, Answer(h)
    PROVE  /\ LoginTyped'
           /\ login'[h] = Idle
           /\ \A g \in Handlers \ {h} : login'[g] = login[g]
BY DEF LoginTyped, Answer, Idle, Pcs
-----------------------------------------------------------------------------
LEMMA InitInv == Init => Inv
BY LockoutAssumption DEF Init, Inv, Typed, LockoutTypeOK, LoginTyped, NeverDown, ExpiryOwed,
   NoKey, NoAttempts, Idle, NoExpiry, At, Pcs, UserOf

\* A step of a handler keeps the types.
LEMMA LoginStepTyped ==
    ASSUME Typed, NEW h \in Handlers, LoginStep(h)
    PROVE  Typed'
<1>0. /\ AfterCheck(h) \in {"clear", "record"}
      /\ ~At(h, "idle") => UserOf(h) \in Users
      /\ LockoutTicks \in Nat \ {0} /\ MaxAttempts \in Nat \ {0}
  BY LockoutAssumption DEF AfterCheck, Typed, LockoutTypeOK
<1> DEFINE K == [count : Nat, ttl : {NoExpiry} \cup 1..LockoutTicks]
           A == [count : Nat, age : 0..LockoutTicks]
<1>1. /\ failKey \in [Users -> K] /\ attempts \in [Users -> A]
      /\ NoKey \in K /\ NoAttempts \in A
      /\ signedIn \subseteq Users /\ redisUp \in BOOLEAN
  BY <1>0 DEF Typed, LockoutTypeOK, NoKey, NoAttempts, NoExpiry
<1> DEFINE Moved == /\ LoginTyped'
                    /\ \A g \in Handlers : login'[g].pc = "idle" \/ login'[g].user \in Users
<1>2. ASSUME NEW pc \in Pcs, ~At(h, "idle"), Goto(h, pc) PROVE Moved
  BY <1>0, <1>2 DEF Typed, LockoutTypeOK, LoginTyped, Goto, At, UserOf
<1>3. ASSUME Answer(h) PROVE Moved
  BY <1>3 DEF Typed, LockoutTypeOK, LoginTyped, Answer, Idle, At, UserOf, Pcs
<1>4. {"clear", "record", "ttl", "del", "reset", "write", "expire", "pop"} \subseteq Pcs
  BY DEF Pcs
<1>5. UNCHANGED <<wrongs, outages>> /\ redisUp' = redisUp
  BY DEF LoginStep, CheckGet, CheckDict, CheckTtl, CheckDelete, ResetDict, RecordIncr,
     RecordExpire, RecordRead, RecordWrite, ClearDelete, ClearPop, CommandRaises
<1>6. CASE CheckGet(h) \/ CheckDict(h) \/ CheckTtl(h) \/ CommandRaises(h)
  <2>1. ~At(h, "idle") /\ UNCHANGED <<failKey, attempts, signedIn>>
    BY <1>6 DEF CheckGet, CheckDict, CheckTtl, CommandRaises, At
  <2>2. Answer(h) \/ \E pc \in {"clear", "record", "ttl", "del", "reset"} : Goto(h, pc)
    BY <1>6, <1>0 DEF CheckGet, CheckDict, CheckTtl, CommandRaises
  <2>3. Moved
    BY <2>1, <2>2, <1>2, <1>3, <1>4
  <2> QED
    BY <1>1, <1>5, <2>1, <2>3 DEF Typed, LockoutTypeOK, At, UserOf
<1>7. CASE CheckDelete(h) \/ RecordIncr(h) \/ RecordExpire(h) \/ ClearDelete(h)
  <2>1. ~At(h, "idle") /\ UNCHANGED <<attempts, signedIn>>
    BY <1>7 DEF CheckDelete, RecordIncr, RecordExpire, ClearDelete, At
  <2>2. Answer(h) \/ \E pc \in {"clear", "record", "expire", "pop"} : Goto(h, pc)
    BY <1>7, <1>0 DEF CheckDelete, RecordIncr, RecordExpire, ClearDelete
  <2>3. Moved
    BY <2>1, <2>2, <1>2, <1>3, <1>4
  <2>4. UserOf(h) \in Users
    BY <2>1, <1>0
  <2>5. failKey' \in [Users -> K]
    <3>1. CASE CheckDelete(h) \/ ClearDelete(h)
      BY <3>1, <1>1, <2>4 DEF CheckDelete, ClearDelete
    <3>2. CASE RecordIncr(h)
      BY <3>2, <1>1, <2>4 DEF RecordIncr
    <3>3. CASE RecordExpire(h)
      BY <3>3, <1>0, <1>1, <2>4 DEF RecordExpire
    <3> QED
      BY <3>1, <3>2, <3>3, <1>7
  <2> QED
    BY <1>1, <1>5, <2>1, <2>3, <2>5 DEF Typed, LockoutTypeOK, At, UserOf
<1>8. CASE ResetDict(h) \/ RecordWrite(h) \/ ClearPop(h)
  <2>1. ~At(h, "idle") /\ UNCHANGED failKey
    BY <1>8 DEF ResetDict, RecordWrite, ClearPop, At
  <2>2. Answer(h) \/ \E pc \in {"clear", "record"} : Goto(h, pc)
    BY <1>8, <1>0 DEF ResetDict, RecordWrite, ClearPop
  <2>3. Moved
    BY <2>1, <2>2, <1>2, <1>3, <1>4
  <2>4. UserOf(h) \in Users /\ login[h].seen \in Nat
    BY <2>1, <1>0 DEF Typed, LoginTyped
  <2>5. attempts' \in [Users -> A] /\ signedIn' \subseteq Users
    BY <1>8, <1>0, <1>1, <2>4 DEF ResetDict, RecordWrite, ClearPop
  <2> QED
    BY <1>1, <1>5, <2>1, <2>3, <2>5 DEF Typed, LockoutTypeOK, At, UserOf
<1>9. CASE RecordRead(h)
  <2>1. ~At(h, "idle") /\ UserOf(h) \in Users /\ UNCHANGED <<failKey, attempts, signedIn>>
    BY <1>9, <1>0 DEF RecordRead, At
  <2>2. attempts[UserOf(h)].count \in Nat
    BY <1>1, <2>1
  <2>3. Moved
    BY <1>9, <2>1, <2>2, <1>4 DEF RecordRead, Typed, LockoutTypeOK, LoginTyped, At, UserOf
  <2> QED
    BY <1>1, <1>5, <2>1, <2>3 DEF Typed, LockoutTypeOK, At, UserOf
<1> QED
  BY <1>6, <1>7, <1>8, <1>9 DEF LoginStep

\* So do arrivals, outages and the clock.
LEMMA NextTyped ==
    ASSUME Typed, [Next]_vars
    PROVE  Typed'
<1> DEFINE K == [count : Nat, ttl : {NoExpiry} \cup 1..LockoutTicks]
           A == [count : Nat, age : 0..LockoutTicks]
<1>0. /\ failKey \in [Users -> K] /\ attempts \in [Users -> A]
      /\ NoKey \in K /\ LockoutTicks \in Nat
  BY LockoutAssumption DEF Typed, LockoutTypeOK, NoKey, NoExpiry
<1>1. ASSUME NEW h \in Handlers, NEW u \in Users, NEW right \in BOOLEAN, Arrive(h, u, right)
      PROVE  Typed'
  BY <1>1 DEF Arrive, Typed, LockoutTypeOK, LoginTyped, At, UserOf, Pcs
<1>2. CASE RedisDown
  <2>1. PICK pinged : login' = [h \in Handlers |-> IF h \in pinged THEN Idle ELSE login[h]]
    BY <1>2 DEF RedisDown
  <2>2. Idle \in [pc : Pcs, user : Users \cup {"none"}, right : BOOLEAN, seen : Nat] /\ Idle.pc = "idle"
    BY DEF Idle, Pcs
  <2>3. LoginTyped' /\ \A h \in Handlers : At(h, "idle")' \/ UserOf(h)' \in Users
    <3>1. \A h \in Handlers : login'[h] = Idle \/ login'[h] = login[h]
      BY <2>1
    <3> QED
      BY <2>1, <2>2, <3>1 DEF Typed, LockoutTypeOK, LoginTyped, At, UserOf
  <2>4. redisUp' = FALSE /\ outages' = outages + 1 /\ UNCHANGED <<failKey, attempts, signedIn, wrongs>>
    BY <1>2 DEF RedisDown
  <2> QED
    <3>1. outages' \in Nat /\ wrongs' \in Nat
      BY <2>4 DEF Typed
    <3>2. redisUp' \in BOOLEAN
      BY <2>4
    <3>3. LockoutTypeOK'
      BY <2>3, <2>4, <3>2 DEF Typed, LockoutTypeOK, At, UserOf
    <3> QED
      BY <2>3, <3>1, <3>3 DEF Typed
<1>3. CASE RedisBack
  BY <1>3 DEF RedisBack, Typed, LockoutTypeOK, LoginTyped, At, UserOf
<1>4. CASE Tick
  <2>1. \A k \in K : KeyAfterTick(k) \in K
    BY <1>0 DEF KeyAfterTick, NoExpiry
  <2>2. failKey' \in [Users -> K] /\ attempts' \in [Users -> A]
    BY <1>0, <1>4, <2>1 DEF Tick
  <2> QED
    BY <1>4, <2>2 DEF Tick, Typed, LockoutTypeOK, LoginTyped, At, UserOf
<1>5. CASE UNCHANGED vars
  BY <1>5 DEF vars, Typed, LockoutTypeOK, LoginTyped, At, UserOf
<1> QED
  BY <1>1, <1>2, <1>3, <1>4, <1>5, LoginStepTyped DEF Next
-----------------------------------------------------------------------------
(* The counter without expiry. *)

\* A key that a step of the clock leaves without expiry had none before.
LEMMA TickExpiry ==
    ASSUME NEW k \in [count : Nat, ttl : {NoExpiry} \cup 1..LockoutTicks],
           LockoutTicks \in Nat, KeyAfterTick(k).count > 0, KeyAfterTick(k).ttl = NoExpiry
    PROVE  k.count > 0 /\ k.ttl = NoExpiry
BY DEF KeyAfterTick, NoExpiry, NoKey

\* The handler that made the counter keeps owing its EXPIRE, and no other step
\* takes the counter's expiry away.
LEMMA StepOwed ==
    ASSUME Inv, NEW h \in Handlers, LoginStep(h)
    PROVE  ExpiryOwed'
<1> SUFFICES ASSUME outages' = 0, NEW u \in Users,
                    failKey'[u].count > 0, failKey'[u].ttl = NoExpiry
             PROVE  \E g \in Handlers : UserOf(g)' = u /\ At(g, "expire")'
  BY DEF ExpiryOwed
<1>0. outages' = outages /\ redisUp
  BY DEF LoginStep, CheckGet, CheckDict, CheckTtl, CheckDelete, ResetDict, RecordIncr,
     RecordExpire, RecordRead, RecordWrite, ClearDelete, ClearPop, CommandRaises,
     Inv, NeverDown
<1>1. failKey[u] \in [count : Nat, ttl : {NoExpiry} \cup 1..LockoutTicks] /\ LockoutTicks \in Nat \ {0}
  BY LockoutAssumption DEF Inv, Typed, LockoutTypeOK
<1>2. login \in [Handlers -> [pc : Pcs, user : Users \cup {"none"}, right : BOOLEAN, seen : Nat]]
      /\ (~At(h, "idle") => UserOf(h) \in Users)
      /\ DOMAIN failKey = Users
  BY DEF Inv, Typed, LoginTyped, LockoutTypeOK
<1>3. ASSUME failKey[u].count > 0, failKey[u].ttl = NoExpiry
      PROVE  \E g \in Handlers : UserOf(g) = u /\ At(g, "expire")
  BY <1>0, <1>3 DEF Inv, ExpiryOwed
<1>4. CASE RecordIncr(h)
  BY <1>0, <1>1, <1>2, <1>3, <1>4 DEF RecordIncr, ExpireDue, Goto, Answer, At, UserOf, Idle, NoExpiry
<1>5. CASE RecordExpire(h)
  BY <1>0, <1>1, <1>2, <1>3, <1>5 DEF RecordExpire, Answer, At, UserOf, Idle, NoExpiry
<1>6. CASE CheckDelete(h) \/ ClearDelete(h)
  <2>1. UserOf(h) \in Users /\ failKey' = [failKey EXCEPT ![UserOf(h)] = NoKey]
    BY <1>0, <1>2, <1>6 DEF CheckDelete, ClearDelete, At
  <2>2. UserOf(h) # u /\ failKey'[u] = failKey[u]
    BY <2>1, <1>2 DEF NoKey
  <2>3. ~At(h, "expire") /\ \A g \in Handlers \ {h} : login'[g] = login[g]
    BY <1>2, <1>6 DEF CheckDelete, ClearDelete, Goto, At
  <2> QED
    BY <1>3, <2>2, <2>3 DEF At, UserOf
<1>7. CASE \/ CheckGet(h) \/ CheckDict(h) \/ CheckTtl(h) \/ ResetDict(h) \/ RecordRead(h)
           \/ RecordWrite(h) \/ ClearPop(h) \/ CommandRaises(h)
  <2>1. ~At(h, "expire") /\ failKey' = failKey /\ \A g \in Handlers \ {h} : login'[g] = login[g]
    BY <1>0, <1>2, <1>7 DEF CheckGet, CheckDict, CheckTtl, ResetDict, RecordRead, RecordWrite,
       ClearPop, CommandRaises, Goto, Answer, At
  <2> QED
    BY <1>3, <2>1 DEF At, UserOf
<1> QED
  BY <1>4, <1>5, <1>6, <1>7 DEF LoginStep

LEMMA NextInv ==
    ASSUME Inv, [Next]_vars
    PROVE  Inv'
<1>1. Typed'
  BY NextTyped DEF Inv
<1>2. NeverDown'
  <2>1. \A h \in Handlers : LoginStep(h) => UNCHANGED <<redisUp, outages>>
    BY DEF LoginStep, CheckGet, CheckDict, CheckTtl, CheckDelete, ResetDict, RecordIncr,
       RecordExpire, RecordRead, RecordWrite, ClearDelete, ClearPop, CommandRaises
  <2> QED
    BY <2>1 DEF Next, vars, Arrive, RedisDown, RedisBack, Tick, Inv, NeverDown, Typed
<1>3. ExpiryOwed'
  <2>1. ASSUME NEW h \in Handlers, NEW u \in Users, NEW right \in BOOLEAN, Arrive(h, u, right)
        PROVE  ExpiryOwed'
    BY <2>1 DEF Arrive, Inv, Typed, LoginTyped, ExpiryOwed, At, UserOf
  <2>2. CASE RedisDown
    BY <2>2 DEF RedisDown, Inv, Typed, ExpiryOwed
  <2>3. CASE RedisBack
    BY <2>3 DEF RedisBack, Inv, NeverDown, ExpiryOwed
  <2>4. CASE Tick
    <3>1. ASSUME NEW u \in Users, failKey'[u].count > 0, failKey'[u].ttl = NoExpiry
          PROVE  failKey[u].count > 0 /\ failKey[u].ttl = NoExpiry
      <4>1. failKey'[u] = KeyAfterTick(failKey[u])
        BY <2>4 DEF Tick
      <4>2. failKey[u] \in [count : Nat, ttl : {NoExpiry} \cup 1..LockoutTicks] /\ LockoutTicks \in Nat
        BY LockoutAssumption DEF Inv, Typed, LockoutTypeOK
      <4> QED
        BY <3>1, <4>1, <4>2, TickExpiry
    <3> QED
      BY <2>4, <3>1 DEF Tick, Inv, ExpiryOwed, At, UserOf
  <2>5. CASE UNCHANGED vars
    BY <2>5 DEF vars, Inv, ExpiryOwed, At, UserOf
  <2> QED
    BY <2>1, <2>2, <2>3, <2>4, <2>5, StepOwed DEF Next
<1> QED
  BY <1>1, <1>2, <1>3 DEF Inv

LEMMA InvInvariant == Spec => []Inv
BY InitInv, NextInv, PTL DEF Spec

\* Every reachable state of the lockout is well typed; in particular the time
\* to live of a key is never zero and an age never passes the lockout.
THEOREM LockoutTypeCorrect == Spec => []LockoutTypeOK
<1>1. Inv => LockoutTypeOK
  BY DEF Inv, Typed
<1> QED
  BY <1>1, InvInvariant, PTL

\* While Redis has never failed, a failure counter without expiry always has a
\* thread that is about to set it, for any number of users and threads.
THEOREM ExpiryAlwaysOwed == Spec => []ExpiryOwed
<1>1. Inv => ExpiryOwed
  BY DEF Inv
<1> QED
  BY <1>1, InvInvariant, PTL
-----------------------------------------------------------------------------
(* The overshoot. *)

\* The handlers past the check that have still to count a failure of u.
Counting(u) == {h \in Handlers : UserOf(h) = u /\ At(h, "record")}

\* What the counter reads together with what is about to be added to it: each
\* handler that is to count was let through below the limit.  While Redis has
\* never failed nobody is in the branch of the dictionary.
CountInv ==
    outages = 0 =>
        /\ \A h \in Handlers : login[h].pc \notin {"reset", "write"}
        /\ \A u \in Users : failKey[u].count + Cardinality(Counting(u))
                              <= MaxAttempts - 1 + Cardinality(Handlers)

\* There are no more handlers that count than handlers.
LEMMA CountingFinite ==
    ASSUME NEW C \in SUBSET Handlers
    PROVE  /\ IsFiniteSet(C) /\ Cardinality(C) \in Nat /\ Cardinality(Handlers) \in Nat
           /\ Cardinality(C) <= Cardinality(Handlers)
BY FS_Subset, FS_CardinalityType, LockoutAssumption

\* The counter of u keeps its bound when neither it nor the number of those
\* that are to count grows, and whenever it is below the limit.
LEMMA CountKept ==
    ASSUME Typed, Typed', CountInv, outages = 0, NEW u \in Users,
           \/ failKey'[u].count < MaxAttempts
           \/ failKey'[u].count <= failKey[u].count /\ Counting(u)' \subseteq Counting(u)
    PROVE  failKey'[u].count + Cardinality(Counting(u)')
             <= MaxAttempts - 1 + Cardinality(Handlers)
<1> DEFINE now == Counting(u)
           then == Counting(u)'
<1>1. /\ failKey[u].count \in Nat /\ failKey'[u].count \in Nat /\ MaxAttempts \in Nat \ {0}
  BY LockoutAssumption DEF Typed, LockoutTypeOK
<1>2. now \in SUBSET Handlers /\ then \in SUBSET Handlers
  BY DEF Counting
<1>3. failKey[u].count + Cardinality(now) <= MaxAttempts - 1 + Cardinality(Handlers)
  BY DEF CountInv
<1> HIDE DEF now, then
<1>4. /\ Cardinality(now) \in Nat /\ Cardinality(then) \in Nat /\ Cardinality(Handlers) \in Nat
      /\ Cardinality(then) <= Cardinality(Handlers)
      /\ IsFiniteSet(now)
  BY <1>2, CountingFinite
<1>5. CASE failKey'[u].count < MaxAttempts
  BY <1>1, <1>4, <1>5 DEF then
<1>6. CASE failKey'[u].count <= failKey[u].count /\ then \subseteq now
  <2>1. Cardinality(then) <= Cardinality(now)
    BY <1>4, <1>6, FS_Subset
  <2> QED
    BY <1>1, <1>3, <1>4, <1>6, <2>1 DEF then
<1> QED
  BY <1>5, <1>6 DEF now, then

\* A handler that counts adds one and is then no longer about to.
LEMMA CountedOnce ==
    ASSUME Typed, CountInv, outages = 0, NEW h \in Handlers, RecordIncr(h),
           NEW u \in Users, UserOf(h) = u
    PROVE  failKey'[u].count + Cardinality(Counting(u)')
             <= MaxAttempts - 1 + Cardinality(Handlers)
<1> DEFINE now == Counting(u)
<1>1. /\ failKey'[u].count = failKey[u].count + 1
      /\ failKey[u].count \in Nat
  BY DEF RecordIncr, Typed, LockoutTypeOK
<1>2. Counting(u)' = now \ {h}
  BY DEF RecordIncr, Goto, Answer, Idle, Counting, Typed, LoginTyped, At, UserOf
<1>3. h \in now /\ now \in SUBSET Handlers
  BY DEF RecordIncr, Counting, At
<1>4. failKey[u].count + Cardinality(now) <= MaxAttempts - 1 + Cardinality(Handlers)
  BY DEF CountInv
<1> HIDE DEF now
<1>5. IsFiniteSet(now) /\ Cardinality(now) \in Nat /\ Cardinality(Handlers) \in Nat
  BY <1>3, CountingFinite
<1>6. Cardinality(now \ {h}) = Cardinality(now) - 1
  BY <1>3, <1>5, FS_RemoveElement
<1> QED
  BY <1>1, <1>2, <1>4, <1>5, <1>6, LockoutAssumption

\* Who goes on to count a failure was let through below the limit or has just
\* deleted the key; the other counters stay.
LEMMA WhoCounts ==
    ASSUME Typed, redisUp, NEW h \in Handlers, LoginStep(h),
           login[h].pc \notin {"reset", "write"}
    PROVE  /\ \A g \in Handlers \ {h} : login'[g] = login[g]
           /\ login'[h].pc \notin {"reset", "write"}
           /\ ~RecordIncr(h) => \A u \in Users : failKey'[u].count \in {failKey[u].count, 0}
           /\ login'[h].pc = "record" =>
                 /\ login'[h].user = UserOf(h)
                 /\ ~Reached(failKey'[UserOf(h)].count)
           /\ RecordIncr(h) => \A u \in Users \ {UserOf(h)} : failKey'[u] = failKey[u]
<1>1. /\ login[h] \in [pc : Pcs, user : Users \cup {"none"}, right : BOOLEAN, seen : Nat]
      /\ DOMAIN failKey = Users
      /\ ~At(h, "idle") => UserOf(h) \in Users
      /\ \A u \in Users : failKey[u].count \in Nat
      /\ ~Reached(0)
  BY LockoutAssumption DEF Typed, LoginTyped, LockoutTypeOK, Reached
<1>2. ASSUME NEW pc \in Pcs, Goto(h, pc)
      PROVE  /\ \A g \in Handlers \ {h} : login'[g] = login[g]
             /\ login'[h].pc = pc /\ login'[h].user = UserOf(h)
  <2>1. /\ login'[h] = [login[h] EXCEPT !.pc = pc]
        /\ \A g \in Handlers \ {h} : login'[g] = login[g]
    BY <1>2, GotoTyped DEF Typed
  <2> QED
    BY <1>1, <2>1 DEF UserOf
<1>3. ASSUME Answer(h)
      PROVE  /\ \A g \in Handlers \ {h} : login'[g] = login[g]
             /\ login'[h].pc = "idle"
  BY <1>3, AnswerTyped DEF Typed, Idle
<1>4. CASE CheckGet(h)
  <2>1. PICK pc \in {"ttl", "clear", "record"} :
           Goto(h, pc) /\ (pc = "record" => ~Reached(failKey[UserOf(h)].count))
    BY <1>4 DEF CheckGet, AfterCheck
  <2> QED
    BY <1>2, <1>4, <2>1 DEF CheckGet, RecordIncr, At, Pcs
<1>5. CASE CheckTtl(h) \/ CommandRaises(h)
  <2>1. failKey' = failKey /\ ~RecordIncr(h) /\ (Answer(h) \/ Goto(h, "del"))
    BY <1>5 DEF CheckTtl, CommandRaises, RecordIncr, At
  <2> QED
    BY <1>2, <1>3, <2>1 DEF Pcs
<1>6. CASE CheckDelete(h)
  <2>1. /\ UserOf(h) \in Users /\ ~RecordIncr(h)
        /\ failKey' = [failKey EXCEPT ![UserOf(h)] = NoKey]
    BY <1>1, <1>6 DEF CheckDelete, At, RecordIncr
  <2>2. PICK pc \in {"clear", "record"} : Goto(h, pc)
    BY <1>6 DEF CheckDelete, AfterCheck
  <2> QED
    BY <1>1, <1>2, <2>1, <2>2 DEF NoKey, Pcs
<1>7. CASE RecordIncr(h)
  <2>1. Answer(h) \/ Goto(h, "expire")
    BY <1>7 DEF RecordIncr
  <2> QED
    BY <1>1, <1>2, <1>3, <1>7, <2>1 DEF RecordIncr, At, Pcs
<1>8. CASE RecordExpire(h)
  <2>1. /\ Answer(h) /\ UserOf(h) \in Users /\ ~RecordIncr(h)
        /\ \A u \in Users : failKey'[u].count = failKey[u].count
    BY <1>1, <1>8 DEF RecordExpire, At, RecordIncr
  <2> QED
    BY <1>3, <2>1
<1>9. CASE ClearDelete(h)
  <2>1. /\ UserOf(h) \in Users /\ ~RecordIncr(h) /\ Goto(h, "pop")
        /\ failKey' = [failKey EXCEPT ![UserOf(h)] = NoKey]
    BY <1>1, <1>9 DEF ClearDelete, At, RecordIncr
  <2> QED
    BY <1>1, <1>2, <2>1 DEF NoKey, Pcs
<1>10. CASE ClearPop(h)
  BY <1>3, <1>10 DEF ClearPop, RecordIncr, At
<1>11. ~(CheckDict(h) \/ ResetDict(h) \/ RecordRead(h) \/ RecordWrite(h))
  BY DEF CheckDict, ResetDict, RecordRead, RecordWrite, At
<1> QED
  BY <1>4, <1>5, <1>6, <1>7, <1>8, <1>9, <1>10, <1>11 DEF LoginStep

\* So a step of a handler keeps the bound.
LEMMA StepCount ==
    ASSUME Inv, Typed', CountInv, NEW h \in Handlers, LoginStep(h)
    PROVE  CountInv'
<1> SUFFICES ASSUME outages' = 0 PROVE CountInv'
  BY DEF CountInv
<1>0. outages = 0 /\ redisUp /\ Typed
  BY DEF LoginStep, CheckGet, CheckDict, CheckTtl, CheckDelete, ResetDict, RecordIncr,
     RecordExpire, RecordRead, RecordWrite, ClearDelete, ClearPop, CommandRaises,
     Inv, NeverDown
<1>1. /\ MaxAttempts \in Nat \ {0}
      /\ \A u \in Users : failKey[u].count \in Nat
  BY <1>0, LockoutAssumption DEF Typed, LockoutTypeOK
<1>2. \A g \in Handlers : login[g].pc \notin {"reset", "write"}
  BY <1>0 DEF CountInv
<1>3. \A g \in Handlers : login'[g].pc \notin {"reset", "write"}
  BY <1>0, <1>2, WhoCounts
<1>4. ASSUME NEW u \in Users, failKey'[u].count = failKey[u].count,
             login'[h].pc = "record" => login'[h].user # u
      PROVE  failKey'[u].count + Cardinality(Counting(u)') <= MaxAttempts - 1 + Cardinality(Handlers)
  <2>1. Counting(u)' \subseteq Counting(u)
    BY <1>0, <1>2, <1>4, WhoCounts DEF Counting, At, UserOf
  <2> QED
    BY <1>0, <1>1, <1>4, <2>1, CountKept
<1>5. ASSUME NEW u \in Users
      PROVE  failKey'[u].count + Cardinality(Counting(u)') <= MaxAttempts - 1 + Cardinality(Handlers)
  <2>1. CASE RecordIncr(h) /\ UserOf(h) = u
    BY <1>0, <2>1, CountedOnce
  <2>2. CASE RecordIncr(h) /\ UserOf(h) # u
    <3>1. failKey'[u] = failKey[u] /\ (login'[h].pc = "record" => login'[h].user # u)
      BY <1>0, <1>2, <2>2, WhoCounts
    <3> QED
      BY <1>4, <3>1
  <2>3. CASE ~RecordIncr(h)
    <3>1. failKey'[u].count \in {failKey[u].count, 0}
      BY <1>0, <1>2, <2>3, WhoCounts
    <3>2. CASE failKey'[u].count < MaxAttempts
      BY <1>0, <3>2, CountKept
    <3>3. CASE ~(failKey'[u].count < MaxAttempts)
      <4>1. failKey'[u].count = failKey[u].count /\ Reached(failKey'[u].count)
        BY <1>1, <3>1, <3>3 DEF Reached
      <4>2. login'[h].pc = "record" => login'[h].user # u
        BY <1>0, <1>2, <4>1, WhoCounts
      <4> QED
        BY <1>4, <4>1, <4>2
    <3> QED
      BY <3>2, <3>3
  <2> QED
    BY <2>1, <2>2, <2>3
<1> QED
  BY <1>3, <1>5 DEF CountInv

\* And so do arrivals, outages and the clock.
LEMMA NextCount ==
    ASSUME Inv, Typed', CountInv, [Next]_vars
    PROVE  CountInv'
<1> SUFFICES ASSUME outages' = 0 PROVE CountInv'
  BY DEF CountInv
<1>0. Typed /\ \A u \in Users : failKey[u].count \in Nat
  BY DEF Inv, Typed, LockoutTypeOK
<1>1. ASSUME NEW h \in Handlers, NEW u \in Users, NEW right \in BOOLEAN, Arrive(h, u, right)
      PROVE  CountInv'
  <2>1. /\ outages = 0 /\ failKey' = failKey
        /\ \A v \in Users : Counting(v)' \subseteq Counting(v)
        /\ \A g \in Handlers : login'[g].pc \in {login[g].pc, "check"}
    BY <1>0, <1>1 DEF Arrive, Counting, At, UserOf, Typed, LoginTyped
  <2>2. \A v \in Users : failKey'[v].count + Cardinality(Counting(v)')
                           <= MaxAttempts - 1 + Cardinality(Handlers)
    BY <1>0, <2>1, CountKept
  <2> QED
    BY <2>1, <2>2 DEF CountInv
<1>2. CASE RedisDown
  BY <1>2 DEF RedisDown, Inv, Typed
<1>3. CASE RedisBack
  BY <1>3 DEF RedisBack, CountInv, Counting, At, UserOf
<1>4. CASE Tick
  <2>1. outages = 0 /\ login' = login
    BY <1>4 DEF Tick
  <2>2. ASSUME NEW u \in Users PROVE failKey'[u].count <= failKey[u].count
    BY <1>0, <1>4, <2>2 DEF Tick, KeyAfterTick, NoKey, Typed, LockoutTypeOK
  <2>3. \A u \in Users : Counting(u)' = Counting(u)
    BY <2>1 DEF Counting, At, UserOf
  <2>4. \A u \in Users : failKey'[u].count + Cardinality(Counting(u)')
                           <= MaxAttempts - 1 + Cardinality(Handlers)
    BY <1>0, <2>1, <2>2, <2>3, CountKept
  <2> QED
    BY <2>1, <2>4 DEF CountInv
<1>5. CASE UNCHANGED vars
  BY <1>5 DEF vars, CountInv, Counting, At, UserOf
<1> QED
  BY <1>1, <1>2, <1>3, <1>4, <1>5, StepCount DEF Next

\* While Redis has never failed, the failures counted for a user pass the
\* limit by fewer than there are threads, for any number of users and threads
\* and whatever the order of their commands.
THEOREM OvershootBounded == Spec => []BoundedOvershoot
<1>1. Init => CountInv
  <2> SUFFICES ASSUME Init PROVE CountInv
    OBVIOUS
  <2>1. /\ outages = 0
        /\ \A u \in Users : Counting(u) = {} /\ failKey[u].count = 0
    BY DEF Init, Counting, At, UserOf, Idle, NoKey
  <2>2. Cardinality({}) = 0 /\ Cardinality(Handlers) \in Nat
    BY FS_EmptySet, FS_CardinalityType, LockoutAssumption
  <2>3. \A h \in Handlers : login[h].pc = "idle"
    BY DEF Init, Idle
  <2>4. MaxAttempts \in Nat \ {0}
    BY LockoutAssumption
  <2>5. ASSUME NEW u \in Users
        PROVE  failKey[u].count + Cardinality(Counting(u))
                 <= MaxAttempts - 1 + Cardinality(Handlers)
    <3>1. failKey[u].count = 0 /\ Cardinality(Counting(u)) = 0
      BY <2>1, <2>2
    <3> QED
      BY <2>2, <2>4, <3>1
  <2> QED
    BY <2>3, <2>5 DEF CountInv
<1>2. Inv /\ Inv' /\ CountInv /\ [Next]_vars => CountInv'
  BY NextCount DEF Inv
<1>3. Inv /\ CountInv => BoundedOvershoot
  <2> SUFFICES ASSUME Inv, CountInv, outages = 0, NEW u \in Users
               PROVE  failKey[u].count <= MaxAttempts - 1 + Cardinality(Handlers)
    BY DEF BoundedOvershoot
  <2>1. Cardinality(Counting(u)) \in Nat /\ Cardinality(Handlers) \in Nat
    BY CountingFinite DEF Counting
  <2>2. failKey[u].count \in Nat
    BY DEF Inv, Typed, LockoutTypeOK
  <2> QED
    BY <2>1, <2>2, LockoutAssumption DEF CountInv
<1> QED
  BY <1>1, <1>2, <1>3, InvInvariant, PTL DEF Spec
=============================================================================
