-------------------------- MODULE RateWindowProofs --------------------------
(***************************************************************************)
(* TLAPS proofs about RateWindow: the list a key keeps tells exactly what  *)
(* the history tells, at every age and so at the boundary of the window,   *)
(* and the limit and the promise of Retry-After follow.                    *)
(***************************************************************************)
EXTENDS RateWindow, SelectionProofs

Requests == [route : Routes, age : Nat]

RateTypes ==
    /\ timestamps \in [Keys -> Seq(Nat)]
    /\ \A k \in Keys : \A i \in 1..Len(timestamps[k]) : timestamps[k][i] <= WindowTicks
    /\ accepted \in [Clients -> Seq(Requests)]
    /\ \A c \in Clients : \A i \in 1..Len(accepted[c]) : accepted[c][i].age < WindowTicks
    /\ promise \in [Keys -> Nat \cup {NoPromise}]

\* The ages below n, and the requests of key k younger than n.
Ages(n) == {age \in Nat : age < n}
Young(k, n) == {m \in Requests : KeyOf(k[1], m.route) = k /\ m.age < n}

\* The list and the history agree at every age, not at the window only.
Agree ==
    \A k \in Keys, n \in 0..WindowTicks :
        Counted(timestamps[k], Ages(n)) = Counted(accepted[k[1]], Young(k, n))

Limited == \A k \in Keys : Len(timestamps[k]) <= MaxOf(k)

\* A promise is kept because the oldest entry has left the window by then.
Promised ==
    \A k \in Keys : promise[k] # NoPromise =>
        \/ Len(timestamps[k]) < MaxOf(k)
        \/ timestamps[k][1] + promise[k] >= WindowTicks

RateInv == RateTypes /\ Agree /\ Limited /\ Promised
-----------------------------------------------------------------------------
LEMMA Params ==
    /\ WindowTicks \in Nat /\ WindowTicks > 0 /\ TicksPerSecond \in Nat /\ TicksPerSecond > 0
    /\ \A k \in Keys : MaxOf(k) \in Nat /\ MaxOf(k) > 0
BY RateAssumption DEF MaxOf

LEMMA KeyTypes ==
    /\ \A k \in Keys : k[1] \in Clients
    /\ \A c \in Clients, r \in Routes : KeyOf(c, r) \in Keys /\ KeyOf(c, r)[1] = c
BY DEF Keys, KeyOf

\* Seconds are truncated, but one is added.
LEMMA Truncated ==
    ASSUME NEW x \in Nat, NEW t \in Nat \ {0}
    PROVE  t * (x \div t + 1) \in Nat /\ t * (x \div t + 1) >= x
<1>1. x \div t \in Nat
  OBVIOUS
<1>2. x = t * (x \div t) + (x % t) /\ (x % t) < t /\ (x % t) >= 0
  OBVIOUS
<1>3. t * (x \div t + 1) = t * (x \div t) + t
  BY <1>1
<1>4. t * (x \div t) \in Nat
  BY <1>1
<1> QED
  BY <1>1, <1>2, <1>3, <1>4

\* What count_and_clean leaves of a list.
LEMMA CleanedFacts ==
    ASSUME NEW q \in Seq(Nat)
    PROVE  /\ Cleaned(q) \in Seq(Nat) /\ Len(Cleaned(q)) \in Nat
           /\ \A i \in 1..Len(Cleaned(q)) : Cleaned(q)[i] < WindowTicks
           /\ Len(Cleaned(q)) = Counted(q, Ages(WindowTicks)) /\ Len(Cleaned(q)) <= Len(q)
           /\ Len(Cleaned(q)) = Len(q) => Cleaned(q) = q
           /\ \A n \in 0..WindowTicks : Counted(Cleaned(q), Ages(n)) = Counted(q, Ages(n))
<1> DEFINE kept == {i \in DOMAIN q : q[i] < WindowTicks}
           sel == Selected(q, kept)
<1>1. Cleaned(q) = sel
  BY DEF Cleaned
<1>2. /\ \A i \in 1..Len(q) : i \in kept <=> q[i] \in Ages(WindowTicks)
      /\ \A i \in 1..Len(q) : q[i] \in Nat
  BY DEF Ages
<1> HIDE DEF kept
<1>3. /\ sel \in Seq(Nat \cap Ages(WindowTicks)) /\ Len(sel) = Counted(q, Ages(WindowTicks))
      /\ Counted(q, Ages(WindowTicks)) = Len(q) => sel = q
  BY <1>2, KeptElements
<1>4. ASSUME NEW n \in 0..WindowTicks
      PROVE  Counted(sel, Ages(n)) = Counted(q, Ages(n))
  <2>1. Counted(sel, Ages(n)) = Cardinality({i \in 1..Len(q) : i \in kept /\ q[i] \in Ages(n)})
    BY SelectedCounts
  <2>2. ASSUME NEW i \in 1..Len(q) PROVE (i \in kept /\ q[i] \in Ages(n)) <=> q[i] \in Ages(n)
    BY <1>2, Params DEF Ages
  <2>3. {i \in 1..Len(q) : i \in kept /\ q[i] \in Ages(n)} = {i \in 1..Len(q) : q[i] \in Ages(n)}
    BY <2>2
  <2> QED
    BY <2>1, <2>3 DEF Counted
<1> HIDE DEF sel
<1>5. /\ sel \in Seq(Nat) /\ Len(sel) \in Nat
      /\ \A i \in 1..Len(sel) : sel[i] < WindowTicks
  <2>1. \A i \in 1..Len(sel) : sel[i] \in Nat \cap Ages(WindowTicks)
    BY <1>3
  <2>2. sel \in Seq(Nat) /\ Len(sel) \in Nat
    BY <1>3
  <2> QED
    BY <2>1, <2>2 DEF Ages
<1>6. Counted(q, Ages(WindowTicks)) <= Len(q)
  BY CountedBounds
<1> QED
  BY <1>1, <1>3, <1>4, <1>5, <1>6
-----------------------------------------------------------------------------
LEMMA RateInit == Init => RateInv
<1> SUFFICES ASSUME Init PROVE RateInv
  OBVIOUS
<1>1. /\ \A k \in Keys : timestamps[k] = << >> /\ promise[k] = NoPromise
      /\ \A c \in Clients : accepted[c] = << >>
      /\ << >> \in Seq(Nat) /\ << >> \in Seq(Requests) /\ Len(<< >>) = 0
  BY DEF Init
<1>2. RateTypes
  BY <1>1 DEF Init, RateTypes
<1>3. \A K : Counted(<< >>, K) = 0
  <2>1. \A K : {i \in 1..Len(<< >>) : << >>[i] \in K} = {}
    BY <1>1
  <2> QED
    BY <2>1, FS_EmptySet DEF Counted
<1>4. Agree
  BY <1>1, <1>3, KeyTypes DEF Agree
<1>5. Limited /\ Promised
  BY <1>1, Params DEF Limited, Promised
<1> QED
  BY <1>2, <1>4, <1>5 DEF RateInv

LEMMA StepAccept ==
    ASSUME RateInv, NEW c \in Clients, NEW r \in Routes, Accept(c, r)
    PROVE  RateInv'
<1> DEFINE k == KeyOf(c, r)
           fresh == Cleaned(timestamps[k])
           m == [route |-> r, age |-> 0]
<1>1. /\ Len(fresh) < MaxOf(k)
      /\ timestamps' = [timestamps EXCEPT ![k] = Append(fresh, 0)]
      /\ accepted' = [accepted EXCEPT ![c] = Append(accepted[c], m)]
      /\ promise' = [promise EXCEPT ![k] = NoPromise]
  BY DEF Accept, RateInv, RateTypes
<1>2. /\ timestamps \in [Keys -> Seq(Nat)] /\ accepted \in [Clients -> Seq(Requests)]
      /\ promise \in [Keys -> Nat \cup {NoPromise}] /\ k \in Keys /\ k[1] = c
      /\ timestamps[k] \in Seq(Nat) /\ accepted[c] \in Seq(Requests)
  BY KeyTypes DEF RateInv, RateTypes
<1>3. m \in Requests /\ m.route = r /\ m.age = 0
  BY DEF Requests
<1>4. k = KeyOf(c, r)
  OBVIOUS
<1> HIDE DEF m, k
<1>5. /\ fresh \in Seq(Nat) /\ Len(fresh) \in Nat
      /\ \A i \in 1..Len(fresh) : fresh[i] < WindowTicks
      /\ \A n \in 0..WindowTicks : Counted(fresh, Ages(n)) = Counted(timestamps[k], Ages(n))
  BY <1>2, CleanedFacts
<1> HIDE DEF fresh
<1>6. /\ Append(fresh, 0) \in Seq(Nat) /\ Len(Append(fresh, 0)) = Len(fresh) + 1
      /\ Append(fresh, 0)[Len(fresh) + 1] = 0
      /\ \A i \in 1..Len(fresh) : Append(fresh, 0)[i] = fresh[i]
  BY <1>5
<1>7. /\ Append(accepted[c], m) \in Seq(Requests) /\ Len(accepted[c]) \in Nat
      /\ Len(Append(accepted[c], m)) = Len(accepted[c]) + 1
      /\ Append(accepted[c], m)[Len(accepted[c]) + 1] = m
      /\ \A i \in 1..Len(accepted[c]) : Append(accepted[c], m)[i] = accepted[c][i]
  BY <1>2, <1>3
<1>8. /\ timestamps'[k] = Append(fresh, 0) /\ accepted'[c] = Append(accepted[c], m)
      /\ promise'[k] = NoPromise
      /\ \A j \in Keys \ {k} : timestamps'[j] = timestamps[j] /\ promise'[j] = promise[j]
      /\ \A d \in Clients \ {c} : accepted'[d] = accepted[d]
  BY <1>1, <1>2
<1>9. RateTypes'
  <2>1. /\ timestamps' \in [Keys -> Seq(Nat)] /\ accepted' \in [Clients -> Seq(Requests)]
        /\ promise' \in [Keys -> Nat \cup {NoPromise}]
    BY <1>1, <1>2, <1>6, <1>7
  <2>2. \A i \in 1..Len(Append(fresh, 0)) : Append(fresh, 0)[i] <= WindowTicks
    <3>1. ASSUME NEW i \in 1..(Len(fresh) + 1) PROVE Append(fresh, 0)[i] <= WindowTicks
      <4>1. CASE i = Len(fresh) + 1
        BY <1>6, <4>1, Params
      <4>2. CASE i \in 1..Len(fresh)
        <5>1. fresh[i] \in Nat /\ fresh[i] < WindowTicks
          BY <1>5, <4>2
        <5> QED
          BY <1>6, <4>2, <5>1, Params
      <4> QED
        BY <1>5, <4>1, <4>2
    <3> QED
      BY <1>6, <3>1
  <2>3. \A i \in 1..Len(Append(accepted[c], m)) : Append(accepted[c], m)[i].age < WindowTicks
    <3>1. \A i \in 1..Len(accepted[c]) : accepted[c][i].age < WindowTicks
      BY DEF RateInv, RateTypes
    <3>2. ASSUME NEW i \in 1..(Len(accepted[c]) + 1)
          PROVE  Append(accepted[c], m)[i].age < WindowTicks
      <4>1. CASE i = Len(accepted[c]) + 1
        BY <1>3, <1>7, <4>1, Params
      <4>2. CASE i \in 1..Len(accepted[c])
        BY <1>7, <3>1, <4>2
      <4> QED
        BY <1>7, <4>1, <4>2
    <3> QED
      BY <1>7, <3>2
  <2> QED
    BY <1>8, <2>1, <2>2, <2>3 DEF RateInv, RateTypes
<1>10. Agree'
  <2>1. ASSUME NEW n \in 0..WindowTicks
        PROVE  Counted(Append(fresh, 0), Ages(n)) = Counted(Append(accepted[c], m), Young(k, n))
    <3>1. Counted(fresh, Ages(n)) = Counted(accepted[c], Young(k, n))
      BY <1>2, <1>5 DEF RateInv, Agree
    <3>2. 0 \in Ages(n) <=> m \in Young(k, n)
      BY <1>2, <1>3, <1>4 DEF Ages, Young
    <3>3. /\ 0 \in Ages(n) => Counted(Append(fresh, 0), Ages(n)) = Counted(fresh, Ages(n)) + 1
          /\ 0 \notin Ages(n) => Counted(Append(fresh, 0), Ages(n)) = Counted(fresh, Ages(n))
      <4>1. 0 \in Nat
        OBVIOUS
      <4> QED
        BY <1>5, <4>1, CountedAppend
    <3>4. /\ m \in Young(k, n) => Counted(Append(accepted[c], m), Young(k, n))
                                     = Counted(accepted[c], Young(k, n)) + 1
          /\ m \notin Young(k, n) => Counted(Append(accepted[c], m), Young(k, n))
                                     = Counted(accepted[c], Young(k, n))
      BY <1>2, <1>3, CountedAppend
    <3> QED
      BY <3>1, <3>2, <3>3, <3>4
  <2>2. ASSUME NEW j \in Keys \ {k}, NEW n \in 0..WindowTicks
        PROVE  Counted(timestamps[j], Ages(n)) = Counted(accepted'[j[1]], Young(j, n))
    <3>1. Counted(timestamps[j], Ages(n)) = Counted(accepted[j[1]], Young(j, n))
      BY DEF RateInv, Agree
    <3>2. CASE j[1] = c
      <4>1. m \notin Young(j, n)
        BY <1>3, <1>4, <3>2 DEF Young
      <4>2. Counted(Append(accepted[c], m), Young(j, n)) = Counted(accepted[c], Young(j, n))
        BY <1>2, <1>3, <4>1, CountedAppend
      <4> QED
        BY <1>8, <3>1, <3>2, <4>2
    <3>3. CASE j[1] # c
      BY <1>8, <3>1, <3>3, KeyTypes
    <3> QED
      BY <3>2, <3>3
  <2> QED
    BY <1>2, <1>8, <2>1, <2>2 DEF Agree
<1>11. Limited'
  <2>1. Len(timestamps'[k]) <= MaxOf(k)
    BY <1>1, <1>2, <1>5, <1>6, <1>8, Params
  <2> QED
    BY <1>8, <2>1 DEF RateInv, Limited
<1>12. Promised'
  BY <1>8 DEF RateInv, Promised
<1> QED
  BY <1>9, <1>10, <1>11, <1>12 DEF RateInv

\* A refusal finds nothing to clean, or there would be room.
LEMMA StepRefuse ==
    ASSUME RateInv, NEW c \in Clients, NEW r \in Routes, Refuse(c, r)
    PROVE  RateInv'
<1> DEFINE k == KeyOf(c, r)
           fresh == Cleaned(timestamps[k])
           p == IF promise[k] = NoPromise \/ promise[k] > RetryAfter(fresh)
                  THEN RetryAfter(fresh) ELSE promise[k]
<1>1. /\ Len(fresh) >= MaxOf(k)
      /\ timestamps' = [timestamps EXCEPT ![k] = fresh]
      /\ accepted' = accepted
      /\ promise' = [promise EXCEPT ![k] =
            IF @ = NoPromise \/ @ > RetryAfter(fresh) THEN RetryAfter(fresh) ELSE @]
  BY DEF Refuse
<1>2. /\ timestamps \in [Keys -> Seq(Nat)] /\ promise \in [Keys -> Nat \cup {NoPromise}]
      /\ k \in Keys /\ timestamps[k] \in Seq(Nat)
      /\ Len(timestamps[k]) <= MaxOf(k) /\ Len(timestamps[k]) \in Nat
      /\ promise[k] \in Nat \cup {NoPromise}
  BY KeyTypes DEF RateInv, RateTypes, Limited
<1> HIDE DEF k
<1>3. /\ fresh \in Seq(Nat) /\ Len(fresh) \in Nat
      /\ \A i \in 1..Len(fresh) : fresh[i] < WindowTicks
      /\ Len(fresh) <= Len(timestamps[k])
      /\ Len(fresh) = Len(timestamps[k]) => fresh = timestamps[k]
  BY <1>2, CleanedFacts
<1>4. promise' = [promise EXCEPT ![k] = p]
  BY <1>1, <1>2
<1> HIDE DEF fresh
<1>5. fresh = timestamps[k] /\ Len(fresh) = MaxOf(k) /\ 1 \in 1..Len(fresh)
  <2>1. Len(fresh) = Len(timestamps[k]) /\ Len(fresh) = MaxOf(k) /\ Len(fresh) > 0
    BY <1>1, <1>2, <1>3, Params
  <2> QED
    BY <1>3, <2>1
<1>6. timestamps' = timestamps
  BY <1>1, <1>2, <1>5
<1>7. RetryAfter(fresh) \in Nat /\ fresh[1] \in Nat /\ fresh[1] + RetryAfter(fresh) >= WindowTicks
  <2>1. fresh[1] \in Nat /\ fresh[1] < WindowTicks
    BY <1>3, <1>5
  <2>2. WindowTicks - fresh[1] \in Nat /\ TicksPerSecond \in Nat \ {0}
    BY <2>1, Params
  <2>3. /\ TicksPerSecond * ((WindowTicks - fresh[1]) \div TicksPerSecond + 1) \in Nat
        /\ TicksPerSecond * ((WindowTicks - fresh[1]) \div TicksPerSecond + 1)
              >= WindowTicks - fresh[1]
    BY <2>2, Truncated
  <2>4. RetryAfter(fresh) \in Nat /\ RetryAfter(fresh) >= WindowTicks - fresh[1]
    BY <2>3 DEF RetryAfter
  <2> QED
    BY <2>1, <2>4, Params
<1>8. p \in Nat /\ timestamps[k][1] + p >= WindowTicks
  <2>1. CASE promise[k] = NoPromise \/ promise[k] > RetryAfter(fresh)
    BY <1>5, <1>7, <2>1
  <2>2. CASE ~(promise[k] = NoPromise \/ promise[k] > RetryAfter(fresh))
    <3>1. p = promise[k] /\ promise[k] \in Nat
      BY <1>2, <2>2
    <3>2. \/ Len(timestamps[k]) < MaxOf(k)
          \/ timestamps[k][1] + promise[k] >= WindowTicks
      BY <1>2, <2>2 DEF RateInv, Promised
    <3>3. ~(Len(timestamps[k]) < MaxOf(k))
      BY <1>2, <1>5
    <3> QED
      BY <3>1, <3>2, <3>3
  <2> QED
    BY <2>1, <2>2
<1> HIDE DEF p
<1>9. RateTypes'
  <2>1. promise' \in [Keys -> Nat \cup {NoPromise}]
    BY <1>2, <1>4, <1>8
  <2> QED
    BY <1>1, <1>6, <2>1 DEF RateInv, RateTypes
<1>10. Agree' /\ Limited'
  BY <1>1, <1>6 DEF RateInv, Agree, Limited
<1>11. Promised'
  <2>1. promise'[k] = p /\ \A j \in Keys \ {k} : promise'[j] = promise[j]
    BY <1>2, <1>4
  <2> QED
    BY <1>6, <1>8, <2>1 DEF RateInv, Promised
<1> QED
  BY <1>9, <1>10, <1>11 DEF RateInv

\* A tick moves what was below an age below the next one, in the list and in
\* the history alike.
LEMMA StepTick ==
    ASSUME RateInv, Tick
    PROVE  RateInv'
<1> DEFINE Aged(c) == [i \in DOMAIN accepted[c] |-> [accepted[c][i] EXCEPT !.age = @ + 1]]
           kept(c) == {i \in DOMAIN Aged(c) : Aged(c)[i].age < WindowTicks}
           older(k) == [i \in DOMAIN timestamps[k] |-> Older(timestamps[k][i])]
<1>1. /\ timestamps' = [k \in Keys |-> older(k)]
      /\ accepted' = [c \in Clients |-> Selected(Aged(c), kept(c))]
      /\ promise' = [k \in Keys |->
            IF promise[k] = NoPromise \/ promise[k] = 0 THEN promise[k] ELSE promise[k] - 1]
  BY DEF Tick
<1>2. ASSUME NEW k \in Keys
      PROVE  /\ timestamps[k] \in Seq(Nat) /\ Len(timestamps[k]) \in Nat
             /\ \A i \in 1..Len(timestamps[k]) :
                    timestamps[k][i] \in Nat /\ timestamps[k][i] <= WindowTicks
             /\ promise[k] \in Nat \cup {NoPromise}
             /\ older(k) \in Seq(Nat) /\ Len(older(k)) = Len(timestamps[k])
             /\ \A i \in 1..Len(timestamps[k]) : older(k)[i] = Older(timestamps[k][i])
  <2>1. timestamps[k] \in Seq(Nat) /\ promise[k] \in Nat \cup {NoPromise}
    BY DEF RateInv, RateTypes
  <2>2. \A i \in 1..Len(timestamps[k]) :
           timestamps[k][i] \in Nat /\ timestamps[k][i] <= WindowTicks
    BY <2>1 DEF RateInv, RateTypes
  <2>3. Len(timestamps[k]) \in Nat /\ DOMAIN timestamps[k] = 1..Len(timestamps[k])
    BY <2>1
  <2>4. \A i \in 1..Len(timestamps[k]) : Older(timestamps[k][i]) \in Nat
    BY <2>2 DEF Older
  <2> QED
    BY <2>1, <2>2, <2>3, <2>4
<1>3. ASSUME NEW c \in Clients
      PROVE  /\ accepted[c] \in Seq(Requests) /\ Len(accepted[c]) \in Nat
             /\ \A i \in 1..Len(accepted[c]) : accepted[c][i] \in Requests
             /\ Aged(c) \in Seq(Requests) /\ Len(Aged(c)) = Len(accepted[c])
             /\ \A i \in 1..Len(accepted[c]) : /\ Aged(c)[i].age = accepted[c][i].age + 1
                                               /\ Aged(c)[i].route = accepted[c][i].route
  <2>1. accepted[c] \in Seq(Requests)
    BY DEF RateInv, RateTypes
  <2>2. /\ Len(accepted[c]) \in Nat /\ DOMAIN accepted[c] = 1..Len(accepted[c])
        /\ \A i \in 1..Len(accepted[c]) : accepted[c][i] \in Requests
    BY <2>1
  <2>3. ASSUME NEW i \in 1..Len(accepted[c])
        PROVE  LET a == [accepted[c][i] EXCEPT !.age = @ + 1]
               IN  a \in Requests /\ a.age = accepted[c][i].age + 1
                   /\ a.route = accepted[c][i].route
    BY <2>2 DEF Requests
  <2> QED
    BY <2>1, <2>2, <2>3
<1> HIDE DEF Aged, older
<1>4. ASSUME NEW c \in Clients
      PROVE  LET sel == Selected(Aged(c), kept(c))
             IN  /\ sel \in Seq(Requests)
                 /\ \A i \in 1..Len(sel) : sel[i].age < WindowTicks
                 /\ \A k \in Keys, n \in 0..WindowTicks :
                       Counted(sel, Young(k, n)) = Counted(Aged(c), Young(k, n))
  <2> DEFINE sel == Selected(Aged(c), kept(c))
             S == {m \in Requests : m.age < WindowTicks}
  <2>1. /\ Aged(c) \in Seq(Requests)
        /\ \A i \in 1..Len(Aged(c)) : Aged(c)[i] \in Requests /\ (i \in kept(c) <=> Aged(c)[i] \in S)
    BY <1>3
  <2> HIDE DEF kept, S
  <2>2. sel \in Seq(Requests \cap S)
    BY <2>1, KeptElements
  <2>3. ASSUME NEW k \in Keys, NEW n \in 0..WindowTicks
        PROVE  Counted(sel, Young(k, n)) = Counted(Aged(c), Young(k, n))
    <3>1. Counted(sel, Young(k, n)) =
             Cardinality({i \in 1..Len(Aged(c)) : i \in kept(c) /\ Aged(c)[i] \in Young(k, n)})
      BY <2>1, SelectedCounts
    <3>2. ASSUME NEW i \in 1..Len(Aged(c))
          PROVE  (i \in kept(c) /\ Aged(c)[i] \in Young(k, n)) <=> Aged(c)[i] \in Young(k, n)
      <4>1. Aged(c)[i] \in Young(k, n) => Aged(c)[i] \in S
        BY Params DEF Young, S, Requests
      <4> QED
        BY <2>1, <4>1
    <3>3. {i \in 1..Len(Aged(c)) : i \in kept(c) /\ Aged(c)[i] \in Young(k, n)} =
             {i \in 1..Len(Aged(c)) : Aged(c)[i] \in Young(k, n)}
      BY <3>2
    <3> QED
      BY <3>1, <3>3 DEF Counted
  <2> HIDE DEF sel
  <2>4. sel \in Seq(Requests) /\ \A i \in 1..Len(sel) : sel[i].age < WindowTicks
    <3>1. \A i \in 1..Len(sel) : sel[i] \in Requests \cap S
      BY <2>2
    <3>2. \A q \in Seq(Requests \cap S) : q \in Seq(Requests)
      OBVIOUS
    <3> QED
      BY <2>2, <3>1, <3>2 DEF S
  <2> QED
    BY <2>3, <2>4 DEF sel
<1> HIDE DEF kept
<1>5. RateTypes'
  <2>1. timestamps' \in [Keys -> Seq(Nat)] /\ accepted' \in [Clients -> Seq(Requests)]
    BY <1>1, <1>2, <1>4
  <2>2. promise' \in [Keys -> Nat \cup {NoPromise}]
    <3>1. ASSUME NEW k \in Keys, ~(promise[k] = NoPromise \/ promise[k] = 0)
          PROVE  promise[k] - 1 \in Nat
      BY <1>2, <3>1
    <3> QED
      BY <1>1, <1>2, <3>1
  <2>3. ASSUME NEW k \in Keys, NEW i \in 1..Len(timestamps'[k])
        PROVE  timestamps'[k][i] <= WindowTicks
    <3>1. /\ timestamps'[k] = older(k) /\ i \in 1..Len(timestamps[k])
          /\ older(k)[i] = Older(timestamps[k][i])
      BY <1>1, <1>2, <2>3
    <3>2. timestamps[k][i] \in Nat /\ timestamps[k][i] <= WindowTicks
      BY <1>2, <3>1
    <3> QED
      BY <3>1, <3>2, Params DEF Older
  <2>4. \A c \in Clients : \A i \in 1..Len(accepted'[c]) : accepted'[c][i].age < WindowTicks
    BY <1>1, <1>4
  <2> QED
    BY <2>1, <2>2, <2>3, <2>4 DEF RateTypes
<1>6. Agree'
  <2> SUFFICES ASSUME NEW k \in Keys, NEW n \in 0..WindowTicks
               PROVE  Counted(timestamps'[k], Ages(n)) = Counted(accepted'[k[1]], Young(k, n))
    BY DEF Agree
  <2> DEFINE b == IF n = 0 THEN 0 ELSE n - 1
             c == k[1]
  <2>1. b \in 0..WindowTicks /\ b \in Nat /\ n \in Nat /\ n <= WindowTicks /\ c \in Clients
        /\ (n = 0 => b = 0) /\ (n # 0 => b + 1 = n)
    BY Params, KeyTypes
  <2> HIDE DEF b, c
  <2>2. Counted(older(k), Ages(n)) = Counted(timestamps[k], Ages(b))
    <3>1. ASSUME NEW i \in 1..Len(timestamps[k])
          PROVE  older(k)[i] \in Ages(n) <=> timestamps[k][i] \in Ages(b)
      <4>1. /\ older(k)[i] = Older(timestamps[k][i]) /\ timestamps[k][i] \in Nat
            /\ timestamps[k][i] <= WindowTicks
        BY <1>2
      <4> QED
        BY <2>1, <4>1, Params DEF Older, Ages
    <3>2. /\ timestamps[k] \in Seq(Nat) /\ older(k) \in Seq(Nat)
          /\ Len(older(k)) = Len(timestamps[k])
      BY <1>2
    <3>3. {i \in 1..Len(older(k)) : older(k)[i] \in Ages(n)} =
             {i \in 1..Len(timestamps[k]) : timestamps[k][i] \in Ages(b)}
      BY <3>1, <3>2
    <3> QED
      BY <3>3 DEF Counted
  <2>3. Counted(Aged(c), Young(k, n)) = Counted(accepted[c], Young(k, b))
    <3>1. ASSUME NEW i \in 1..Len(accepted[c])
          PROVE  Aged(c)[i] \in Young(k, n) <=> accepted[c][i] \in Young(k, b)
      <4>1. /\ accepted[c][i] \in Requests /\ Aged(c)[i] \in Requests
            /\ Aged(c)[i].age = accepted[c][i].age + 1
            /\ Aged(c)[i].route = accepted[c][i].route
        BY <1>3, <2>1
      <4>2. accepted[c][i].age \in Nat
        BY <4>1 DEF Requests
      <4>3. Aged(c)[i].age < n <=> accepted[c][i].age < b
        BY <2>1, <4>1, <4>2
      <4> QED
        BY <4>1, <4>3 DEF Young
    <3>2. /\ accepted[c] \in Seq(Requests) /\ Aged(c) \in Seq(Requests)
          /\ Len(Aged(c)) = Len(accepted[c])
      BY <1>3, <2>1
    <3> QED
      BY <3>1, <3>2, CountedAlike
  <2>4. Counted(timestamps[k], Ages(b)) = Counted(accepted[c], Young(k, b))
    BY <2>1 DEF RateInv, Agree, c
  <2>5. /\ timestamps'[k] = older(k) /\ accepted'[c] = Selected(Aged(c), kept(c))
        /\ Counted(Selected(Aged(c), kept(c)), Young(k, n)) = Counted(Aged(c), Young(k, n))
    BY <1>1, <1>4, <2>1
  <2> QED
    BY <2>2, <2>3, <2>4, <2>5 DEF c
<1>7. Limited'
  BY <1>1, <1>2 DEF RateInv, Limited
<1>8. Promised'
  <2> SUFFICES ASSUME NEW k \in Keys, promise'[k] # NoPromise
               PROVE  \/ Len(timestamps'[k]) < MaxOf(k)
                      \/ timestamps'[k][1] + promise'[k] >= WindowTicks
    BY DEF Promised
  <2>1. /\ promise[k] \in Nat
        /\ promise'[k] = IF promise[k] = 0 THEN 0 ELSE promise[k] - 1
    BY <1>1, <1>2
  <2>2. timestamps'[k] = older(k) /\ Len(older(k)) = Len(timestamps[k])
    BY <1>1, <1>2
  <2>3. CASE Len(timestamps[k]) < MaxOf(k)
    BY <2>2, <2>3
  <2>4. CASE ~(Len(timestamps[k]) < MaxOf(k))
    <3>1. 1 \in 1..Len(timestamps[k])
      BY <1>2, <2>4, Params
    <3>2. /\ timestamps[k][1] \in Nat /\ timestamps[k][1] <= WindowTicks
          /\ older(k)[1] = Older(timestamps[k][1])
      BY <1>2, <3>1
    <3>3. timestamps[k][1] + promise[k] >= WindowTicks
      <4>1. promise[k] # NoPromise
        BY <2>1 DEF NoPromise
      <4> QED
        BY <2>4, <4>1 DEF RateInv, Promised
    <3>4. Older(timestamps[k][1]) + promise'[k] >= WindowTicks
      BY <2>1, <3>2, <3>3, Params DEF Older
    <3> QED
      BY <2>2, <3>2, <3>4
  <2> QED
    BY <2>3, <2>4
<1> QED
  BY <1>5, <1>6, <1>7, <1>8 DEF RateInv
-----------------------------------------------------------------------------
LEMMA RateInvInvariant == Spec => []RateInv
<1>1. ASSUME RateInv, [Next]_vars PROVE RateInv'
  <2>1. CASE Next
    BY <1>1, <2>1, StepAccept, StepRefuse, StepTick DEF Next
  <2>2. CASE UNCHANGED vars
    BY <1>1, <2>2 DEF vars, RateInv, RateTypes, Agree, Limited, Promised
  <2> QED
    BY <1>1, <2>1, <2>2
<1> QED
  BY <1>1, RateInit, PTL DEF Spec

\* What the invariant says of a key at the boundary of the window.
LEMMA KeyCounts ==
    ASSUME RateInv, NEW k \in Keys
    PROVE  /\ Len(Cleaned(timestamps[k])) = InWindow(k)
           /\ Len(Cleaned(timestamps[k])) \in Nat
           /\ Len(Cleaned(timestamps[k])) <= Len(timestamps[k])
           /\ Len(timestamps[k]) \in Nat /\ Len(timestamps[k]) <= MaxOf(k)
<1>1. /\ timestamps[k] \in Seq(Nat) /\ k[1] \in Clients
      /\ accepted[k[1]] \in Seq(Requests)
      /\ \A i \in 1..Len(accepted[k[1]]) : accepted[k[1]][i].age < WindowTicks
  BY KeyTypes DEF RateInv, RateTypes
<1>2. /\ Len(Cleaned(timestamps[k])) = Counted(timestamps[k], Ages(WindowTicks))
      /\ Len(Cleaned(timestamps[k])) \in Nat
      /\ Len(Cleaned(timestamps[k])) <= Len(timestamps[k])
  BY <1>1, CleanedFacts
<1>3. Counted(timestamps[k], Ages(WindowTicks))
         = Counted(accepted[k[1]], Young(k, WindowTicks))
  <2>1. WindowTicks \in 0..WindowTicks
    BY Params
  <2> QED
    BY <2>1 DEF RateInv, Agree
<1>4. {i \in 1..Len(accepted[k[1]]) : accepted[k[1]][i] \in Young(k, WindowTicks)} =
         {i \in DOMAIN accepted[k[1]] : KeyOf(k[1], accepted[k[1]][i].route) = k}
  BY <1>1 DEF Young
<1>5. InWindow(k) = Counted(accepted[k[1]], Young(k, WindowTicks))
  BY <1>4 DEF InWindow, Counted
<1> QED
  BY <1>1, <1>2, <1>3, <1>5 DEF RateInv, Limited

\* The list of a key counts exactly the requests let through in the window,
\* for any clients, routes, rules and limits and any length of the window.
THEOREM CountsAreExact == Spec => []CountsExactly
<1>1. RateInv => CountsExactly
  BY KeyCounts DEF CountsExactly
<1> QED
  BY <1>1, RateInvInvariant, PTL

\* No client gets more than max_requests through in any window, on a route
\* with a rule of its own or on the others together.
THEOREM WindowsBounded == Spec => []WindowBound
<1>1. RateInv => WindowBound
  <2> SUFFICES ASSUME RateInv, NEW c \in Clients
               PROVE  /\ \A r \in RuledRoutes :
                           Cardinality({i \in DOMAIN accepted[c] :
                                           accepted[c][i].route = r}) <= OwnMax
                      /\ Cardinality({i \in DOMAIN accepted[c] :
                                         accepted[c][i].route \notin RuledRoutes}) <= DefaultMax
    BY DEF WindowBound
  <2>1. Default \notin RuledRoutes /\ RuledRoutes \subseteq Routes
    BY RateAssumption
  <2>2. ASSUME NEW k \in Keys PROVE InWindow(k) <= MaxOf(k)
    <3>1. /\ Len(Cleaned(timestamps[k])) = InWindow(k)
          /\ Len(Cleaned(timestamps[k])) \in Nat
          /\ Len(Cleaned(timestamps[k])) <= Len(timestamps[k])
          /\ Len(timestamps[k]) \in Nat /\ Len(timestamps[k]) <= MaxOf(k)
      BY KeyCounts
    <3> QED
      BY <3>1, Params
  <2>3. ASSUME NEW r \in RuledRoutes
        PROVE  Cardinality({i \in DOMAIN accepted[c] : accepted[c][i].route = r}) <= OwnMax
    <3>1. <<c, r>> \in Keys /\ MaxOf(<<c, r>>) = OwnMax
      BY <2>1 DEF Keys, MaxOf
    <3>2. \A s : KeyOf(c, s) = <<c, r>> <=> s = r
      BY <2>1 DEF KeyOf
    <3>3. {i \in DOMAIN accepted[c] : KeyOf(c, accepted[c][i].route) = <<c, r>>} =
             {i \in DOMAIN accepted[c] : accepted[c][i].route = r}
      BY <3>2
    <3>4. InWindow(<<c, r>>) =
             Cardinality({i \in DOMAIN accepted[c] : accepted[c][i].route = r})
      BY <3>3 DEF InWindow
    <3> QED
      BY <2>2, <3>1, <3>4
  <2>4. Cardinality({i \in DOMAIN accepted[c] : accepted[c][i].route \notin RuledRoutes})
           <= DefaultMax
    <3>1. <<c, Default>> \in Keys /\ MaxOf(<<c, Default>>) = DefaultMax
      BY DEF Keys, MaxOf
    <3>2. \A s : KeyOf(c, s) = <<c, Default>> <=> s \notin RuledRoutes
      BY <2>1 DEF KeyOf
    <3>3. {i \in DOMAIN accepted[c] : KeyOf(c, accepted[c][i].route) = <<c, Default>>} =
             {i \in DOMAIN accepted[c] : accepted[c][i].route \notin RuledRoutes}
      BY <3>2
    <3>4. InWindow(<<c, Default>>) =
             Cardinality({i \in DOMAIN accepted[c] : accepted[c][i].route \notin RuledRoutes})
      BY <3>3 DEF InWindow
    <3> QED
      BY <2>2, <3>1, <3>4
  <2> QED
    BY <2>3, <2>4
<1> QED
  BY <1>1, RateInvInvariant, PTL

\* Who waits as long as the earliest Retry-After said, and gets nothing
\* through meanwhile, is let through, for any resolution of the clock.
THEOREM PromisesKept == Spec => []RetryAfterHonest
<1>1. RateInv => RetryAfterHonest
  <2> SUFFICES ASSUME RateInv, NEW k \in Keys, promise[k] = 0
               PROVE  Len(Cleaned(timestamps[k])) < MaxOf(k)
    BY DEF RetryAfterHonest
  <2>1. /\ Len(Cleaned(timestamps[k])) \in Nat /\ Len(timestamps[k]) \in Nat
        /\ Len(Cleaned(timestamps[k])) <= Len(timestamps[k])
        /\ Len(timestamps[k]) <= MaxOf(k)
    BY KeyCounts
  <2>2. CASE Len(timestamps[k]) < MaxOf(k)
    BY <2>1, <2>2, Params
  <2>3. CASE ~(Len(timestamps[k]) < MaxOf(k))
    <3>1. timestamps[k] \in Seq(Nat) /\ 1 \in 1..Len(timestamps[k])
      BY <2>1, <2>3, Params DEF RateInv, RateTypes
    <3>2. timestamps[k][1] >= WindowTicks /\ timestamps[k][1] \in Nat
      <4>1. promise[k] # NoPromise
        BY DEF NoPromise
      <4>2. timestamps[k][1] + 0 >= WindowTicks
        BY <2>3, <4>1 DEF RateInv, Promised
      <4> QED
        BY <3>1, <4>2
    <3>3. timestamps[k][1] \notin Ages(WindowTicks)
      BY <3>2, Params DEF Ages
    <3>4. Len(Cleaned(timestamps[k])) # Len(timestamps[k])
      <4>1. Counted(timestamps[k], Ages(WindowTicks)) # Len(timestamps[k])
        BY <3>1, <3>3, CountedBounds
      <4> QED
        BY <3>1, <4>1, CleanedFacts
    <3> QED
      BY <2>1, <3>4, Params
  <2> QED
    BY <2>2, <2>3
<1> QED
  BY <1>1, RateInvInvariant, PTL
=============================================================================
