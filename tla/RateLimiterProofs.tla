-------------------------- MODULE RateLimiterProofs --------------------------
(***************************************************************************)
(* The bound on what the rate limiter admits and the ground for what it    *)
(* refuses, proved for any number of requests, routes, limits and changes  *)
(* of policy.                                                              *)
(***************************************************************************)
EXTENDS RateLimiter, TLAPS

----------------------------------------------------------------------------
(* The inductive invariant. *)

\* A request that has matched a route carries its name and limit, and what it
\* read of the clock has passed.
Pinned(k) ==
    /\ k.pc # "idle" => k.route \in Routes /\ k.limit \in Limits
    /\ k.pc = "decide" => k.now <= clock

\* The window of counter c is at least the (n + 1)-th, n of the shortest windows
\* after the start of time, and so many windows admit no more than this.
Bounded(c, r) ==
    \E n \in Nat : /\ n * MinWindow <= c.started
                 /\ Len(admitted[r]) <= n * MaxRequests + c.count

\* What c counts has been admitted since its window started.
Covered(c, r) ==
    /\ c.started <= clock
    /\ c.count <= Len(admitted[r])
    /\ \A i \in 1..Len(admitted[r]) :
          Len(admitted[r]) - c.count < i => c.started <= admitted[r][i]

LimiterInv ==
    /\ TypeOK
    /\ \A q \in Requests : Pinned(request[q])
    /\ \A r \in DOMAIN counters : Bounded(counters[r], r) /\ Covered(counters[r], r)
    /\ \A r \in Routes \ DOMAIN counters : Len(admitted[r]) = 0

----------------------------------------------------------------------------
(* Arithmetic. *)

LEMMA OneMore ==
    ASSUME NEW a \in Nat, NEW b \in Nat
    PROVE  (a + 1) * b = a * b + b /\ a * b \in Nat
OBVIOUS

LEMMA Monotone ==
    ASSUME NEW a \in Nat, NEW b \in Nat, NEW m \in Nat, a <= b
    PROVE  m * a <= m * b
OBVIOUS

LEMMA LastOnes ==
    ASSUME NEW m \in Nat \ {0}, NEW b \in Nat, NEW l \in Nat, m <= b, b <= l
    PROVE  l - m + 1 \in 1..l /\ l - b < l - m + 1
OBVIOUS

LEMMA Quotient ==
    ASSUME NEW n \in Nat, NEW w \in Nat \ {0}, NEW c \in Nat, n * w <= c
    PROVE  n <= c \div w /\ c \div w \in Nat
OBVIOUS

----------------------------------------------------------------------------
(* The window a request falls in. *)

\* With a reading that has passed and a limit in use, the counter the request
\* looks at is in the bounds, be it a new one, the route's, or a new window.
LEMMA WindowBudget ==
    ASSUME LimiterInv, NEW r \in Routes, NEW now \in Nat, NEW limit \in Limits,
           now <= clock
    PROVE  LET c == WindowAt(Counter(r, now), now, limit) IN
           c \in WindowCounter /\ Bounded(c, r) /\ Covered(c, r)
<1> DEFINE c == WindowAt(Counter(r, now), now, limit)
<1>0. /\ limit.window \in Nat \ {0} /\ MinWindow <= limit.window
      /\ MinWindow \in Nat \ {0} /\ MaxRequests \in Nat /\ clock \in Nat
      /\ Len(admitted[r]) \in Nat
  BY LimitAssumption DEF LimiterInv, TypeOK
<1>1. ASSUME c = [started |-> now, count |-> 0]
      PROVE  c \in WindowCounter /\ Covered(c, r)
  BY <1>0, <1>1 DEF WindowCounter, Covered
<1>2. CASE r \notin DOMAIN counters
  <2>1. c = [started |-> now, count |-> 0]
    BY <1>2 DEF Counter, WindowAt
  <2>2. 0 * MinWindow <= c.started /\ Len(admitted[r]) <= 0 * MaxRequests + c.count
    BY <1>0, <1>2, <2>1 DEF LimiterInv
  <2>3. Bounded(c, r)
    BY <2>2 DEF Bounded
  <2> QED
    BY <1>1, <2>1, <2>3
<1>3. CASE r \in DOMAIN counters
  <2> DEFINE d == counters[r]
  <2>1. /\ d \in WindowCounter /\ Bounded(d, r) /\ Covered(d, r) /\ Counter(r, now) = d
        /\ d.started \in Nat /\ d.count \in Nat /\ d.count <= MaxRequests
    BY <1>0, <1>3 DEF LimiterInv, TypeOK, WindowCounter, Counter
  <2>2. CASE DurationSince(now, d.started) >= limit.window
    <3>1. c = [started |-> now, count |-> 0]
      BY <2>1, <2>2 DEF WindowAt
    <3>2. d.started + MinWindow <= now
      BY <1>0, <2>1, <2>2 DEF DurationSince
    <3>3. PICK n \in Nat : /\ n * MinWindow <= d.started
                           /\ Len(admitted[r]) <= n * MaxRequests + d.count
      BY <2>1 DEF Bounded
    <3>4. /\ (n + 1) * MinWindow = n * MinWindow + MinWindow /\ n * MinWindow \in Nat
          /\ (n + 1) * MaxRequests = n * MaxRequests + MaxRequests
          /\ n * MaxRequests \in Nat /\ n + 1 \in Nat
      BY <1>0, OneMore
    <3>5. (n + 1) * MinWindow <= now
      BY <1>0, <2>1, <3>2, <3>3, <3>4
    <3>6. Len(admitted[r]) <= (n + 1) * MaxRequests + 0
      <4>1. ASSUME NEW x \in Nat, NEW y, y = x + MaxRequests, Len(admitted[r]) <= x + d.count
            PROVE  Len(admitted[r]) <= y + 0
        BY <1>0, <2>1, <4>1
      <4> QED
        BY <3>3, <3>4, <4>1
    <3>7. Bounded(c, r)
      BY <3>1, <3>4, <3>5, <3>6 DEF Bounded
    <3> QED
      BY <1>1, <3>1, <3>7
  <2>3. CASE ~(DurationSince(now, d.started) >= limit.window)
    BY <2>1, <2>3 DEF WindowAt
  <2> QED
    BY <2>2, <2>3
<1> QED
  BY <1>2, <1>3

\* Letting one more request through now keeps a counter in the bounds.
LEMMA OneMoreAdmitted ==
    ASSUME NEW r \in Routes, admitted \in [Routes -> Seq(Nat)], clock \in Nat,
           MaxRequests \in Nat, NEW c \in WindowCounter, c.count < MaxRequests,
           Bounded(c, r), Covered(c, r), UNCHANGED clock,
           admitted' = [admitted EXCEPT ![r] = Append(@, clock)],
           NEW e, e = [c EXCEPT !.count = @ + 1]
    PROVE  /\ e \in WindowCounter
           /\ \E n \in Nat : /\ n * MinWindow <= e.started
                             /\ Len(admitted'[r]) <= n * MaxRequests + e.count
           /\ e.started <= clock /\ e.count <= Len(admitted'[r])
           /\ \A i \in 1..Len(admitted'[r]) :
                 Len(admitted'[r]) - e.count < i => e.started <= admitted'[r][i]
<1> DEFINE L == Len(admitted[r])
<1>1. /\ c.started \in Nat /\ c.count \in Nat /\ e.started = c.started
      /\ e.count = c.count + 1
  BY DEF WindowCounter
<1>2. /\ L \in Nat /\ Len(admitted'[r]) = L + 1
      /\ \A i \in 1..L : admitted'[r][i] = admitted[r][i]
      /\ admitted'[r][L + 1] = clock
  BY DEF Covered
<1>3. e \in WindowCounter
  <2>1. PICK a \in Nat, b \in 0..MaxRequests : c = [started |-> a, count |-> b]
    BY DEF WindowCounter
  <2>2. e = [started |-> a, count |-> b + 1]
    BY <2>1
  <2>3. b + 1 \in 0..MaxRequests
    BY <1>1, <2>1
  <2>4. \A x \in Nat, y \in 0..MaxRequests : [started |-> x, count |-> y] \in WindowCounter
    BY DEF WindowCounter
  <2>. QED  BY <2>2, <2>3, <2>4, Zenon
<1>4. \E n \in Nat : /\ n * MinWindow <= e.started
                     /\ Len(admitted'[r]) <= n * MaxRequests + e.count
  <2>1. PICK n \in Nat : n * MinWindow <= c.started /\ L <= n * MaxRequests + c.count
    BY DEF Bounded
  <2>2. n * MaxRequests \in Nat
    BY OneMore
  <2>3. L + 1 <= n * MaxRequests + e.count
    BY <1>1, <1>2, <2>1, <2>2
  <2> QED
    BY <1>1, <1>2, <2>1, <2>3
<1>5. ASSUME NEW i \in 1..(L + 1), (L + 1) - e.count < i
      PROVE  e.started <= admitted'[r][i]
  <2>1. CASE i = L + 1
    BY <1>1, <1>2, <2>1 DEF Covered
  <2>2. CASE i # L + 1
    <3>1. i \in 1..L /\ L - c.count < i
      BY <1>1, <1>2, <1>5, <2>2
    <3> QED
      BY <1>1, <1>2, <3>1 DEF Covered
  <2> QED
    BY <2>1, <2>2
<1>6. e.started <= clock /\ e.count <= L + 1
  BY <1>1, <1>2 DEF Covered
<1> QED
  BY <1>2, <1>3, <1>4, <1>5, <1>6

----------------------------------------------------------------------------
(* Every step keeps the invariant. *)

LEMMA InitLimiter == Init => LimiterInv
<1> SUFFICES ASSUME Init PROVE LimiterInv
  OBVIOUS
<1>1. TypeOK
  BY DEF Init, TypeOK, Request, Idle
<1>2. \A q \in Requests : Pinned(request[q])
  BY DEF Init, Pinned, Idle
<1> QED
  BY <1>1, <1>2 DEF Init, LimiterInv

\* The facts a deciding request starts from.
LEMMA Deciding ==
    ASSUME LimiterInv, NEW q \in Requests, request[q].pc = "decide"
    PROVE  LET k == request[q]
               c == WindowAt(Counter(k.route, k.now), k.now, k.limit)
           IN /\ k \in Request /\ k.route \in Routes /\ k.limit \in Limits
              /\ k.now \in Nat /\ k.now <= clock /\ clock \in Nat
              /\ k.limit.requests \in Nat \ {0} /\ k.limit.requests <= MaxRequests
              /\ k.limit.window \in Nat \ {0}
              /\ MaxRequests \in Nat
              /\ c \in WindowCounter /\ Bounded(c, k.route) /\ Covered(c, k.route)
<1> DEFINE k == request[q]
<1>1. /\ k \in Request /\ k.route \in Routes /\ k.limit \in Limits
      /\ k.now \in Nat /\ k.now <= clock /\ clock \in Nat
      /\ k.limit.requests \in Nat \ {0} /\ k.limit.requests <= MaxRequests
      /\ k.limit.window \in Nat \ {0}
      /\ MaxRequests \in Nat
  BY LimitAssumption DEF LimiterInv, TypeOK, Pinned, Request
<1> QED
  BY <1>1, WindowBudget

LEMMA DecideStep ==
    ASSUME LimiterInv, NEW q \in Requests, Decide(q)
    PROVE  LimiterInv'
<1> DEFINE k == request[q]
<1>r. PICK r : r = k.route
  OBVIOUS
<1>c. PICK c : c = WindowAt(Counter(r, k.now), k.now, k.limit)
  OBVIOUS
<1> DEFINE d == [c EXCEPT !.count = @ + 1]
<1>0. /\ r \in Routes /\ k.limit \in Limits
      /\ k.limit.requests \in Nat /\ k.limit.requests <= MaxRequests /\ MaxRequests \in Nat
      /\ c \in WindowCounter /\ Bounded(c, r) /\ Covered(c, r)
      /\ UNCHANGED <<clock, policies>> /\ clock \in Nat
      /\ admitted \in [Routes -> Seq(Nat)]
      /\ DOMAIN counters \subseteq Routes /\ counters \in [DOMAIN counters -> WindowCounter]
  BY <1>r, <1>c, Deciding DEF Decide, LimiterInv, TypeOK
<1>d. IF Exhausted(c, k.limit)
      THEN StoreCounter(r, c) /\ UNCHANGED admitted
      ELSE StoreCounter(r, d) /\ admitted' = [admitted EXCEPT ![r] = Append(@, clock)]
  BY <1>r, <1>c DEF Decide
<1>1. /\ request' \in [Requests -> Request]
      /\ \A p \in Requests : Pinned(request[p])'
  <2>1. Idle \in Request
    BY DEF Idle, Request
  <2>2. request' = [request EXCEPT ![q] = Idle]
    BY DEF Decide
  <2> QED
    BY <1>0, <2>1, <2>2 DEF LimiterInv, TypeOK, Pinned, Idle
\* What the other routes have is left alone.
<1>2. ASSUME NEW e \in WindowCounter, StoreCounter(r, e),
             admitted' \in [Routes -> Seq(Nat)],
             \A s \in Routes : s # r => admitted'[s] = admitted[s],
             Bounded(counters[r], r)', Covered(counters[r], r)'
      PROVE  LimiterInv'
  <2>1. /\ DOMAIN counters' = DOMAIN counters \cup {r}
        /\ counters'[r] = e
        /\ \A s \in DOMAIN counters : s # r => counters'[s] = counters[s]
        /\ counters' \in [DOMAIN counters' -> WindowCounter]
    BY <1>0, <1>2 DEF StoreCounter
  <2>2. TypeOK'
    BY <1>0, <1>1, <1>2, <2>1 DEF LimiterInv, TypeOK
  <2>3. ASSUME NEW s \in DOMAIN counters'
        PROVE  (Bounded(counters[s], s) /\ Covered(counters[s], s))'
    <3>1. CASE s = r
      BY <1>2, <3>1
    <3>2. CASE s # r
      <4>1. /\ s \in DOMAIN counters /\ counters'[s] = counters[s]
            /\ s \in Routes /\ admitted'[s] = admitted[s]
        BY <1>0, <1>2, <2>1, <2>3, <3>2
      <4> QED
        BY <1>0, <4>1 DEF LimiterInv, Bounded, Covered
    <3> QED
      BY <3>1, <3>2
  <2>4. ASSUME NEW s \in Routes \ DOMAIN counters' PROVE Len(admitted'[s]) = 0
    BY <1>2, <2>1, <2>4 DEF LimiterInv
  <2> QED
    BY <1>1, <2>2, <2>3, <2>4 DEF LimiterInv
<1>3. ASSUME NEW e, StoreCounter(r, e) PROVE counters'[r] = e
  BY <1>3 DEF StoreCounter
<1>4. CASE Exhausted(c, k.limit)
  <2>1. StoreCounter(r, c) /\ UNCHANGED admitted
    BY <1>4, <1>d
  <2>2. Bounded(counters[r], r)' /\ Covered(counters[r], r)'
    BY <1>0, <1>3, <2>1 DEF Bounded, Covered
  <2> QED
    BY <1>0, <1>2, <2>1, <2>2
<1>5. CASE ~Exhausted(c, k.limit)
  <2>1. StoreCounter(r, d) /\ admitted' = [admitted EXCEPT ![r] = Append(@, clock)]
    BY <1>5, <1>d
  <2>2. c.count < MaxRequests
    BY <1>0, <1>5 DEF Exhausted, WindowCounter
  <2>3. counters'[r] = d
    BY <1>3, <2>1
  <2>4. d \in WindowCounter /\ Bounded(counters[r], r)' /\ Covered(counters[r], r)'
    BY <1>0, <2>1, <2>2, <2>3, OneMoreAdmitted DEF Bounded, Covered
  <2>5. /\ admitted' \in [Routes -> Seq(Nat)]
        /\ \A s \in Routes : s # r => admitted'[s] = admitted[s]
    BY <1>0, <2>1
  <2> QED
    BY <1>2, <2>1, <2>4, <2>5
<1> QED
  BY <1>4, <1>5

LEMMA NextLimiter == LimiterInv /\ [Next]_vars => LimiterInv'
<1> SUFFICES ASSUME LimiterInv, [Next]_vars PROVE LimiterInv'
  OBVIOUS
<1>1. CASE Tick
  <2>1. /\ clock \in Nat /\ clock' = clock + 1
        /\ UNCHANGED <<policies, counters, request, admitted>>
    BY <1>1 DEF Tick, LimiterInv, TypeOK
  <2>2. TypeOK'
    BY <2>1 DEF LimiterInv, TypeOK
  <2>3. \A q \in Requests : Pinned(request[q])'
    <3>1. \A q \in Requests : request[q].now \in Nat
      BY DEF LimiterInv, TypeOK, Request
    <3> QED
      BY <2>1, <3>1 DEF LimiterInv, Pinned
  <2>4. ASSUME NEW r \in DOMAIN counters
        PROVE  (Bounded(counters[r], r) /\ Covered(counters[r], r))'
    <3>1. counters[r].started \in Nat
      BY DEF LimiterInv, TypeOK, WindowCounter
    <3> QED
      BY <2>1, <3>1 DEF LimiterInv, Bounded, Covered
  <2> QED
    BY <2>1, <2>2, <2>3, <2>4 DEF LimiterInv
<1>2. CASE ApplyPolicies
  BY <1>2 DEF ApplyPolicies, LimiterInv, TypeOK, Pinned, Bounded, Covered
<1>3. ASSUME NEW q \in Requests, NEW r \in Routes, Match(q, r)
      PROVE  LimiterInv'
  <2> DEFINE k == [pc |-> "clock", route |-> r, limit |-> policies[r], now |-> 0]
  <2>1. /\ request' = [request EXCEPT ![q] = k]
        /\ UNCHANGED <<clock, policies, counters, admitted>>
        /\ policies[r] \in Limits
    BY <1>3 DEF Match, LimiterInv, TypeOK
  <2>2. k \in Request /\ k.route \in Routes /\ k.limit \in Limits /\ k.pc = "clock"
    BY <2>1 DEF Request
  <2> HIDE DEF k
  <2>3. /\ request' \in [Requests -> Request]
        /\ \A p \in Requests : Pinned(request[p])'
    BY <2>1, <2>2 DEF LimiterInv, TypeOK, Pinned
  <2> QED
    BY <2>1, <2>3 DEF LimiterInv, TypeOK, Bounded, Covered
<1>4. ASSUME NEW q \in Requests, ReadClock(q)
      PROVE  LimiterInv'
  <2> DEFINE k == [request[q] EXCEPT !.pc = "decide", !.now = clock]
  <2>1. /\ request' = [request EXCEPT ![q] = k]
        /\ UNCHANGED <<clock, policies, counters, admitted>>
        /\ request[q].pc = "clock" /\ request[q] \in Request /\ clock \in Nat
        /\ request[q].route \in Routes /\ request[q].limit \in Limits
    BY <1>4 DEF ReadClock, LimiterInv, TypeOK, Pinned
  <2>2. k \in Request /\ k.route \in Routes /\ k.limit \in Limits /\ k.now = clock
    BY <2>1 DEF Request
  <2> HIDE DEF k
  <2>3. clock <= clock
    BY <2>1
  <2>4. /\ request' \in [Requests -> Request]
        /\ \A p \in Requests : Pinned(request[p])'
    BY <2>1, <2>2, <2>3 DEF LimiterInv, TypeOK, Pinned
  <2> QED
    BY <2>1, <2>4 DEF LimiterInv, TypeOK, Bounded, Covered
<1>5. CASE UNCHANGED vars
  BY <1>5 DEF vars, LimiterInv, TypeOK, Pinned, Bounded, Covered
<1> QED
  BY <1>1, <1>2, <1>3, <1>4, <1>5, DecideStep DEF Next

----------------------------------------------------------------------------
(* Theorems. *)

THEOREM LimiterInvariant == Spec => []LimiterInv
BY InitLimiter, NextLimiter, PTL DEF Spec

\* Every variable keeps its type, and no counter exceeds the largest limit.
THEOREM LimiterTyped == Spec => []TypeOK
<1>1. LimiterInv => TypeOK
  BY DEF LimiterInv
<1> QED
  BY <1>1, LimiterInvariant, PTL

\* A route never admits more than its largest limit in each of the shortest
\* windows that have begun, whatever the readings, the policies and their
\* replacement.
THEOREM AdmissionBounded == Spec => []AdmissionBound
<1>1. LimiterInv => AdmissionBound
  <2> SUFFICES ASSUME LimiterInv, NEW r \in Routes
               PROVE  Len(admitted[r]) <= MaxRequests * (1 + clock \div MinWindow)
    BY DEF AdmissionBound
  <2> DEFINE w == clock \div MinWindow
  <2>0. MaxRequests \in Nat /\ MinWindow \in Nat \ {0} /\ clock \in Nat
    BY LimitAssumption DEF LimiterInv, TypeOK
  <2>1. CASE r \notin DOMAIN counters
    <3>1. w \in Nat
      BY <2>0, Quotient
    <3>2. MaxRequests * (1 + w) \in Nat
      BY <2>0, <3>1
    <3> QED
      BY <2>1, <3>2 DEF LimiterInv
  <2>2. CASE r \in DOMAIN counters
    <3>1. PICK n \in Nat : /\ n * MinWindow <= counters[r].started
                           /\ Len(admitted[r]) <= n * MaxRequests + counters[r].count
      BY <2>2 DEF LimiterInv, Bounded
    <3>2. /\ counters[r].started \in Nat /\ counters[r].started <= clock
          /\ counters[r].count \in Nat /\ counters[r].count <= MaxRequests
      BY <2>0, <2>2 DEF LimiterInv, TypeOK, WindowCounter, Covered
    <3>3. n <= w /\ w \in Nat
      <4>1. n * MinWindow \in Nat /\ n * MinWindow <= clock
        BY <2>0, <3>1, <3>2, OneMore
      <4> QED
        BY <2>0, <4>1, Quotient
    <3> HIDE DEF w
    <3>4. MaxRequests * (1 + n) <= MaxRequests * (1 + w)
      BY <2>0, <3>3, Monotone
    <3>5. Len(admitted[r]) <= MaxRequests * (1 + n)
      <4>1. (n + 1) * MaxRequests = n * MaxRequests + MaxRequests /\ n * MaxRequests \in Nat
        BY <2>0, OneMore
      <4>2. MaxRequests * (1 + n) = (n + 1) * MaxRequests
        BY <2>0
      <4>3. Len(admitted[r]) \in Nat
        BY DEF LimiterInv, TypeOK
      <4> QED
        BY <2>0, <3>1, <3>2, <4>1, <4>2, <4>3
    <3>6. /\ Len(admitted[r]) \in Nat /\ MaxRequests * (1 + n) \in Nat
          /\ MaxRequests * (1 + w) \in Nat
      BY <2>0, <3>3 DEF LimiterInv, TypeOK
    <3> QED
      BY <3>4, <3>5, <3>6 DEF w
  <2> QED
    BY <2>1, <2>2
<1> QED
  BY <1>1, LimiterInvariant, PTL

\* A request is refused only when as many requests as its limit grants have been
\* admitted on its route less than a window before it read the clock.
LEMMA RefusalStep ==
    ASSUME LimiterInv, [Next]_vars, NEW q \in Requests, Refuses(q)
    PROVE  LET k == request[q]
               times == admitted[k.route]
               first == Len(times) - k.limit.requests + 1
           IN first >= 1 /\ k.now < times[first] + k.limit.window
<1> DEFINE k == request[q]
           r == k.route
           c == WindowAt(Counter(r, k.now), k.now, k.limit)
           times == admitted[r]
           first == Len(times) - k.limit.requests + 1
<1>0. k.pc = "decide" /\ k \in Request
  BY DEF Refuses, LimiterInv, TypeOK
<1>1. /\ r \in Routes /\ k.limit \in Limits /\ k.now \in Nat
      /\ k.limit.requests \in Nat \ {0} /\ k.limit.window \in Nat \ {0}
      /\ c \in WindowCounter /\ Covered(c, r)
      /\ times \in Seq(Nat)
  BY <1>0, Deciding DEF LimiterInv, TypeOK
<1>2. Decide(q)
  <2>1. request'[q] # request[q]
    BY DEF Refuses
  <2>2. ~Tick /\ ~ApplyPolicies /\ ~UNCHANGED vars
    BY <2>1 DEF Tick, ApplyPolicies, vars
  <2>3. ASSUME NEW p \in Requests, NEW s \in Routes, Match(p, s) PROVE FALSE
    BY <1>0, <2>3, <2>1 DEF Match, LimiterInv, TypeOK
  <2>4. ASSUME NEW p \in Requests, ReadClock(p) PROVE FALSE
    BY <1>0, <2>1, <2>4 DEF ReadClock, LimiterInv, TypeOK
  <2>5. ASSUME NEW p \in Requests, Decide(p) PROVE p = q
    BY <2>1, <2>5 DEF Decide, LimiterInv, TypeOK
  <2> QED
    BY <2>2, <2>3, <2>4, <2>5 DEF Next
<1>3. Exhausted(c, k.limit)
  <2>1. ASSUME ~Exhausted(c, k.limit) PROVE FALSE
    <3>1. admitted' = [admitted EXCEPT ![r] = Append(@, clock)] /\ UNCHANGED admitted
      BY <1>2, <2>1 DEF Decide, Refuses
    <3>2. times = Append(times, clock)
      BY <1>1, <3>1 DEF LimiterInv, TypeOK
    <3>3. Len(Append(times, clock)) = Len(times) + 1
      BY <1>1, LimiterInv DEF LimiterInv, TypeOK
    <3> QED
      BY <1>1, <3>2, <3>3
  <2> QED
    BY <2>1
<1>4. /\ c.started \in Nat /\ c.count \in Nat /\ k.limit.requests <= c.count
      /\ c.count <= Len(times) /\ Len(times) \in Nat
  BY <1>1, <1>3 DEF Exhausted, WindowCounter, Covered
<1>5. first \in 1..Len(times) /\ Len(times) - c.count < first
  BY <1>1, <1>4, LastOnes
<1>6. c.started <= times[first] /\ times[first] \in Nat
  <2> HIDE DEF c, first
  <2> QED
    BY <1>1, <1>5 DEF Covered
<1>7. k.now < c.started + k.limit.window
  <2> DEFINE b == Counter(r, k.now)
  <2>1. ~(DurationSince(k.now, b.started) >= k.limit.window)
    <3>1. ASSUME DurationSince(k.now, b.started) >= k.limit.window PROVE c.count = 0
      BY <3>1 DEF WindowAt
    <3> QED
      BY <1>1, <1>4, <3>1
  <2>2. c = b
    BY <2>1 DEF WindowAt
  <2> HIDE DEF b, c
  <2> QED
    BY <1>1, <1>4, <2>1, <2>2 DEF DurationSince
<1> HIDE DEF c, times, first
<1>8. k.now < times[first] + k.limit.window
  BY <1>1, <1>4, <1>6, <1>7
<1>9. first >= 1
  BY <1>5
<1> QED
  BY <1>8, <1>9 DEF times, first

THEOREM RefusalsJustified == Spec => RefusalJustified
<1>1. LimiterInv /\ [Next]_vars =>
        [\A q \in Requests : Refuses(q) =>
           LET k == request[q]
               times == admitted[k.route]
               first == Len(times) - k.limit.requests + 1
           IN first >= 1 /\ k.now < times[first] + k.limit.window]_vars
  BY RefusalStep
<1> QED
  BY <1>1, LimiterInvariant, PTL DEF Spec, RefusalJustified
=============================================================================
