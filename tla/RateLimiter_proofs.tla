------------------------- MODULE RateLimiter_proofs -------------------------
(***************************************************************************)
(* Proofs about RateLimiter, for any number of requests, addresses and     *)
(* attempts, any window and any delay between the clock and the lock.      *)
(***************************************************************************)
EXTENDS RateLimiter, Comprehension_proofs

InWindow(timestamps, now) ==
    {k \in DOMAIN timestamps : now - timestamps[k] < WINDOW_SECONDS}

LEMMA Numbers ==
  /\ MAX_ATTEMPTS \in Nat /\ MAX_ATTEMPTS > 0
  /\ WINDOW_SECONDS \in Nat /\ MaxDelay \in Nat /\ MaxTime \in Nat
  /\ \A t \in Times : t \in Nat
  BY RateLimiterAssumption DEF Times

-----------------------------------------------------------------------------
(* Type correctness *)

LEMMA CleanType ==
  ASSUME NEW timestamps \in Seq(Times), NEW now
  PROVE  /\ _clean_old_timestamps(timestamps, now) \in Seq(Times)
         /\ Len(_clean_old_timestamps(timestamps, now)) = Cardinality(InWindow(timestamps, now))
<1> DEFINE kept == InWindow(timestamps, now)
<1>1. _clean_old_timestamps(timestamps, now) = ItemsAt(timestamps, kept)
  BY DEF _clean_old_timestamps, InWindow
<1>2. kept \in SUBSET DOMAIN timestamps
  BY DEF InWindow
<1> HIDE DEF kept
<1>3. /\ ItemsAt(timestamps, kept) \in Seq(Times)
      /\ Len(ItemsAt(timestamps, kept)) = Cardinality(kept)
  BY <1>2, ItemsStay
<1> QED
  BY <1>1, <1>3 DEF kept

(* A request in the function has an address and a time.                    *)
LEMMA CallType ==
  ASSUME TypeOK, NEW r \in Requests, call[r] # Idle
  PROVE  call[r].ip \in Ips /\ call[r].now \in Times
  BY DEF TypeOK

LEMMA InitType == Init => TypeOK
<1> SUFFICES ASSUME Init PROVE TypeOK
    OBVIOUS
<1>1. << >> \in Seq(Times)
  OBVIOUS
<1>2. clock \in Times
  BY Numbers DEF Init, Times
<1> QED
  BY <1>1, <1>2 DEF Init, TypeOK

LEMMA StepType == TypeOK /\ [Next]_vars => TypeOK'
<1> SUFFICES ASSUME TypeOK, [Next]_vars
             PROVE  TypeOK'
    OBVIOUS
<1>1. ASSUME NEW r \in Requests, NEW ip \in Ips, ReadClock(r, ip)
      PROVE  TypeOK'
  <2>1. [ip |-> ip, now |-> clock] \in [ip: Ips, now: Times] \cup {Idle}
    BY DEF TypeOK
  <2> QED
    BY <1>1, <2>1 DEF ReadClock, TypeOK
<1>2. ASSUME NEW r \in Requests, Accept(r)
      PROVE  TypeOK'
  <2> DEFINE ip == call[r].ip
             kept == _clean_old_timestamps(_rate_limit_store[ip], call[r].now)
  <2>1. ip \in Ips /\ call[r].now \in Times
    BY <1>2, CallType DEF Accept
  <2>2. _rate_limit_store[ip] \in Seq(Times) /\ accepted[ip] \in Seq(Times) /\ clock \in Times
    BY <2>1 DEF TypeOK
  <2>3. kept \in Seq(Times)
    BY <2>2, CleanType
  <2>4. /\ _rate_limit_store' = [_rate_limit_store EXCEPT ![ip] = Append(kept, call[r].now)]
        /\ accepted' = [accepted EXCEPT ![ip] = Append(accepted[ip], clock)]
        /\ call' = [call EXCEPT ![r] = Idle]
        /\ UNCHANGED <<clock, refused>>
    BY <1>2 DEF Accept
  <2> HIDE DEF kept
  <2>5. Append(kept, call[r].now) \in Seq(Times) /\ Append(accepted[ip], clock) \in Seq(Times)
    BY <2>1, <2>2, <2>3
  <2> HIDE DEF ip
  <2> QED
    BY <2>1, <2>4, <2>5 DEF TypeOK
<1>3. ASSUME NEW r \in Requests, Refuse(r)
      PROVE  TypeOK'
  <2> DEFINE ip == call[r].ip
             kept == _clean_old_timestamps(_rate_limit_store[ip], call[r].now)
  <2>1. ip \in Ips /\ call[r].now \in Times
    BY <1>3, CallType DEF Refuse
  <2>2. _rate_limit_store[ip] \in Seq(Times)
    BY <2>1 DEF TypeOK
  <2>3. kept \in Seq(Times)
    BY <2>2, CleanType
  <2>4. /\ _rate_limit_store' = [_rate_limit_store EXCEPT ![ip] = kept]
        /\ refused' = [ip |-> ip, now |-> call[r].now]
        /\ call' = [call EXCEPT ![r] = Idle]
        /\ UNCHANGED <<clock, accepted>>
    BY <1>3 DEF Refuse
  <2> HIDE DEF ip, kept
  <2> QED
    BY <2>1, <2>3, <2>4 DEF TypeOK
<1>4. CASE TimePasses
  BY <1>4, Numbers DEF TimePasses, TypeOK, Times
<1>5. CASE UNCHANGED vars
  BY <1>5 DEF vars, TypeOK
<1> QED
  BY <1>1, <1>2, <1>3, <1>4, <1>5 DEF Next, check_rate_limit

(* The clock, the store and the requests under way keep their types.       *)
THEOREM TypeCorrect == Spec => []TypeOK
  BY InitType, StepType, PTL DEF Spec

-----------------------------------------------------------------------------
(* A store and the log of what it let through *)

(* Each timestamp of the store is that of a request of its own in the log, *)
(* which took the lock up to MaxDelay later; a request that is no longer   *)
(* in the store is out of every window that may still be asked for at t.   *)
Stands(of, store, log, t) ==
    /\ of \in [DOMAIN store -> DOMAIN log]
    /\ \A i, j \in DOMAIN store : of[i] = of[j] => i = j
    /\ \A i \in DOMAIN store : store[i] <= log[of[i]] /\ log[of[i]] <= store[i] + MaxDelay
    /\ \A k \in DOMAIN log :
          (\A i \in DOMAIN store : of[i] # k) => log[k] + WINDOW_SECONDS <= t + MaxDelay

Recorded(store, log, t) == \E of : Stands(of, store, log, t)

(* Cleaning at a time that was read before t keeps the correspondence.     *)
LEMMA CleanRecorded ==
  ASSUME NEW store \in Seq(Times), NEW log \in Seq(Times), NEW t \in Times, NEW now \in Times,
         now <= t, Recorded(store, log, t)
  PROVE  Recorded(_clean_old_timestamps(store, now), log, t)
<1> DEFINE kept == InWindow(store, now)
           after == ItemsAt(store, kept)
<1>1. _clean_old_timestamps(store, now) = after
  BY DEF _clean_old_timestamps, InWindow
<1>2. PICK of : Stands(of, store, log, t)
  BY DEF Recorded
<1>3. kept \in SUBSET DOMAIN store
  BY DEF InWindow
<1>4. \A i \in DOMAIN store : i \notin kept => store[i] + WINDOW_SECONDS <= now
  <2>1. \A i \in DOMAIN store : store[i] \in Times
    OBVIOUS
  <2> QED
    BY <2>1, Numbers DEF InWindow
<1> HIDE DEF kept
<1>5. PICK from \in [DOMAIN after -> kept] :
          /\ \A n \in DOMAIN after : after[n] = store[from[n]]
          /\ \A m, n \in DOMAIN after : from[m] = from[n] => m = n
          /\ \A k \in kept : \E n \in DOMAIN after : from[n] = k
  BY <1>3, Origin
<1> DEFINE ofAfter == [n \in DOMAIN after |-> of[from[n]]]
<1> HIDE DEF after
<1>6. \A n \in DOMAIN after : from[n] \in DOMAIN store
  BY <1>3, <1>5
<1>7. ofAfter \in [DOMAIN after -> DOMAIN log]
  BY <1>2, <1>6 DEF Stands
<1>8. \A m, n \in DOMAIN after : ofAfter[m] = ofAfter[n] => m = n
  BY <1>2, <1>5, <1>6 DEF Stands
<1>9. \A n \in DOMAIN after : after[n] <= log[ofAfter[n]] /\ log[ofAfter[n]] <= after[n] + MaxDelay
  BY <1>2, <1>5, <1>6 DEF Stands
<1>10. ASSUME NEW k \in DOMAIN log, \A n \in DOMAIN after : ofAfter[n] # k
       PROVE  log[k] + WINDOW_SECONDS <= t + MaxDelay
  <2>1. CASE \A i \in DOMAIN store : of[i] # k
    BY <1>2, <2>1 DEF Stands
  <2>2. ASSUME NEW i \in DOMAIN store, of[i] = k
        PROVE  log[k] + WINDOW_SECONDS <= t + MaxDelay
    <3>1. i \notin kept
      BY <1>5, <1>10, <2>2
    <3>2. store[i] + WINDOW_SECONDS <= now
      BY <1>4, <3>1
    <3>3. log[k] <= store[i] + MaxDelay
      BY <1>2, <2>2 DEF Stands
    <3>4. store[i] \in Times /\ log[k] \in Times
      OBVIOUS
    <3> QED
      BY <3>2, <3>3, <3>4, Numbers
  <2> QED
    BY <2>1, <2>2
<1> HIDE DEF ofAfter
<1>11. Stands(ofAfter, after, log, t)
  BY <1>7, <1>8, <1>9, <1>10 DEF Stands
<1> QED
  BY <1>1, <1>11 DEF Recorded

(* A request that is let through is put into both.                         *)
LEMMA AcceptRecorded ==
  ASSUME NEW store \in Seq(Times), NEW log \in Seq(Times), NEW t \in Times, NEW now \in Times,
         now <= t, t <= now + MaxDelay, Recorded(store, log, t)
  PROVE  Recorded(Append(store, now), Append(log, t), t)
<1> DEFINE S == Append(store, now)
           L == Append(log, t)
<1>1. PICK of : Stands(of, store, log, t)
  BY DEF Recorded
<1>2. /\ DOMAIN S = DOMAIN store \cup {Len(store) + 1}
      /\ Len(store) + 1 \notin DOMAIN store
      /\ \A i \in DOMAIN store : S[i] = store[i]
      /\ S[Len(store) + 1] = now
  OBVIOUS
<1>3. /\ DOMAIN L = DOMAIN log \cup {Len(log) + 1}
      /\ Len(log) + 1 \notin DOMAIN log
      /\ \A k \in DOMAIN log : L[k] = log[k]
      /\ L[Len(log) + 1] = t
  OBVIOUS
<1> DEFINE s == Len(store) + 1
           l == Len(log) + 1
           ofS == [i \in DOMAIN S |-> IF i = s THEN l ELSE of[i]]
<1> HIDE DEF S, L, s, l
<1>4. /\ DOMAIN S = DOMAIN store \cup {s} /\ s \notin DOMAIN store
      /\ \A i \in DOMAIN store : S[i] = store[i]
      /\ S[s] = now
  BY <1>2 DEF s
<1>5. /\ DOMAIN L = DOMAIN log \cup {l} /\ l \notin DOMAIN log
      /\ \A k \in DOMAIN log : L[k] = log[k]
      /\ L[l] = t
  BY <1>3 DEF l
<1>6. /\ ofS \in [DOMAIN S -> DOMAIN L] /\ ofS[s] = l
      /\ \A i \in DOMAIN store : ofS[i] = of[i] /\ of[i] \in DOMAIN log
  BY <1>1, <1>4, <1>5 DEF Stands
<1> HIDE DEF ofS
<1>7. \A i, j \in DOMAIN S : ofS[i] = ofS[j] => i = j
  BY <1>1, <1>4, <1>5, <1>6 DEF Stands
<1>8. \A i \in DOMAIN S : S[i] <= L[ofS[i]] /\ L[ofS[i]] <= S[i] + MaxDelay
  BY <1>1, <1>4, <1>5, <1>6 DEF Stands
<1>9. ASSUME NEW k \in DOMAIN L, \A i \in DOMAIN S : ofS[i] # k
      PROVE  L[k] + WINDOW_SECONDS <= t + MaxDelay
  BY <1>1, <1>4, <1>5, <1>6, <1>9 DEF Stands
<1>10. Stands(ofS, S, L, t)
  BY <1>6, <1>7, <1>8, <1>9 DEF Stands
<1> QED
  BY <1>10 DEF Recorded, S, L

-----------------------------------------------------------------------------
(* What is counted *)

(* Where the last MAX_ATTEMPTS of the log are all so recent that a request *)
(* now would be one too many, the store still has them all.                *)
LEMMA FullWhenRecent ==
  ASSUME NEW store \in Seq(Times), NEW log \in Seq(Times), NEW t \in Times, NEW now \in Times,
         now <= t, Recorded(store, log, t), MAX_ATTEMPTS <= Len(log),
         \A k \in Len(log) - MAX_ATTEMPTS + 1 .. Len(log) :
            t + MaxDelay < log[k] + WINDOW_SECONDS
  PROVE  Cardinality(InWindow(store, now)) >= MAX_ATTEMPTS
<1> DEFINE kept == InWindow(store, now)
           first == Len(log) - MAX_ATTEMPTS
           last == 1..MAX_ATTEMPTS
<1>1. PICK of : Stands(of, store, log, t)
  BY DEF Recorded
<1>2. first \in Nat /\ \A m \in last : first + m \in DOMAIN log /\ first + m \in first + 1 .. Len(log)
  BY Numbers
<1>3. \A m \in last : t + MaxDelay < log[first + m] + WINDOW_SECONDS
  BY <1>2
<1> HIDE DEF first
<1>4. \A m \in last : \E i \in kept : of[i] = first + m
  <2> SUFFICES ASSUME NEW m \in last
               PROVE  \E i \in kept : of[i] = first + m
    OBVIOUS
  <2>1. log[first + m] \in Times /\ first + m \in DOMAIN log
    BY <1>2
  <2>2. ~ (log[first + m] + WINDOW_SECONDS <= t + MaxDelay)
    BY <1>3, <2>1, Numbers
  <2>3. PICK i \in DOMAIN store : of[i] = first + m
    BY <1>1, <2>1, <2>2 DEF Stands
  <2>4. log[first + m] <= store[i] + MaxDelay /\ store[i] \in Times
    BY <1>1, <2>3 DEF Stands
  <2>5. now - store[i] < WINDOW_SECONDS
    BY <1>3, <2>1, <2>4, Numbers
  <2> QED
    BY <2>3, <2>5 DEF InWindow
<1> DEFINE place == [m \in last |-> CHOOSE i \in kept : of[i] = first + m]
<1>5. \A m \in last : place[m] \in kept /\ of[place[m]] = first + m
  BY <1>4
<1>6. kept \in SUBSET DOMAIN store
  BY DEF InWindow
<1>7. IsFiniteSet(kept) /\ Cardinality(kept) \in Nat
  BY <1>6, PositionsFinite
<1> HIDE DEF kept
<1>8. place \in [last -> kept]
  BY <1>4
<1> HIDE DEF place
<1>9. \A m, n \in last : place[m] = place[n] => m = n
  BY <1>2, <1>5
<1>10. IsFiniteSet(last) /\ Cardinality(last) = MAX_ATTEMPTS
  BY Numbers, FS_Interval, Z3
<1> HIDE DEF last
<1>11. place \in Injection(last, kept)
  BY <1>8, <1>9 DEF Injection, IsInjective
<1>12. Cardinality(last) <= Cardinality(kept)
  BY <1>7, <1>11, FS_Injection
<1> QED
  BY <1>7, <1>10, <1>12, Numbers DEF kept

(* What the store counts within the window was let through within it.      *)
LEMMA CountedOnce ==
  ASSUME NEW store \in Seq(Times), NEW log \in Seq(Times), NEW t \in Times, NEW now \in Times,
         Recorded(store, log, t)
  PROVE  Cardinality(InWindow(store, now)) <= Cardinality(InWindow(log, now))
<1> DEFINE kept == InWindow(store, now)
           recent == InWindow(log, now)
<1>1. PICK of : Stands(of, store, log, t)
  BY DEF Recorded
<1> DEFINE f == [i \in kept |-> of[i]]
<1>2. \A i \in kept : i \in DOMAIN store /\ of[i] \in recent
  <2> SUFFICES ASSUME NEW i \in kept
               PROVE  i \in DOMAIN store /\ of[i] \in recent
    OBVIOUS
  <2>1. i \in DOMAIN store /\ now - store[i] < WINDOW_SECONDS
    BY DEF InWindow
  <2>2. of[i] \in DOMAIN log /\ store[i] <= log[of[i]]
    BY <1>1, <2>1 DEF Stands
  <2>3. store[i] \in Times /\ log[of[i]] \in Times
    BY <2>1, <2>2
  <2>4. now - log[of[i]] < WINDOW_SECONDS
    BY <2>1, <2>2, <2>3, Numbers
  <2> QED
    BY <2>1, <2>2, <2>4 DEF InWindow
<1>3. recent \in SUBSET DOMAIN log
  BY DEF InWindow
<1>4. IsFiniteSet(recent)
  BY <1>3, PositionsFinite
<1> HIDE DEF kept, recent
<1>5. f \in Injection(kept, recent)
  BY <1>1, <1>2 DEF Stands, Injection, IsInjective
<1> HIDE DEF f
<1>6. Cardinality(kept) <= Cardinality(recent)
  BY <1>4, <1>5, FS_Injection
<1> QED
  BY <1>6 DEF kept, recent

-----------------------------------------------------------------------------
(* The inductive invariant *)

(* Nobody read the clock more than MaxDelay ago.                           *)
ReadLately == \A r \in Requests :
    call[r] # Idle => call[r].now <= clock /\ clock <= call[r].now + MaxDelay

Ordered(log, t) ==
    /\ \A k \in DOMAIN log : log[k] <= t
    /\ \A j, k \in DOMAIN log : j <= k => log[j] <= log[k]
Spaced(log) ==
    \A k \in DOMAIN log : k > MAX_ATTEMPTS =>
        log[k] - log[k - MAX_ATTEMPTS] >= WINDOW_SECONDS - MaxDelay

Logged(ip) ==
    /\ Ordered(accepted[ip], clock)
    /\ Recorded(_rate_limit_store[ip], accepted[ip], clock)
    /\ Spaced(accepted[ip])

LimiterInv == TypeOK /\ ReadLately /\ \A ip \in Ips : Logged(ip)

LEMMA InitLimiter == Init => LimiterInv
<1> SUFFICES ASSUME Init PROVE LimiterInv
    OBVIOUS
<1>1. TypeOK /\ ReadLately
  BY InitType DEF Init, ReadLately
<1>2. ASSUME NEW ip \in Ips
      PROVE  Logged(ip)
  <2>1. accepted[ip] = << >> /\ _rate_limit_store[ip] = << >>
    BY DEF Init
  <2>2. Stands(<< >>, << >>, << >>, clock)
    BY DEF Stands
  <2> QED
    BY <2>1, <2>2 DEF Logged, Ordered, Recorded, Spaced
<1> QED
  BY <1>1, <1>2 DEF LimiterInv

(* The facts about one request that holds the lock.                        *)
LEMMA UnderLock ==
  ASSUME LimiterInv, NEW r \in Requests, call[r] # Idle
  PROVE  LET ip == call[r].ip
             now == call[r].now
         IN  /\ ip \in Ips /\ now \in Times /\ clock \in Times
             /\ now <= clock /\ clock <= now + MaxDelay
             /\ _rate_limit_store[ip] \in Seq(Times) /\ accepted[ip] \in Seq(Times)
             /\ Logged(ip)
<1>1. call[r].ip \in Ips /\ call[r].now \in Times
  BY CallType DEF LimiterInv
<1> QED
  BY <1>1 DEF LimiterInv, TypeOK, ReadLately

(* Letting a request through keeps the log in order and spaced.            *)
LEMMA AcceptLogged ==
  ASSUME NEW store \in Seq(Times), NEW log \in Seq(Times), NEW t \in Times, NEW now \in Times,
         now <= t, t <= now + MaxDelay,
         Ordered(log, t), Recorded(store, log, t), Spaced(log),
         Cardinality(InWindow(store, now)) < MAX_ATTEMPTS
  PROVE  Ordered(Append(log, t), t) /\ Spaced(Append(log, t))
<1> DEFINE L == Append(log, t)
           l == Len(log) + 1
<1>1. /\ DOMAIN L = 1..l /\ l \in Nat /\ DOMAIN log = 1..Len(log) /\ Len(log) \in Nat
      /\ \A k \in DOMAIN log : L[k] = log[k] /\ log[k] \in Times
      /\ L[l] = t
  OBVIOUS
<1> HIDE DEF L
<1>2. \A k \in DOMAIN L : k \in DOMAIN log \/ k = l
  BY <1>1
<1>3. Ordered(L, t)
  <2>1. \A k \in DOMAIN log : log[k] \in Nat /\ log[k] <= t
    BY <1>1, Numbers DEF Ordered
  <2>2. t \in Nat
    BY Numbers
  <2>3. \A k \in DOMAIN L : L[k] <= t
    BY <1>1, <1>2, <2>1, <2>2
  <2>4. ASSUME NEW j \in DOMAIN L, NEW k \in DOMAIN L, j <= k
        PROVE  L[j] <= L[k]
    <3>1. CASE k = l
      BY <1>1, <2>3, <3>1
    <3>2. CASE k \in DOMAIN log
      <4>1. j \in DOMAIN log
        BY <1>1, <2>4, <3>2
      <4> QED
        BY <1>1, <2>4, <3>2, <4>1 DEF Ordered
    <3> QED
      BY <1>2, <3>1, <3>2
  <2> QED
    BY <2>3, <2>4 DEF Ordered
<1>4. ASSUME l > MAX_ATTEMPTS
      PROVE  t - log[l - MAX_ATTEMPTS] >= WINDOW_SECONDS - MaxDelay
  <2> DEFINE first == l - MAX_ATTEMPTS
  <2>1. first \in DOMAIN log /\ log[first] \in Times /\ MAX_ATTEMPTS <= Len(log)
        /\ first = Len(log) - MAX_ATTEMPTS + 1
    BY <1>1, <1>4, Numbers
  <2> HIDE DEF first
  <2> SUFFICES ASSUME ~ (t - log[first] >= WINDOW_SECONDS - MaxDelay)
               PROVE  FALSE
    BY DEF first
  <2>2. t + MaxDelay < log[first] + WINDOW_SECONDS
    BY <2>1, Numbers
  <2>3. ASSUME NEW k \in first..Len(log)
        PROVE  t + MaxDelay < log[k] + WINDOW_SECONDS
    <3>1. k \in DOMAIN log /\ first <= k
      BY <1>1, <2>1
    <3>2. log[first] <= log[k] /\ log[k] \in Times
      BY <1>1, <2>1, <3>1 DEF Ordered
    <3>3. /\ log[first] \in Nat /\ log[k] \in Nat /\ t \in Nat
          /\ MaxDelay \in Nat /\ WINDOW_SECONDS \in Nat
      BY <2>1, <3>2, Numbers
    <3> QED
      BY <2>2, <3>2, <3>3
  <2>4. Cardinality(InWindow(store, now)) >= MAX_ATTEMPTS
    BY <2>1, <2>3, FullWhenRecent
  <2>5. InWindow(store, now) \in SUBSET DOMAIN store
    BY DEF InWindow
  <2>6. Cardinality(InWindow(store, now)) \in Nat
    BY <2>5, PositionsFinite
  <2> QED
    BY <2>4, <2>6, Numbers
<1>5. ASSUME NEW k \in DOMAIN L, k > MAX_ATTEMPTS
      PROVE  L[k] - L[k - MAX_ATTEMPTS] >= WINDOW_SECONDS - MaxDelay
  <2>1. k - MAX_ATTEMPTS \in DOMAIN log
    BY <1>1, <1>5, Numbers
  <2>2. CASE k \in DOMAIN log
    BY <1>1, <1>5, <2>1, <2>2 DEF Spaced
  <2>3. CASE k = l
    BY <1>1, <1>4, <1>5, <2>1, <2>3
  <2> QED
    BY <1>2, <2>2, <2>3
<1> QED
  BY <1>3, <1>5 DEF Spaced, L

(* An address whose store, log and clock stay as they are.                 *)
LEMMA LoggedKept ==
  ASSUME NEW ip \in Ips, Logged(ip), clock' = clock,
         _rate_limit_store'[ip] = _rate_limit_store[ip], accepted'[ip] = accepted[ip]
  PROVE  Logged(ip)'
  BY DEF Logged

LEMMA AcceptKeeps ==
  ASSUME LimiterInv, NEW r \in Requests, Accept(r)
  PROVE  ReadLately' /\ \A ip \in Ips : Logged(ip)'
<1>0. PICK ip \in Ips, now \in Times : ip = call[r].ip /\ now = call[r].now
  BY UnderLock DEF Accept
<1> DEFINE store == _rate_limit_store[ip]
           log == accepted[ip]
           kept == _clean_old_timestamps(store, now)
<1>1. /\ clock \in Times
      /\ now <= clock /\ clock <= now + MaxDelay
      /\ store \in Seq(Times) /\ log \in Seq(Times)
      /\ Logged(ip)
  BY <1>0, UnderLock DEF Accept
<1>2. /\ Len(kept) < MAX_ATTEMPTS
      /\ _rate_limit_store' = [_rate_limit_store EXCEPT ![ip] = Append(kept, now)]
      /\ accepted' = [accepted EXCEPT ![ip] = Append(log, clock)]
      /\ call' = [call EXCEPT ![r] = Idle]
      /\ clock' = clock
  BY <1>0 DEF Accept
<1>3. ReadLately'
  BY <1>2 DEF LimiterInv, ReadLately, TypeOK
<1>4. kept \in Seq(Times) /\ Len(kept) = Cardinality(InWindow(store, now))
  BY <1>1, CleanType
<1>5. Ordered(log, clock) /\ Recorded(store, log, clock) /\ Spaced(log)
  BY <1>1 DEF Logged
<1>6. Recorded(kept, log, clock)
  BY <1>1, <1>5, CleanRecorded
<1>7. /\ ip \in DOMAIN _rate_limit_store /\ ip \in DOMAIN accepted
      /\ \A a \in Ips : a # ip => /\ _rate_limit_store'[a] = _rate_limit_store[a]
                                  /\ accepted'[a] = accepted[a]
  BY <1>1, <1>2 DEF LimiterInv, TypeOK
<1> HIDE DEF store, log, kept
<1>8. Ordered(Append(log, clock), clock) /\ Spaced(Append(log, clock))
  BY <1>1, <1>2, <1>4, <1>5, AcceptLogged
<1>9. Recorded(Append(kept, now), Append(log, clock), clock)
  BY <1>1, <1>4, <1>6, AcceptRecorded
<1>10. _rate_limit_store'[ip] = Append(kept, now) /\ accepted'[ip] = Append(log, clock)
  BY <1>2, <1>7
<1>11. Logged(ip)'
  BY <1>2, <1>8, <1>9, <1>10 DEF Logged
<1>12. ASSUME NEW a \in Ips, a # ip
       PROVE  Logged(a)'
  BY <1>2, <1>7, <1>12, LoggedKept DEF LimiterInv
<1> QED
  BY <1>3, <1>11, <1>12

LEMMA RefuseKeeps ==
  ASSUME LimiterInv, NEW r \in Requests, Refuse(r)
  PROVE  /\ ReadLately' /\ \A ip \in Ips : Logged(ip)'
         /\ Cardinality(InWindow(accepted[refused'.ip], refused'.now)) >= MAX_ATTEMPTS
<1>0. PICK ip \in Ips, now \in Times : ip = call[r].ip /\ now = call[r].now
  BY UnderLock DEF Refuse
<1> DEFINE store == _rate_limit_store[ip]
           log == accepted[ip]
           kept == _clean_old_timestamps(store, now)
<1>1. /\ clock \in Times
      /\ now <= clock /\ clock <= now + MaxDelay
      /\ store \in Seq(Times) /\ log \in Seq(Times)
      /\ Logged(ip)
  BY <1>0, UnderLock DEF Refuse
<1>2. /\ Len(kept) >= MAX_ATTEMPTS
      /\ _rate_limit_store' = [_rate_limit_store EXCEPT ![ip] = kept]
      /\ refused' = [ip |-> ip, now |-> now]
      /\ call' = [call EXCEPT ![r] = Idle]
      /\ clock' = clock /\ accepted' = accepted
  BY <1>0 DEF Refuse
<1>3. ReadLately'
  BY <1>2 DEF LimiterInv, ReadLately, TypeOK
<1>4. Len(kept) = Cardinality(InWindow(store, now))
  BY <1>1, CleanType
<1>5. Ordered(log, clock) /\ Recorded(store, log, clock) /\ Spaced(log)
  BY <1>1 DEF Logged
<1>6. Recorded(kept, log, clock)
  BY <1>1, <1>5, CleanRecorded
<1>7. /\ _rate_limit_store'[ip] = kept
      /\ \A a \in Ips : a # ip => _rate_limit_store'[a] = _rate_limit_store[a]
  BY <1>1, <1>2 DEF LimiterInv, TypeOK
<1>8. refused'.ip = ip /\ refused'.now = now
  BY <1>2
<1>9. Cardinality(InWindow(log, now)) >= MAX_ATTEMPTS
  <2>1. Cardinality(InWindow(store, now)) <= Cardinality(InWindow(log, now))
    BY <1>1, <1>5, CountedOnce
  <2>2. InWindow(store, now) \in SUBSET DOMAIN store /\ InWindow(log, now) \in SUBSET DOMAIN log
    BY DEF InWindow
  <2>3. Cardinality(InWindow(store, now)) \in Nat /\ Cardinality(InWindow(log, now)) \in Nat
    BY <1>1, <2>2, PositionsFinite
  <2> QED
    BY <1>2, <1>4, <2>1, <2>3, Numbers
<1>10. Logged(ip)'
  BY <1>2, <1>5, <1>6, <1>7 DEF Logged
<1>11. ASSUME NEW a \in Ips, a # ip
       PROVE  Logged(a)'
  BY <1>2, <1>7, <1>11, LoggedKept DEF LimiterInv
<1> QED
  BY <1>3, <1>8, <1>9, <1>10, <1>11

(* A tick: what was out of every window stays out of them.                 *)
LEMMA TickKeeps ==
  ASSUME LimiterInv, TimePasses
  PROVE  ReadLately' /\ \A ip \in Ips : Logged(ip)'
<1>1. /\ clock' = clock + 1
      /\ \A r \in Requests : call[r] # Idle => clock - call[r].now < MaxDelay
      /\ UNCHANGED <<_rate_limit_store, call, accepted>>
  BY DEF TimePasses
<1>2. clock \in Times /\ clock \in Nat
  BY Numbers DEF LimiterInv, TypeOK
<1>3. ReadLately'
  <2> SUFFICES ASSUME NEW r \in Requests, call[r] # Idle
               PROVE  call[r].now <= clock' /\ clock' <= call[r].now + MaxDelay
    BY <1>1 DEF ReadLately
  <2>1. call[r].now \in Nat
    BY CallType, Numbers DEF LimiterInv
  <2> QED
    BY <1>1, <1>2, <2>1, Numbers DEF LimiterInv, ReadLately
<1>4. ASSUME NEW ip \in Ips
      PROVE  Logged(ip)'
  <2> DEFINE log == accepted[ip]
             store == _rate_limit_store[ip]
  <2>1. log \in Seq(Times)
    BY DEF LimiterInv, TypeOK
  <2>2. \A k \in DOMAIN log : log[k] \in Nat
    BY <2>1, Numbers
  <2>3. Ordered(log, clock) /\ Recorded(store, log, clock) /\ Spaced(log)
    BY DEF LimiterInv, Logged
  <2> HIDE DEF log, store
  <2>4. Ordered(log, clock + 1)
    BY <1>2, <2>2, <2>3 DEF Ordered
  <2>5. PICK of : Stands(of, store, log, clock)
    BY <2>3 DEF Recorded
  <2>6. Stands(of, store, log, clock + 1)
    <3>1. ASSUME NEW k \in DOMAIN log, \A i \in DOMAIN store : of[i] # k
          PROVE  log[k] + WINDOW_SECONDS <= clock + 1 + MaxDelay
      <4>1. log[k] + WINDOW_SECONDS <= clock + MaxDelay
        BY <2>5, <3>1 DEF Stands
      <4> QED
        BY <1>2, <2>2, <4>1, Numbers
    <3> QED
      BY <2>5, <3>1 DEF Stands
  <2> QED
    BY <1>1, <2>3, <2>4, <2>6 DEF Logged, Recorded, log, store
<1> QED
  BY <1>3, <1>4

LEMMA StepLimiter ==
  ASSUME LimiterInv, [Next]_vars
  PROVE  /\ LimiterInv'
         /\ \/ refused' = refused
            \/ Cardinality(InWindow(accepted[refused'.ip], refused'.now)) >= MAX_ATTEMPTS
<1>1. TypeOK /\ TypeOK'
  BY StepType DEF LimiterInv
<1>2. ASSUME NEW r \in Requests, Accept(r)
      PROVE  LimiterInv' /\ refused' = refused
  BY <1>1, <1>2, AcceptKeeps DEF LimiterInv, Accept
<1>3. ASSUME NEW r \in Requests, Refuse(r)
      PROVE  LimiterInv' /\ Cardinality(InWindow(accepted[refused'.ip], refused'.now)) >= MAX_ATTEMPTS
  BY <1>1, <1>3, RefuseKeeps DEF LimiterInv
<1>4. ASSUME NEW r \in Requests, NEW ip \in Ips, ReadClock(r, ip)
      PROVE  LimiterInv' /\ refused' = refused
  <2>1. /\ UNCHANGED <<clock, _rate_limit_store, accepted, refused>>
        /\ call' = [call EXCEPT ![r] = [ip |-> ip, now |-> clock]]
    BY <1>4 DEF ReadClock
  <2>2. clock \in Nat
    BY <1>1, Numbers DEF TypeOK
  <2>3. ReadLately'
    BY <1>1, <2>1, <2>2, Numbers DEF LimiterInv, ReadLately, TypeOK
  <2>4. \A a \in Ips : Logged(a)'
    BY <2>1, LoggedKept DEF LimiterInv
  <2> QED
    BY <1>1, <2>1, <2>3, <2>4 DEF LimiterInv
<1>5. CASE TimePasses
  BY <1>1, <1>5, TickKeeps DEF LimiterInv, TimePasses
<1>6. CASE UNCHANGED vars
  BY <1>1, <1>6, LoggedKept DEF LimiterInv, ReadLately, vars
<1> QED
  BY <1>2, <1>3, <1>4, <1>5, <1>6 DEF Next, check_rate_limit

-----------------------------------------------------------------------------
(* No address is let through more than MAX_ATTEMPTS times in a window less *)
(* the delay, in whatever order its requests take the lock.                *)
THEOREM AttemptsBounded == Spec => []AtMostMaxAttempts
<1>1. LimiterInv => AtMostMaxAttempts
  BY DEF LimiterInv, Logged, Spaced, AtMostMaxAttempts
<1>2. LimiterInv /\ [Next]_vars => LimiterInv'
  BY StepLimiter
<1> QED
  BY <1>1, <1>2, InitLimiter, PTL DEF Spec

(* check_rate_limit answers 429 only to an address that was let through    *)
(* MAX_ATTEMPTS times within the window: refusals do not count.            *)
THEOREM RefusalsDeserved == Spec => RefusedOnlyAtTheLimit
<1>1. LimiterInv /\ [Next]_vars
        => LimiterInv' /\ [refused'.ip # NULL =>
              Cardinality({k \in DOMAIN accepted[refused'.ip] :
                refused'.now - accepted[refused'.ip][k] < WINDOW_SECONDS}) >= MAX_ATTEMPTS]_refused
  BY StepLimiter DEF InWindow
<1> QED
  BY <1>1, InitLimiter, PTL DEF Spec, RefusedOnlyAtTheLimit
=============================================================================
