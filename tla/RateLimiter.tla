---------------------------- MODULE RateLimiter ----------------------------
(***************************************************************************)
(* check_rate_limit (app/rate_limiter.py), the dependency of the login,    *)
(* session and watchlist routes.  It is a plain function, so each request  *)
(* runs it in a worker thread: it reads the clock, and only then takes     *)
(* _store_lock.  Requests of one address may take the lock in another      *)
(* order than they read the clock.                                         *)
(***************************************************************************)
EXTENDS Integers, Sequences, FiniteSets, Comprehension

CONSTANTS
    Requests,        \* requests that may be in the function at once
    Ips,             \* client addresses
    MAX_ATTEMPTS,
    WINDOW_SECONDS,
    MaxDelay,        \* between reading the clock and holding the lock
    MaxTime,         \* bound: time in a behaviour
    NULL

ASSUME RateLimiterAssumption ==
    /\ MAX_ATTEMPTS \in Nat \ {0}
    /\ WINDOW_SECONDS \in Nat
    /\ MaxDelay \in Nat
    /\ MaxTime \in Nat
    /\ NULL \notin Nat /\ NULL \notin Ips

Times == 0..MaxTime

VARIABLES
    clock,              \* time.time()
    _rate_limit_store,  \* address -> timestamps of accepted requests
    call,               \* what each request has read: its address and "now"
    accepted,           \* address -> when its requests were really let through
    refused             \* the last refusal: address, its "now", when

vars == <<clock, _rate_limit_store, call, accepted, refused>>

Idle == [ip |-> NULL, now |-> NULL]

ReadClock_RoundedUp(r, ip) ==
    /\ call[r] = Idle
    /\ call' = [call EXCEPT ![r] = [ip |-> ip, now |-> clock + 1]]
    /\ UNCHANGED <<clock, _rate_limit_store, accepted, refused>>

ReadClock(r, ip) ==
    /\ call[r] = Idle
    /\ call' = [call EXCEPT ![r] = [ip |-> ip, now |-> clock]]
    /\ UNCHANGED <<clock, _rate_limit_store, accepted, refused>>

_clean_old_timestamps_OneShort(timestamps, now) ==
    ItemsAt(timestamps, {k \in DOMAIN timestamps : now - timestamps[k] < WINDOW_SECONDS - 1})

_clean_old_timestamps(timestamps, now) ==
    ItemsAt(timestamps, {k \in DOMAIN timestamps : now - timestamps[k] < WINDOW_SECONDS})

(* The section under _store_lock: clean, count, record.                    *)
Accept(r) ==
    LET ip == call[r].ip
        kept == _clean_old_timestamps(_rate_limit_store[ip], call[r].now)
    IN  /\ call[r] # Idle
        /\ Len(kept) < MAX_ATTEMPTS
        /\ _rate_limit_store' = [_rate_limit_store EXCEPT ![ip] = Append(kept, call[r].now)]
        /\ accepted' = [accepted EXCEPT ![ip] = Append(@, clock)]
        /\ call' = [call EXCEPT ![r] = Idle]
        /\ UNCHANGED <<clock, refused>>

Refuse_Recorded(r) ==
    LET ip == call[r].ip
        kept == _clean_old_timestamps(_rate_limit_store[ip], call[r].now)
    IN  /\ call[r] # Idle
        /\ Len(kept) >= MAX_ATTEMPTS
        /\ _rate_limit_store' = [_rate_limit_store EXCEPT ![ip] = Append(kept, call[r].now)]
        /\ refused' = [ip |-> ip, now |-> call[r].now]
        /\ call' = [call EXCEPT ![r] = Idle]
        /\ UNCHANGED <<clock, accepted>>

(* 429; the cleaned list is kept, the attempt is not recorded.             *)
Refuse(r) ==
    LET ip == call[r].ip
        kept == _clean_old_timestamps(_rate_limit_store[ip], call[r].now)
    IN  /\ call[r] # Idle
        /\ Len(kept) >= MAX_ATTEMPTS
        /\ _rate_limit_store' = [_rate_limit_store EXCEPT ![ip] = kept]
        /\ refused' = [ip |-> ip, now |-> call[r].now]
        /\ call' = [call EXCEPT ![r] = Idle]
        /\ UNCHANGED <<clock, accepted>>

check_rate_limit(r) == Accept(r) \/ Refuse(r) \/ \E ip \in Ips : ReadClock(r, ip)

TimePasses ==
    /\ clock < MaxTime
    /\ \A r \in Requests : call[r] # Idle => clock - call[r].now < MaxDelay
    /\ clock' = clock + 1
    /\ UNCHANGED <<_rate_limit_store, call, accepted, refused>>

(* The store is memory: a restart forgets it.  The property is about one   *)
(* run of the process.                                                     *)
Init ==
    /\ clock = 0
    /\ _rate_limit_store = [ip \in Ips |-> << >>]
    /\ call = [r \in Requests |-> Idle]
    /\ accepted = [ip \in Ips |-> << >>]
    /\ refused = Idle

Next == TimePasses \/ \E r \in Requests : check_rate_limit(r)

Spec == Init /\ [][Next]_vars

-----------------------------------------------------------------------------
(* Every variable has its type.                                            *)
TypeOK ==
    /\ clock \in Times
    /\ _rate_limit_store \in [Ips -> Seq(Times)]
    /\ call \in [Requests -> [ip: Ips, now: Times] \cup {Idle}]
    /\ accepted \in [Ips -> Seq(Times)]
    /\ refused \in [ip: Ips, now: Times] \cup {Idle}

(* Whatever order threads come in, no address is let through more than     *)
(* MAX_ATTEMPTS times in any stretch of WINDOW_SECONDS less the longest    *)
(* time a thread may lose between the clock and the lock.                  *)
AtMostMaxAttempts ==
    \A ip \in Ips : \A k \in DOMAIN accepted[ip] :
        k > MAX_ATTEMPTS =>
            accepted[ip][k] - accepted[ip][k - MAX_ATTEMPTS] >= WINDOW_SECONDS - MaxDelay

(* A refusal is deserved: that many requests of that address, and no       *)
(* refused ones, went through within the window (and the delay) before.    *)
RefusedOnlyAtTheLimit ==
    [][refused'.ip # NULL =>
          Cardinality({k \in DOMAIN accepted[refused'.ip] :
              refused'.now - accepted[refused'.ip][k] < WINDOW_SECONDS}) >= MAX_ATTEMPTS]_refused
=============================================================================
