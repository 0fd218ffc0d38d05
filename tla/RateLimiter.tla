------------------------------ MODULE RateLimiter ------------------------------
(***************************************************************************)
(* The token buckets in front of the server's endpoints                    *)
(* (server/app/api_limits.py).  consume runs in an async dependency        *)
(* without awaiting, so on the event loop a request is one step.           *)
(*                                                                         *)
(* The code computes in floating point; here tokens are counted in units   *)
(* of which One make a token, so that a bucket gains Limit units a tick    *)
(* and every number is an integer.                                         *)
(***************************************************************************)
EXTENDS Integers

CONSTANTS
    Keys,           \* base keys, with the client's address when per_ip
    Limit, Period,  \* Limit requests in Period seconds
    Burst,          \* whether the bucket holds Limit tokens or one
    Second,         \* ticks of the clock in a second
    NoState,        \* a key that is not in the store, no denial to remember
    Horizon         \* the clock stops there: the bound of the model

ASSUME LimiterAssumption ==
    /\ {Limit, Period, Second} \subseteq Nat \ {0}
    /\ Burst \in BOOLEAN
    /\ NoState \notin Nat
    /\ NoState \notin [tokens : Nat, updated_at : Nat]

One == Period * Second

(* make_rate_limiter *)
capacity == IF Burst THEN Limit * One ELSE One

VARIABLES
    monotonic,  \* time.monotonic()
    store,      \* MemoryMapStore: a TokenBucketState for each key met
    denied,     \* history: when the oldest Retry-After since the last grant ends
    window      \* history: an observer's count of grants, [start, count] per key

limiterVars == <<monotonic, store, denied, window>>

(* Fault: the clock is not taken over when a request is denied, and the    *)
(* same time is credited again.                                            *)
CreditsTwice(k) == LET gained == IF store[k] = NoState THEN 0
                                 ELSE 2 * (monotonic - store[k].updated_at) * Limit
                   IN  IF store[k] = NoState \/ store[k].tokens + gained > capacity
                       THEN capacity ELSE store[k].tokens + gained

(* Fault: a full bucket goes on filling.                                   *)
Overflows(k) == IF store[k] = NoState THEN capacity
                ELSE store[k].tokens + (monotonic - store[k].updated_at) * Limit

(* The tokens of consume: min(capacity, state.tokens + elapsed * rate).    *)
Tokens(k) ==
    IF store[k] = NoState THEN capacity
    ELSE LET refilled == store[k].tokens + (monotonic - store[k].updated_at) * Limit
         IN  IF refilled < capacity THEN refilled ELSE capacity

(* Fault: the wait is rounded down.                                        *)
FloorRetryAfter(tokens) == Second * ((One - tokens) \div (Second * Limit))

(* math.ceil((1 - tokens) / rate), in ticks.                               *)
RetryAfter(tokens) ==
    Second * ((One - tokens + Second * Limit - 1) \div (Second * Limit))

LimiterInit ==
    /\ monotonic = 0
    /\ store = [k \in Keys |-> NoState]
    /\ denied = [k \in Keys |-> NoState]
    /\ window = [k \in Keys |-> [start |-> 0, count |-> 0]]

Allow(k) ==
    /\ Tokens(k) >= One
    /\ store' = [store EXCEPT ![k] = [tokens |-> Tokens(k) - One, updated_at |-> monotonic]]
    /\ denied' = [denied EXCEPT ![k] = NoState]
    /\ window' = [window EXCEPT ![k].count = @ + 1]
    /\ UNCHANGED monotonic

(* HTTP 429 with Retry-After.                                              *)
Deny(k) ==
    /\ Tokens(k) < One
    /\ store' = [store EXCEPT ![k] = [tokens |-> Tokens(k), updated_at |-> monotonic]]
    /\ denied' = [denied EXCEPT ![k] =
                    IF @ = NoState THEN monotonic + RetryAfter(Tokens(k)) ELSE @]
    /\ UNCHANGED <<monotonic, window>>

Elapse ==
    /\ monotonic < Horizon
    /\ monotonic' = monotonic + 1
    /\ UNCHANGED <<store, denied, window>>

(* The observer starts to count.                                           *)
OpenWindow(k) ==
    /\ window' = [window EXCEPT ![k] = [start |-> monotonic, count |-> 0]]
    /\ UNCHANGED <<monotonic, store, denied>>

LimiterNext ==
    \/ Elapse
    \/ \E k \in Keys : Allow(k) \/ Deny(k) \/ OpenWindow(k)

LimiterSpec == LimiterInit /\ [][LimiterNext]_limiterVars

------------------------------------------------------------------------------
Bucket == [tokens : 0 .. capacity, updated_at : Nat]

LimiterTypeOK ==
    /\ monotonic \in Nat
    /\ store \in [Keys -> Bucket \cup {NoState}]
    /\ denied \in [Keys -> Nat \cup {NoState}]
    /\ window \in [Keys -> [start : Nat, count : Nat]]

(* However requests are spread over keys and time, no key is granted more  *)
(* than its capacity and the refill of any window an observer opens, which *)
(* is what limit and period of the configuration mean (consume).           *)
WindowBound ==
    \A k \in Keys :
        window[k].count * One <= capacity + (monotonic - window[k].start) * Limit

(* Retry-After is honest: the first request of a key after the seconds a   *)
(* denial named is granted, whatever was asked in between; and it is not a *)
(* second too long (math.ceil in make_rate_limiter).                       *)
RetryAfterExact ==
    \A k \in Keys : denied[k] # NoState =>
        /\ monotonic >= denied[k] => Tokens(k) >= One
        /\ monotonic + Second <= denied[k] => Tokens(k) < One
==============================================================================
