------------------------------- MODULE RedisStore -------------------------------
(***************************************************************************)
(* The Redis server as the data layer uses it: keys with a value and an    *)
(* expiry, a clock, and commands that may fail. External to the code.      *)
(***************************************************************************)
EXTENDS Integers, FiniteSets, Sequences

CONSTANTS TTL,        \* CACHE_TTL_SECONDS, in ticks
          MaxTime,    \* ticks of the clock (bound)
          MaxCalls,   \* calls of its users, in all (bound)
          Failures    \* outcomes of a command: {FALSE}, or with TRUE for an error

ASSUME StoreAssumptions == 
  TTL \in Nat \ {0} /\ MaxTime \in Nat /\ MaxCalls \in Nat /\ Failures \subseteq BOOLEAN

VARIABLES store,   \* the live keys: [kind, value, expires] for each
          now,     \* the clock
          calls    \* calls its users made so far

\* One call more.
Calls == calls < MaxCalls /\ calls' = calls + 1

Has(k) == k \in DOMAIN store
Without(s, K) == [k \in DOMAIN s \ K |-> s[k]]

\* SETEX, DEL.
SetEx(k, kind, value) ==
  store' = [j \in DOMAIN store \cup {k} |->
              IF j = k THEN [kind |-> kind, value |-> value, expires |-> now + TTL] ELSE store[j]]
Del(K) == store' = Without(store, K)

\* Time passes and what has expired is gone.
Tick ==
  /\ now < MaxTime
  /\ now' = now + 1
  /\ calls' = calls
  /\ store' = Without(store, {k \in DOMAIN store : store[k].expires <= now + 1})
=============================================================================
