----------------------------- MODULE CacheManager -----------------------------
(***************************************************************************)
(* CacheManager and the connection pool under it, used by several threads  *)
(* at once. Every method takes a client of the pool and sends one command, *)
(* except get, which discards a foreign blob with a second one, and        *)
(* flush_namespace, which goes through the keys with SCAN. An error ends a *)
(* method with the value that stands for it.                               *)
(***************************************************************************)
EXTENDS RedisStore

CONSTANTS Clients,    \* threads that use the cache
          Names,      \* logical keys
          Namespaces, \* namespaces of the managers
          MaxResets   \* calls of reset_pool (bound)

VARIABLES call,      \* per client, the method under way and its arguments
          at,        \* per client, where it is
          todo,      \* per flush, keys SCAN must still return
          page,      \* per flush, keys the last SCAN returned
          standing,  \* per flush, keys that were there all the time
          pool,      \* _pool: TRUE when there is one
          holder,    \* the thread that holds _pool_lock
          opened,    \* pools created so far
          resets     \* reset_pool calls so far

pooling == <<pool, holder, opened, resets>>
scanning == <<todo, page, standing>>
cache == <<call, at, scanning, pooling>>

Nobody == "nobody"
NoCall == [op |-> "none", keys |-> {}, space |-> "none"]

\* _full_key.
FullKeys == Namespaces \X Names
Of(ns) == {k \in DOMAIN store : k[1] = ns}

Single == {"get", "get_json", "ask", "set", "set_json"}

CacheInit ==
  /\ call = [c \in Clients |-> NoCall]
  /\ at = [c \in Clients |-> "idle"]
  /\ todo = [c \in Clients |-> {}] /\ page = [c \in Clients |-> {}]
  /\ standing = [c \in Clients |-> {}]
  /\ pool = FALSE /\ holder = Nobody /\ opened = 0 /\ resets = 0

Continue(c, there) == at' = [at EXCEPT ![c] = there] /\ UNCHANGED call
Ends(c) == at' = [at EXCEPT ![c] = "idle"] /\ call' = [call EXCEPT ![c] = NoCall]
Begins(c, method) == at' = [at EXCEPT ![c] = "pool"] /\ call' = [call EXCEPT ![c] = method]
Forgets(c) == /\ todo' = [todo EXCEPT ![c] = {}]
              /\ page' = [page EXCEPT ![c] = {}]
              /\ standing' = [standing EXCEPT ![c] = {}]

\* Keys that are gone do not stand for any flush.
Removes(K) == /\ Del(K)
              /\ standing' = [c \in Clients |-> standing[c] \ K]

-----------------------------------------------------------------------------

\* A method other than flush_namespace is called, on one key or, to delete, on
\* several. "get" is also get_typed, "ask" is exists or ttl.
Use(c) ==
  /\ at[c] = "idle"
  /\ Calls
  /\ \E op \in Single \cup {"delete"}, ns \in Namespaces :
     \E K \in SUBSET ({ns} \X Names) \ {{}} :
       /\ op \in Single => Cardinality(K) = 1
       /\ Begins(c, [op |-> op, keys |-> K, space |-> ns])
  /\ UNCHANGED <<scanning, pooling, store, now>>

UseFlush(c) ==
  /\ at[c] = "idle"
  /\ Calls
  /\ \E ns \in Namespaces :
       Begins(c, [op |-> "flush", keys |-> {ns} \X Names, space |-> ns])
  /\ UNCHANGED <<scanning, pooling, store, now>>

\* Where a method goes once it has its client.
Ready(c) == Continue(c, IF call[c].op = "flush" THEN "begin" ELSE "command")

\* _get_pool: looked at without the lock, and again with it. A new pool is read
\* once more after the lock was released.
Pool(c) ==
  /\ at[c] = "pool"
  /\ IF pool THEN Ready(c) ELSE Continue(c, "lock")
  /\ UNCHANGED <<scanning, pooling, calls, store, now>>

Lock(c) ==
  /\ at[c] = "lock"
  /\ holder = Nobody
  /\ holder' = c
  /\ Continue(c, "create")
  /\ UNCHANGED <<scanning, pool, opened, resets, calls, store, now>>

\* Mutant of Create: the pool is not looked at again under the lock.
CreateAnyway(c) ==
  /\ at[c] = "create"
  /\ Continue(c, "take")
  /\ pool' = TRUE
  /\ opened' = opened + 1
  /\ holder' = Nobody
  /\ UNCHANGED <<scanning, resets, calls, store, now>>

Create(c) ==
  /\ at[c] = "create"
  /\ IF pool THEN Ready(c) /\ UNCHANGED opened
             ELSE Continue(c, "take") /\ opened' = opened + 1
  /\ pool' = TRUE
  /\ holder' = Nobody
  /\ UNCHANGED <<scanning, resets, calls, store, now>>

Take(c) ==
  /\ at[c] = "take"
  /\ IF pool THEN Ready(c) ELSE Continue(c, "stray")
  /\ UNCHANGED <<scanning, pooling, calls, store, now>>

\* Without a pool redis-py connects to its default server: nothing happens here.
Stray(c) ==
  /\ at[c] = "stray"
  /\ Ends(c)
  /\ UNCHANGED <<scanning, pooling, calls, store, now>>

\* reset_pool, under the lock.
ResetPool ==
  /\ holder = Nobody
  /\ pool
  /\ resets < MaxResets
  /\ pool' = FALSE
  /\ resets' = resets + 1
  /\ UNCHANGED <<call, at, scanning, holder, opened, calls, store, now>>

-----------------------------------------------------------------------------

Fails(c) ==
  /\ at[c] \in {"command", "discard", "begin", "scan", "remove"}
  /\ TRUE \in Failures
  /\ Ends(c)
  /\ Forgets(c)
  /\ UNCHANGED <<pooling, calls, store, now>>

\* set writes orjson behind its magic prefix, set_json plain JSON.
Written(op) == IF op = "set" THEN "prefixed" ELSE "plain"

Set(c) ==
  /\ at[c] = "command"
  /\ call[c].op \in {"set", "set_json"}
  /\ \E k \in call[c].keys :
       SetEx(k, Written(call[c].op), "written")
  /\ Ends(c)
  /\ UNCHANGED <<scanning, pooling, calls, now>>

\* get discards a value without the prefix; other values it returns.
Get(c) ==
  /\ at[c] = "command"
  /\ call[c].op = "get"
  /\ IF \E k \in call[c].keys : Has(k) /\ store[k].kind # "prefixed"
     THEN Continue(c, "discard") ELSE Ends(c)
  /\ UNCHANGED <<scanning, pooling, calls, store, now>>

DiscardBlob(c) ==
  /\ at[c] = "discard"
  /\ Removes(call[c].keys)
  /\ Ends(c)
  /\ UNCHANGED <<todo, page, pooling, calls, now>>

\* get_json, which leaves alone what is not plain JSON; exists and ttl.
Ask(c) ==
  /\ at[c] = "command"
  /\ call[c].op \in {"get_json", "ask"}
  /\ Ends(c)
  /\ UNCHANGED <<scanning, pooling, calls, store, now>>

Delete(c) ==
  /\ at[c] = "command"
  /\ call[c].op = "delete"
  /\ Removes(call[c].keys)
  /\ Ends(c)
  /\ UNCHANGED <<todo, page, pooling, calls, now>>

-----------------------------------------------------------------------------

\* flush_namespace. SCAN returns, by the time its cursor is 0 again, at least
\* the keys that were there from the first call to the last.
BeginFlush(c) ==
  /\ at[c] = "begin"
  /\ todo' = [todo EXCEPT ![c] = Of(call[c].space)]
  /\ standing' = [standing EXCEPT ![c] = Of(call[c].space)]
  /\ Continue(c, "scan")
  /\ UNCHANGED <<page, pooling, calls, store, now>>

Scan(c) ==
  /\ at[c] = "scan"
  /\ \E found \in SUBSET Of(call[c].space) :
       /\ page' = [page EXCEPT ![c] = found]
       /\ todo' = [todo EXCEPT ![c] = (@ \cap DOMAIN store) \ found]
  /\ Continue(c, "remove")
  /\ UNCHANGED <<standing, pooling, calls, store, now>>

\* Mutant of RemovePage: an empty page ends the loop.
RemoveOrStop(c) ==
  /\ at[c] = "remove"
  /\ Removes(page[c])
  /\ Continue(c, IF todo[c] = {} \/ page[c] = {} THEN "flushed" ELSE "scan")
  /\ UNCHANGED <<todo, page, pooling, calls, now>>

\* The loop ends when the cursor is 0, not when a page is empty.
RemovePage(c) ==
  /\ at[c] = "remove"
  /\ Removes(page[c])
  /\ Continue(c, IF todo[c] = {} THEN "flushed" ELSE "scan")
  /\ UNCHANGED <<todo, page, pooling, calls, now>>

FlushReturns(c) ==
  /\ at[c] = "flushed"
  /\ Ends(c)
  /\ Forgets(c)
  /\ UNCHANGED <<pooling, calls, store, now>>

CacheNext ==
  \/ ResetPool
  \/ \E c \in Clients :
       \/ Use(c) \/ UseFlush(c) \/ Pool(c) \/ Lock(c) \/ Create(c) \/ Take(c) \/ Stray(c) \/ Fails(c)
       \/ Set(c) \/ Get(c) \/ DiscardBlob(c) \/ Ask(c) \/ Delete(c)
       \/ BeginFlush(c) \/ Scan(c) \/ RemovePage(c) \/ FlushReturns(c)
=============================================================================
