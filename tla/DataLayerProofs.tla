---------------------------- MODULE DataLayerProofs ----------------------------
(***************************************************************************)
(* Theorems about DataLayer: the pool, the flush, the answers of           *)
(* fetch_market_data and how far its calls go, for any number of clients   *)
(* and workers, any keys, tickers, expiries, failures and calls.           *)
(***************************************************************************)
EXTENDS DataLayer, FiniteSetTheorems, TLAPS

-----------------------------------------------------------------------------
(* The pool: there is one more than was reset, exactly while there is one.  *)

PoolCount == /\ opened \in Nat
             /\ resets \in Nat
             /\ pool => opened = resets + 1
             /\ ~pool => opened = resets

\* Only Create and ResetPool touch the pool.
LEMMA PoolStep == ASSUME Next PROVE \/ UNCHANGED <<pool, opened, resets>>
                                    \/ ResetPool
                                    \/ \E c \in Clients : Create(c)
<1>1. CASE MarketNext /\ UNCHANGED cache  BY <1>1 DEF cache, pooling
<1>2. CASE Clock  BY <1>2 DEF Clock, pooling
<1>3. CASE CacheNext
  <2>1. ASSUME NEW c \in Clients,
               \/ Use(c) \/ UseFlush(c) \/ Pool(c) \/ Lock(c) \/ Take(c) \/ Stray(c) \/ Fails(c)
               \/ Set(c) \/ Get(c) \/ DiscardBlob(c) \/ Ask(c) \/ Delete(c)
               \/ BeginFlush(c) \/ Scan(c) \/ RemovePage(c) \/ FlushReturns(c)
        PROVE  UNCHANGED <<pool, opened, resets>>
    BY <2>1 DEF Use, UseFlush, Pool, Lock, Take, Stray, Fails, Set, Get, DiscardBlob, Ask, Delete,
                BeginFlush, Scan, RemovePage, FlushReturns, pooling
  <2>2. QED  BY <1>3, <2>1 DEF CacheNext
<1>4. QED  BY <1>1, <1>2, <1>3 DEF Next

\* However many threads find no pool at once, one of them opens it.
THEOREM OnePoolAtATime == Spec => []OnePool
<1>1. Init => PoolCount
  <2>1. Init => ~pool /\ opened = 0 /\ resets = 0  BY Zenon DEF Init, CacheInit
  <2>2. QED  BY <2>1 DEF PoolCount
<1>2. PoolCount /\ [Next]_vars => PoolCount'
  <2>1. SUFFICES ASSUME PoolCount, [Next]_vars PROVE PoolCount'  OBVIOUS
  <2>2. CASE UNCHANGED <<pool, opened, resets>>  BY <2>1, <2>2 DEF PoolCount
  <2>3. CASE ResetPool
    <3>1. pool /\ ~pool' /\ resets' = resets + 1 /\ opened' = opened
      BY Zenon, <2>3 DEF ResetPool
    <3>2. QED  BY <2>1, <3>1 DEF PoolCount
  <2>4. ASSUME NEW c \in Clients, Create(c) PROVE PoolCount'
    <3>1. /\ pool' /\ resets' = resets
          /\ pool => opened' = opened
          /\ ~pool => opened' = opened + 1
      BY Zenon, <2>4 DEF Create
    <3>2. QED  BY <2>1, <3>1 DEF PoolCount
  <2>5. CASE UNCHANGED vars  BY <2>2, <2>5 DEF vars, cache, pooling
  <2>6. QED  BY <2>1, <2>2, <2>3, <2>4, <2>5, PoolStep
<1>3. PoolCount => OnePool  BY DEF PoolCount, OnePool
<1>4. QED  BY <1>1, <1>2, <1>3, PTL DEF Spec

-----------------------------------------------------------------------------
(* The flush.                                                               *)

Placed == /\ DOMAIN at = Clients /\ DOMAIN call = Clients
          /\ DOMAIN todo = Clients /\ DOMAIN page = Clients /\ DOMAIN standing = Clients

\* What a flush has yet to remove was there all the time, belongs to its
\* namespace, and is still ahead of the cursor or on the page in hand.
Ahead(c) == /\ at[c] # "idle" => call[c].space \in Namespaces
            /\ standing[c] \subseteq DOMAIN store
            /\ \A k \in standing[c] : k[1] \in Namespaces
            /\ at[c] = "scan" => standing[c] \subseteq todo[c]
            /\ at[c] = "remove" => standing[c] \subseteq todo[c] \cup page[c]
            /\ at[c] = "flushed" => standing[c] = {}

FlushInv == Placed /\ \A c \in Clients : Ahead(c)

\* A key that is written joins the others.
LEMMA SetKeepsKeys ==
  ASSUME NEW k, NEW kind, NEW value, SetEx(k, kind, value)
  PROVE  DOMAIN store \subseteq DOMAIN store'
BY DEF SetEx

\* What is deleted leaves the others.
LEMMA DelLeavesOthers ==
  ASSUME NEW K, Del(K) PROVE DOMAIN store' = DOMAIN store \ K
BY DEF Del, Without

\* The market data and the flush have no key in common.
LEMMA MarketStep ==
  ASSUME FlushInv, MarketNext, UNCHANGED cache PROVE FlushInv'
<1> USE DEF FlushInv, Placed, Ahead, cache, scanning
<1>1. CASE DOMAIN store \subseteq DOMAIN store'  BY <1>1
<1>2. ASSUME NEW tickers, NEW lookback, Del({Key(tickers, lookback)}) PROVE FlushInv'
  <2>1. Key(tickers, lookback)[1] = "market_data"  BY DEF Key
  <2>2. \A c \in Clients : Key(tickers, lookback) \notin standing[c]
    BY <2>1, NamespaceAssumption
  <2>3. DOMAIN store' = DOMAIN store \ {Key(tickers, lookback)}  BY <1>2, DelLeavesOthers
  <2>4. QED  BY <2>2, <2>3
<1>3. ASSUME NEW w \in Workers, Call(w) \/ Lookup(w) \/ Download(w) \/ EachTicker(w)
                                 \/ BuildFrame(w) \/ Clean(w) \/ Again(w)
      PROVE  FlushInv'
  BY <1>1, <1>3 DEF Call, Lookup, Download, EachTicker, BuildFrame, Clean, Again, KeepStore
<1>4. ASSUME NEW w \in Workers, Discard(w) PROVE FlushInv'
  <2>1. store' = store \/ Del({KeyOf(w)})  BY <1>4 DEF Discard
  <2>2. QED  BY <2>1, <1>1, <1>2 DEF KeyOf
<1>5. ASSUME NEW w \in Workers, Finish(w) PROVE FlushInv'
  <2>1. store' = store \/ \E data : SetEx(KeyOf(w), "market", data)
    BY <1>5 DEF Finish, WriteBack
  <2>2. QED  BY <2>1, <1>1, SetKeepsKeys
<1>6. CASE Invalidate
  <2>1. \E list, lookback : Del({Key(list, lookback)})  BY <1>6 DEF Invalidate
  <2>2. QED  BY <2>1, <1>2
<1>7. QED  BY <1>3, <1>4, <1>5, <1>6 DEF MarketNext, Step

\* Steps that touch no key set and take nobody into a flush.
LEMMA CallStep ==
  ASSUME FlushInv, NEW c \in Clients,
         \/ Use(c) \/ UseFlush(c) \/ Pool(c) \/ Lock(c) \/ Create(c) \/ Take(c) \/ Stray(c)
         \/ Set(c) \/ Get(c) \/ Ask(c)
  PROVE  FlushInv'
<1> USE DEF FlushInv, Placed, Ahead, scanning
<1>1. CASE Use(c)  BY <1>1 DEF Use, Begins
<1>2. CASE UseFlush(c)  BY <1>2 DEF UseFlush, Begins
<1>3. CASE Pool(c)  BY <1>3 DEF Pool, Ready, Continue
<1>4. CASE Lock(c)  BY <1>4 DEF Lock, Continue
<1>5. CASE Create(c)  BY <1>5 DEF Create, Ready, Continue
<1>6. CASE Take(c)  BY <1>6 DEF Take, Ready, Continue
<1>7. CASE Stray(c)  BY <1>7 DEF Stray, Ends
<1>8. CASE Get(c)  BY <1>8 DEF Get, Continue, Ends
<1>9. CASE Ask(c)  BY <1>9 DEF Ask, Ends
<1>10. CASE Set(c)
  <2>1. DOMAIN store \subseteq DOMAIN store'  BY <1>10, SetKeepsKeys DEF Set
  <2>2. QED  BY <1>10, <2>1 DEF Set, Ends
<1>11. QED  BY <1>1, <1>2, <1>3, <1>4, <1>5, <1>6, <1>7, <1>8, <1>9, <1>10

\* Steps that delete keys, or go through them.
LEMMA FlushStep ==
  ASSUME FlushInv, NEW c \in Clients,
         \/ DiscardBlob(c) \/ Delete(c) \/ BeginFlush(c) \/ Scan(c) \/ RemovePage(c)
         \/ FlushReturns(c) \/ Fails(c)
  PROVE  FlushInv'
<1> USE DEF FlushInv, Placed, Ahead, scanning
<1>0. ASSUME NEW K, Removes(K)
      PROVE  /\ DOMAIN store' = DOMAIN store \ K
             /\ DOMAIN standing' = Clients
             /\ \A d \in Clients : standing'[d] = standing[d] \ K
  BY <1>0, DelLeavesOthers DEF Removes
<1>1. CASE DiscardBlob(c) \/ Delete(c)
  <2>1. PICK K : Removes(K)  BY <1>1 DEF DiscardBlob, Delete
  <2>2. /\ DOMAIN store' = DOMAIN store \ K
        /\ DOMAIN standing' = Clients
        /\ \A d \in Clients : standing'[d] = standing[d] \ K
    BY <1>0, <2>1
  <2>3. /\ at' = [at EXCEPT ![c] = "idle"]
        /\ call' = [call EXCEPT ![c] = NoCall]
        /\ UNCHANGED <<todo, page>>
    BY <1>1 DEF DiscardBlob, Delete, Ends
  <2>4. QED  BY <2>2, <2>3
<1>3. CASE BeginFlush(c)
  BY <1>3 DEF BeginFlush, Of, Continue
<1>4. CASE Scan(c)
  BY <1>4 DEF Scan, Continue
<1>5. CASE RemovePage(c)
  <2>1. /\ DOMAIN store' = DOMAIN store \ page[c]
        /\ DOMAIN standing' = Clients
        /\ \A d \in Clients : standing'[d] = standing[d] \ page[c]
    BY <1>0, <1>5 DEF RemovePage
  <2>2. /\ at[c] = "remove"
        /\ at' = [at EXCEPT ![c] = IF todo[c] = {} THEN "flushed" ELSE "scan"]
        /\ UNCHANGED <<call, todo, page>>
    BY <1>5 DEF RemovePage, Continue
  <2>3. QED  BY <2>1, <2>2
<1>6. CASE FlushReturns(c)
  BY <1>6 DEF FlushReturns, Ends, Forgets
<1>7. CASE Fails(c)
  BY <1>7 DEF Fails, Ends, Forgets
<1>8. QED  BY <1>1, <1>3, <1>4, <1>5, <1>6, <1>7

\* Whoever writes, deletes, fetches or flushes at the same time: a flush that went
\* through leaves no key that was there when it began.
THEOREM FlushIsThorough == Spec => []FlushClears
<1>1. Init => FlushInv
  BY DEF Init, CacheInit, FlushInv, Placed, Ahead
<1>2. FlushInv /\ [Next]_vars => FlushInv'
  <2>1. SUFFICES ASSUME FlushInv, [Next]_vars PROVE FlushInv'  OBVIOUS
  <2>2. CASE MarketNext /\ UNCHANGED cache  BY <2>1, <2>2, MarketStep
  <2>3. CASE CacheNext
    <3>1. CASE ResetPool
      BY <2>1, <3>1 DEF ResetPool, FlushInv, Placed, Ahead, scanning
    <3>2. ASSUME NEW c \in Clients,
                 \/ Use(c) \/ UseFlush(c) \/ Pool(c) \/ Lock(c) \/ Create(c) \/ Take(c) \/ Stray(c)
                 \/ Set(c) \/ Get(c) \/ Ask(c)
          PROVE  FlushInv'
      BY <2>1, <3>2, CallStep
    <3>3. ASSUME NEW c \in Clients,
                 \/ DiscardBlob(c) \/ Delete(c) \/ BeginFlush(c) \/ Scan(c) \/ RemovePage(c)
                 \/ FlushReturns(c) \/ Fails(c)
          PROVE  FlushInv'
      BY <2>1, <3>3, FlushStep
    <3>4. QED  BY <2>3, <3>1, <3>2, <3>3 DEF CacheNext
  <2>4. CASE Clock
    BY <2>1, <2>4 DEF Clock, FlushInv, Placed, Ahead
  <2>5. CASE UNCHANGED vars
    BY <2>1, <2>5 DEF vars, cache, scanning, FlushInv, Placed, Ahead
  <2>6. QED  BY <2>1, <2>2, <2>3, <2>4, <2>5 DEF Next
<1>3. FlushInv => FlushClears  BY DEF FlushInv, Ahead, FlushClears
<1>4. QED  BY <1>1, <1>2, <1>3, PTL DEF Spec

-----------------------------------------------------------------------------
(* The cache and the answers.                                               *)

\* Market data as Finish builds it.
Whole(v) ==
  /\ v = [tickers |-> v.tickers, lookback |-> v.lookback, sectors |-> v.sectors,
          at |-> v.at, served |-> v.served]
  /\ v.tickers # {} /\ DOMAIN v.sectors = v.tickers /\ v.at \in Int

\* An entry that fetch_market_data would read fits every request with its key, and
\* expires the TTL after its fetch was complete.
EntryFits(k) ==
  /\ store[k].expires > now /\ store[k].expires \in Int
  /\ store[k].kind = "market" =>
       /\ Whole(store[k].value)
       /\ store[k].value.tickers \subseteq DOMAIN k[2]
       /\ store[k].value.lookback = k[3]
       /\ store[k].expires = store[k].value.at + TTL

StoreFits == now \in Int /\ \A k \in DOMAIN store : EntryFits(k)

AnswerFits(w) ==
  /\ pc[w] = "metadata" => Usable(w) # {}
  /\ pc[w] = "returned" =>
       /\ result[w].tickers # {}
       /\ result[w].tickers \subseteq ToSet(asked[w].tickers)
       /\ result[w].lookback = asked[w].lookback
       /\ DOMAIN result[w].sectors = result[w].tickers
       /\ result[w].served - result[w].at < TTL

FetchInv == /\ StoreFits
            /\ DOMAIN pc = Workers /\ DOMAIN asked = Workers
            /\ DOMAIN columns = Workers /\ DOMAIN result = Workers
            /\ \A w \in Workers : AnswerFits(w)

\* A key says which tickers and which window it is for.
LEMMA KeySays ==
  ASSUME NEW tickers, NEW lookback
  PROVE  /\ DOMAIN Key(tickers, lookback)[2] = ToSet(tickers)
         /\ Key(tickers, lookback)[3] = lookback
BY DEF Key

LEMMA DelFits ==
  ASSUME StoreFits, NEW K, Del(K), UNCHANGED now PROVE StoreFits'
BY DEF StoreFits, EntryFits, Del, Without

LEMMA SetFits ==
  ASSUME StoreFits, NEW k, NEW kind, NEW value, SetEx(k, kind, value), UNCHANGED now,
         kind = "market" => /\ Whole(value) /\ value.at = now
                            /\ value.tickers \subseteq DOMAIN k[2] /\ value.lookback = k[3]
  PROVE  StoreFits'
<1> DEFINE e == [kind |-> kind, value |-> value, expires |-> now + TTL]
<1>1. /\ DOMAIN store' = DOMAIN store \cup {k} /\ store'[k] = e
      /\ \A j \in DOMAIN store \ {k} : store'[j] = store[j]
  BY DEF SetEx
<1>2. e.expires > now /\ e.expires \in Int /\ e.expires = now + TTL /\ e.kind = kind /\ e.value = value
  BY StoreAssumptions DEF StoreFits
<1> HIDE DEF e
<1>3. EntryFits(k)'
  BY <1>1, <1>2 DEF EntryFits
<1>4. ASSUME NEW j \in DOMAIN store \ {k} PROVE EntryFits(j)'
  BY <1>1, <1>4 DEF StoreFits, EntryFits
<1> QED
  BY <1>1, <1>3, <1>4 DEF StoreFits

LEMMA TickFits ==
  ASSUME StoreFits, Tick PROVE StoreFits'
<1>1. now' = now + 1 /\ now' \in Int
  BY DEF Tick, StoreFits
<1>2. /\ DOMAIN store' = DOMAIN store \ {k \in DOMAIN store : store[k].expires <= now + 1}
      /\ \A k \in DOMAIN store' : store'[k] = store[k]
  BY DEF Tick, Without
<1>3. ASSUME NEW k \in DOMAIN store' PROVE EntryFits(k)'
  <2>1. EntryFits(k) /\ ~(store[k].expires <= now + 1) /\ store'[k] = store[k]
    BY <1>2 DEF StoreFits
  <2> QED
    BY <1>1, <2>1 DEF EntryFits, StoreFits
<1> QED
  BY <1>1, <1>3 DEF StoreFits

\* Whoever uses CacheManager writes nothing that fetch_market_data would return.
LEMMA CacheFits ==
  ASSUME StoreFits, CacheNext PROVE StoreFits'
<1>1. CASE UNCHANGED <<store, now>>
  BY <1>1 DEF StoreFits, EntryFits
<1>2. ASSUME NEW c \in Clients,
             \/ Use(c) \/ UseFlush(c) \/ Pool(c) \/ Lock(c) \/ Create(c) \/ Take(c) \/ Stray(c) \/ Fails(c)
             \/ Get(c) \/ Ask(c) \/ BeginFlush(c) \/ Scan(c) \/ FlushReturns(c)
      PROVE  UNCHANGED <<store, now>>
  BY <1>2 DEF Use, UseFlush, Pool, Lock, Create, Take, Stray, Fails, Get, Ask, BeginFlush, Scan, FlushReturns
<1>3. ASSUME NEW c \in Clients, DiscardBlob(c) \/ Delete(c) \/ RemovePage(c) PROVE StoreFits'
  <2>1. UNCHANGED now /\ \E K : Del(K)
    BY <1>3 DEF DiscardBlob, Delete, RemovePage, Removes
  <2> QED
    BY <2>1, DelFits
<1>4. ASSUME NEW c \in Clients, Set(c) PROVE StoreFits'
  <2>1. UNCHANGED now /\ \E k : SetEx(k, Written(call[c].op), "written")
    BY <1>4 DEF Set
  <2>2. Written(call[c].op) # "market"
    BY DEF Written
  <2> QED
    BY <2>1, <2>2, SetFits
<1>5. CASE ResetPool
  BY <1>1, <1>5 DEF ResetPool
<1> QED
  BY <1>1, <1>2, <1>3, <1>4, <1>5 DEF CacheNext

\* A step that leaves the market data of a call alone.
LEMMA SameAnswer ==
  ASSUME NEW w \in Workers, AnswerFits(w), pc'[w] = pc[w], asked'[w] = asked[w],
         columns'[w] = columns[w], result'[w] = result[w]
  PROVE  AnswerFits(w)'
BY DEF AnswerFits, Usable

\* A hit: what is under the request's key fits the request, and is fresh.
LEMMA HitFits ==
  ASSUME StoreFits, NEW w \in Workers, Has(KeyOf(w)), store[KeyOf(w)].kind = "market",
         NEW r, r = [store[KeyOf(w)].value EXCEPT !.served = now]
  PROVE  /\ r.tickers # {} /\ r.tickers \subseteq ToSet(asked[w].tickers)
         /\ r.lookback = asked[w].lookback /\ DOMAIN r.sectors = r.tickers
         /\ r.served - r.at < TTL
<1> DEFINE v == store[KeyOf(w)].value
<1>1. /\ Whole(v) /\ v.tickers \subseteq ToSet(asked[w].tickers) /\ v.lookback = asked[w].lookback
      /\ v.at + TTL > now
  BY KeySays DEF StoreFits, EntryFits, Has, KeyOf
<1> HIDE DEF v
<1>2. /\ r.tickers = v.tickers /\ r.lookback = v.lookback /\ r.sectors = v.sectors
      /\ r.at = v.at /\ r.served = now
  BY <1>1 DEF Whole, v
<1>3. v.tickers # {} /\ DOMAIN v.sectors = v.tickers /\ v.at \in Int /\ now \in Int /\ TTL \in Int
  BY <1>1, StoreAssumptions DEF Whole, StoreFits
<1> QED
  BY <1>1, <1>2, <1>3

LEMMA LookupFits ==
  ASSUME FetchInv, NEW w \in Workers, Lookup(w) PROVE FetchInv'
<1> USE DEF FetchInv
<1>1. /\ DOMAIN pc' = Workers /\ DOMAIN result' = Workers /\ UNCHANGED <<asked, columns, store, now>>
      /\ \A u \in Workers \ {w} : pc'[u] = pc[u] /\ result'[u] = result[u]
  BY DEF Lookup, GoTo, KeepStore
<1>2. AnswerFits(w)'
  <2>1. CASE pc'[w] \notin {"metadata", "returned"}
    BY <2>1 DEF AnswerFits
  <2>2. CASE pc'[w] \in {"metadata", "returned"}
    <3>1. /\ Has(KeyOf(w)) /\ store[KeyOf(w)].kind = "market" /\ pc'[w] = "returned"
          /\ result'[w] = [store[KeyOf(w)].value EXCEPT !.served = now]
      BY <2>2 DEF Lookup, GoTo
    <3>2. /\ result'[w].tickers # {} /\ result'[w].tickers \subseteq ToSet(asked[w].tickers)
          /\ result'[w].lookback = asked[w].lookback /\ DOMAIN result'[w].sectors = result'[w].tickers
          /\ result'[w].served - result'[w].at < TTL
      BY <3>1, HitFits
    <3> QED
      BY <1>1, <3>1, <3>2 DEF AnswerFits
  <2> QED
    BY <2>1, <2>2
<1>3. StoreFits'
  BY <1>1 DEF StoreFits, EntryFits
<1> QED
  BY <1>1, <1>2, <1>3, SameAnswer

LEMMA FinishFits ==
  ASSUME FetchInv, NEW w \in Workers, Finish(w) PROVE FetchInv'
<1> USE DEF FetchInv
<1>1. PICK sectors \in Metadata(w) :
        LET data == [tickers |-> Usable(w), lookback |-> asked[w].lookback,
                     sectors |-> sectors, at |-> now, served |-> now]
        IN  result' = [result EXCEPT ![w] = data] /\ WriteBack(w, data)
  BY DEF Finish
<1> DEFINE data == [tickers |-> Usable(w), lookback |-> asked[w].lookback,
                    sectors |-> sectors, at |-> now, served |-> now]
<1>2. result' = [result EXCEPT ![w] = data] /\ WriteBack(w, data)
  BY <1>1
<1>3. Usable(w) # {} /\ Usable(w) \subseteq ToSet(asked[w].tickers) /\ DOMAIN sectors = Usable(w)
  BY DEF Finish, AnswerFits, Usable, Metadata
<1>4. /\ data.tickers = Usable(w) /\ data.lookback = asked[w].lookback /\ data.sectors = sectors
      /\ data.at = now /\ data.served = now
      /\ data = [tickers |-> data.tickers, lookback |-> data.lookback, sectors |-> data.sectors,
                 at |-> data.at, served |-> data.served]
  OBVIOUS
<1> HIDE DEF data
<1>5. /\ pc' = [pc EXCEPT ![w] = "returned"] /\ columns' = [columns EXCEPT ![w] = NoColumns]
      /\ UNCHANGED <<asked, now>>
  BY DEF Finish, GoTo
<1>6. StoreFits'
  <2>1. store' = store \/ SetEx(KeyOf(w), "market", data)
    BY <1>2 DEF WriteBack
  <2>2. /\ Whole(data) /\ data.at = now
        /\ data.tickers \subseteq DOMAIN KeyOf(w)[2] /\ data.lookback = KeyOf(w)[3]
    BY <1>3, <1>4, KeySays DEF Whole, StoreFits, KeyOf
  <2>3. CASE store' = store
    BY <1>5, <2>3 DEF StoreFits, EntryFits
  <2>4. CASE SetEx(KeyOf(w), "market", data)
    BY <1>5, <2>2, <2>4, SetFits
  <2> QED
    BY <2>1, <2>3, <2>4
<1>7. AnswerFits(w)'
  <2>1. pc'[w] = "returned" /\ result'[w] = data /\ asked'[w] = asked[w]
    BY <1>2, <1>5
  <2>2. now - now < TTL
    BY StoreAssumptions DEF StoreFits
  <2> QED
    BY <1>3, <1>4, <2>1, <2>2 DEF AnswerFits
<1>8. ASSUME NEW u \in Workers \ {w} PROVE AnswerFits(u)'
  BY <1>2, <1>5, SameAnswer
<1>9. /\ DOMAIN pc' = Workers /\ DOMAIN asked' = Workers
      /\ DOMAIN columns' = Workers /\ DOMAIN result' = Workers
  BY <1>2, <1>5
<1> QED
  BY <1>6, <1>7, <1>8, <1>9

LEMMA MarketFits ==
  ASSUME FetchInv, MarketNext PROVE FetchInv'
<1> USE DEF FetchInv
<1>1. CASE Invalidate
  <2>1. UNCHANGED <<pc, asked, columns, result, now>> /\ \E K : Del(K)
    BY <1>1 DEF Invalidate
  <2> QED
    BY <2>1, DelFits, SameAnswer
<1>2. ASSUME NEW w \in Workers, NEW there, GoTo(w, there), there \notin {"metadata", "returned"},
             StoreFits', DOMAIN asked' = Workers, DOMAIN columns' = Workers, DOMAIN result' = Workers,
             \A u \in Workers \ {w} : /\ asked'[u] = asked[u] /\ columns'[u] = columns[u]
                                      /\ result'[u] = result[u]
      PROVE  FetchInv'
  <2>1. pc' = [pc EXCEPT ![w] = there]
    BY <1>2 DEF GoTo
  <2>2. AnswerFits(w)'
    BY <1>2, <2>1 DEF AnswerFits
  <2>3. ASSUME NEW u \in Workers \ {w} PROVE AnswerFits(u)'
    BY <1>2, <2>1, SameAnswer
  <2> QED
    BY <1>2, <2>1, <2>2, <2>3
<1>3. ASSUME UNCHANGED <<store, now>> PROVE StoreFits'
  BY <1>3 DEF StoreFits, EntryFits
<1>4. ASSUME NEW w \in Workers, Call(w) PROVE FetchInv'
  BY <1>2, <1>3, <1>4 DEF Call
<1>5. ASSUME NEW w \in Workers, Again(w) PROVE FetchInv'
  BY <1>2, <1>3, <1>5 DEF Again, KeepStore
<1>6. ASSUME NEW w \in Workers, Discard(w) PROVE FetchInv'
  <2>1. StoreFits'
    <3>1. UNCHANGED now /\ (store' = store \/ Del({KeyOf(w)}))
      BY <1>6 DEF Discard
    <3> QED
      BY <3>1, DelFits DEF StoreFits, EntryFits
  <2> QED
    BY <1>2, <1>6, <2>1 DEF Discard
<1>7. ASSUME NEW w \in Workers, Download(w) PROVE FetchInv'
  <2>1. /\ UNCHANGED <<asked, result, store, now>> /\ DOMAIN columns' = Workers
        /\ \A u \in Workers \ {w} : columns'[u] = columns[u]
    BY <1>7 DEF Download, KeepStore
  <2>2. StoreFits'
    BY <1>3, <2>1
  <2>3. \E there \in {"download", "each", "clean"} : GoTo(w, there)
    BY <1>7 DEF Download, Retry, GoTo
  <2>4. PICK there \in {"download", "each", "clean"} : GoTo(w, there)
    BY <2>3
  <2> QED
    BY <1>2, <2>1, <2>2, <2>4
<1>8. ASSUME NEW w \in Workers, EachTicker(w) PROVE FetchInv'
  <2>1. /\ UNCHANGED <<pc, asked, result, store, now>> /\ DOMAIN columns' = Workers /\ pc[w] = "each"
        /\ \A u \in Workers \ {w} : columns'[u] = columns[u]
    BY <1>8 DEF EachTicker, KeepStore
  <2>2. AnswerFits(w)'
    BY <2>1 DEF AnswerFits
  <2>3. ASSUME NEW u \in Workers \ {w} PROVE AnswerFits(u)'
    BY <2>1, SameAnswer
  <2> QED
    BY <1>3, <2>1, <2>2, <2>3
<1>9. ASSUME NEW w \in Workers, BuildFrame(w) PROVE FetchInv'
  BY <1>2, <1>3, <1>9 DEF BuildFrame, KeepStore
<1>10. ASSUME NEW w \in Workers, Clean(w) PROVE FetchInv'
  <2>1. /\ UNCHANGED <<asked, result, store, now>> /\ DOMAIN columns' = Workers
        /\ \A u \in Workers \ {w} : columns'[u] = columns[u]
    BY <1>10 DEF Clean, KeepStore
  <2>2. StoreFits'
    BY <1>3, <2>1
  <2>3. CASE GoTo(w, "raised")
    BY <1>2, <2>1, <2>2, <2>3
  <2>4. CASE GoTo(w, "metadata") /\ UNCHANGED columns /\ Usable(w) # {}
    <3>1. AnswerFits(w)'
      BY <2>1, <2>4 DEF AnswerFits, Usable, GoTo
    <3>2. ASSUME NEW u \in Workers \ {w} PROVE AnswerFits(u)'
      BY <2>1, <2>4, SameAnswer DEF GoTo
    <3> QED
      BY <2>1, <2>2, <2>4, <3>1, <3>2 DEF GoTo
  <2> QED
    BY <1>10, <2>3, <2>4 DEF Clean
<1> QED
  BY <1>1, <1>4, <1>5, <1>6, <1>7, <1>8, <1>9, <1>10, LookupFits, FinishFits DEF MarketNext, Step

\* What fetch_market_data returns fits its request and is fresh, for any tickers
\* and windows asked for, any number of workers and of users of the cache.
THEOREM AnswersFitTheRequest == Spec => []FitsTheRequest
<1>1. Init => FetchInv
  <2>1. SUFFICES ASSUME Init PROVE FetchInv
    OBVIOUS
  <2>2. PICK K \in {{}, FullKeys, MarketKeys} :
          store = [k \in K |-> [kind |-> "legacy", value |-> "none", expires |-> TTL]]
    BY <2>1 DEF Init, Leftovers
  <2>3. StoreFits
    <3>1. now = 0
      BY <2>1 DEF Init
    <3>2. TTL > 0 /\ TTL \in Int
      BY StoreAssumptions
    <3> QED
      BY <2>2, <3>1, <3>2 DEF StoreFits, EntryFits
  <2> QED
    BY <2>1, <2>3 DEF Init, MarketInit, FetchInv, AnswerFits
<1>2. FetchInv /\ [Next]_vars => FetchInv'
  <2>1. SUFFICES ASSUME FetchInv, [Next]_vars PROVE FetchInv'
    OBVIOUS
  <2>2. ASSUME StoreFits', UNCHANGED market PROVE FetchInv'
    BY <2>1, <2>2, SameAnswer DEF FetchInv, market
  <2>3. CASE MarketNext
    BY <2>1, <2>3, MarketFits
  <2>4. CASE CacheNext /\ UNCHANGED market
    BY <2>1, <2>2, <2>4, CacheFits DEF FetchInv
  <2>5. CASE Clock
    BY <2>1, <2>2, <2>5, TickFits DEF FetchInv, Clock
  <2>6. CASE UNCHANGED vars
    <3>1. UNCHANGED <<store, now>> /\ UNCHANGED market
      BY <2>6 DEF vars
    <3>2. StoreFits'
      BY <2>1, <3>1 DEF FetchInv, StoreFits, EntryFits
    <3> QED
      BY <2>2, <3>1, <3>2
  <2> QED
    BY <2>1, <2>3, <2>4, <2>5, <2>6 DEF Next
<1>3. FetchInv => FitsTheRequest
  BY DEF FetchInv, AnswerFits, FitsTheRequest
<1> QED
  BY <1>1, <1>2, <1>3, PTL DEF Spec

-----------------------------------------------------------------------------
(* Every fetch goes down.                                                  *)

Busy(w) == pc[w] \notin {"idle", "returned", "raised"}
Requested(w) == ToSet(asked[w].tickers)
Missing(w) == Requested(w) \ DOMAIN columns[w]

\* The steps left in a call of fetch_market_data at most: every attempt of the
\* download and of each ticker that has no column yet, and the places before
\* and after them.
Left(w) ==
  CASE pc[w] = "lookup"   -> MaxTries * Cardinality(Requested(w)) + MaxTries + 6
    [] pc[w] = "discard"  -> MaxTries * Cardinality(Requested(w)) + MaxTries + 5
    [] pc[w] = "download" -> MaxTries * Cardinality(Requested(w)) + MaxTries + 4 - tries[w]
    [] pc[w] = "each"     -> MaxTries * Cardinality(Missing(w)) + 3 - tries[w]
    [] pc[w] = "clean"    -> 2
    [] pc[w] = "metadata" -> 1
    [] OTHER -> 0

CallStages == {"idle", "lookup", "discard", "download", "each", "clean", "metadata", "returned",
               "raised"}

\* Fewer attempts failed than there are, and none once every ticker has its column.
Attempting(w) ==
  /\ pc[w] \in CallStages
  /\ IsFiniteSet(Requested(w))
  /\ tries[w] \in 0..(MaxTries - 1)
  /\ pc[w] = "each" /\ Missing(w) = {} => tries[w] = 0
  /\ pc[w] \notin {"download", "each"} => tries[w] = 0

AttemptInv ==
  /\ DOMAIN pc = Workers /\ DOMAIN asked = Workers /\ DOMAIN tries = Workers
  /\ DOMAIN columns = Workers
  /\ \A w \in Workers : Attempting(w)

\* What the steps of one worker do to its own place and request; those of the
\* others leave all of it alone.
Mine(w) == <<pc[w], asked[w], tries[w], columns[w]>>

\* What is left is a natural number, and so are its parts.
LEMMA LeftIs ==
  ASSUME AttemptInv, NEW w \in Workers
  PROVE  /\ Cardinality(Requested(w)) \in Nat /\ Cardinality(Missing(w)) \in Nat
         /\ Cardinality(Missing(w)) <= Cardinality(Requested(w))
         /\ Missing(w) # {} => Cardinality(Missing(w)) >= 1
         /\ MaxTries * Cardinality(Requested(w)) \in Nat /\ MaxTries * Cardinality(Missing(w)) \in Nat
         /\ MaxTries * Cardinality(Missing(w)) <= MaxTries * Cardinality(Requested(w))
         /\ MaxTries \in Nat \ {0}
         /\ tries[w] \in 0..(MaxTries - 1)
         /\ Left(w) \in Nat
<1>1. IsFiniteSet(Requested(w)) /\ Missing(w) \subseteq Requested(w)
  BY DEF AttemptInv, Attempting, Missing
<1>2. /\ Cardinality(Requested(w)) \in Nat /\ Cardinality(Missing(w)) \in Nat
      /\ Cardinality(Missing(w)) <= Cardinality(Requested(w))
      /\ IsFiniteSet(Missing(w))
  BY <1>1, FS_Subset, FS_CardinalityType
<1>3. Missing(w) # {} => Cardinality(Missing(w)) >= 1
  BY <1>2, FS_EmptySet
<1>4. MaxTries \in Nat \ {0} /\ tries[w] \in 0..(MaxTries - 1)
  BY MarketAssumptions DEF AttemptInv, Attempting
<1>5. /\ MaxTries * Cardinality(Requested(w)) \in Nat /\ MaxTries * Cardinality(Missing(w)) \in Nat
      /\ MaxTries * Cardinality(Missing(w)) <= MaxTries * Cardinality(Requested(w))
  <2>1. \A k, a, b \in Nat : a <= b => k * a \in Nat /\ k * b \in Nat /\ k * a <= k * b
    OBVIOUS
  <2> QED
    BY <1>2, <1>4, <2>1
<1>6. Left(w) \in Nat
  <2>1. CASE pc[w] # "each"
    BY <1>4, <1>5, <2>1 DEF Left
  <2>2. CASE pc[w] = "each"
    <3>1. Missing(w) = {} => tries[w] = 0
      BY <2>2 DEF AttemptInv, Attempting
    <3>2. Missing(w) # {} => MaxTries * Cardinality(Missing(w)) >= MaxTries
      <4>1. \A k, a \in Nat : a >= 1 => k * a >= k
        OBVIOUS
      <4> QED
        BY <1>2, <1>3, <1>4, <4>1
    <3>3. MaxTries * Cardinality(Missing(w)) - tries[w] \in Nat
      BY <1>4, <1>5, <3>1, <3>2
    <3>4. Left(w) = MaxTries * Cardinality(Missing(w)) + 3 - tries[w]
      BY <2>2 DEF Left
    <3> QED
      BY <1>4, <1>5, <3>3, <3>4
  <2> QED
    BY <2>1, <2>2
<1> QED
  BY <1>2, <1>3, <1>4, <1>5, <1>6

\* The columns with one more ticker, the i-th that was asked for.
Extended(w, i, c) ==
  [columns EXCEPT ![w] = [u \in DOMAIN @ \cup {asked[w].tickers[i]} |->
                            IF u = asked[w].tickers[i] THEN c ELSE @[u]]]

\* The bound once more, in the form that can be primed.
LEMMA LeftIsNatural == AttemptInv => \A v \in Workers : Left(v) \in Nat
  BY LeftIs

\* A step of a call, as far as its own place goes.
LEMMA CallGoesOn ==
  ASSUME AttemptInv, NEW w \in Workers, Step(w)
  PROVE  /\ Attempting(w)' /\ Left(w)' \in Nat /\ Left(w)' < Left(w)
         /\ DOMAIN pc' = Workers /\ DOMAIN asked' = Workers /\ DOMAIN tries' = Workers
         /\ DOMAIN columns' = Workers
         /\ \A v \in Workers \ {w} : Mine(v)' = Mine(v)
<1> USE DEF AttemptInv, GoTo, KeepStore
<1>0. /\ MaxTries \in Nat \ {0} /\ tries[w] \in 0..(MaxTries - 1) /\ pc[w] \in CallStages
      /\ IsFiniteSet(Requested(w)) /\ Attempting(w)
  BY MarketAssumptions DEF Attempting
<1>1. UNCHANGED asked
  BY DEF Step, Lookup, Discard, Download, EachTicker, BuildFrame, Clean, Finish
<1>2. /\ DOMAIN pc' = Workers /\ DOMAIN tries' = Workers /\ DOMAIN columns' = Workers
      /\ \A v \in Workers \ {w} : pc'[v] = pc[v] /\ tries'[v] = tries[v] /\ columns'[v] = columns[v]
  BY DEF Step, Lookup, Discard, Download, Retry, EachTicker, BuildFrame, Clean, Finish
<1>3. Requested(w)' = Requested(w) /\ \A v \in Workers \ {w} : Mine(v)' = Mine(v)
  BY <1>1, <1>2 DEF Requested, Mine
<1>4. ASSUME Attempting(w)' PROVE Left(w)' \in Nat
  <2>1. ASSUME NEW v \in Workers \ {w} PROVE Attempting(v)'
    <3>1. Attempting(v)
      OBVIOUS
    <3> QED
      BY <1>1, <1>2, <3>1 DEF Attempting, Requested, Missing
  <2>2. AttemptInv'
    BY <1>1, <1>2, <1>4, <2>1
  <2> HIDE DEF AttemptInv
  <2>3. (AttemptInv => \A v \in Workers : Left(v) \in Nat)'
    BY LeftIsNatural, PTL
  <2> QED
    BY <2>2, <2>3
<1> SUFFICES Attempting(w)' /\ Left(w)' < Left(w)
  BY <1>1, <1>2, <1>3, <1>4
<1> DEFINE n == MaxTries * Cardinality(Requested(w))
<1>5. n \in Nat /\ n' = n
  BY <1>3, LeftIs
<1>6. CASE Lookup(w)
  <2>1. pc[w] = "lookup" /\ tries' = tries /\ pc'[w] \in {"download", "discard", "returned"}
    BY <1>6 DEF Lookup
  <2>2. Attempting(w)'
    BY <1>0, <1>3, <2>1 DEF Attempting, CallStages
  <2>3. Left(w)' < Left(w)
    BY <1>0, <1>3, <1>5, <2>1 DEF Left, Attempting
  <2> QED
    BY <2>2, <2>3
<1>7. CASE Discard(w)
  <2>1. pc[w] = "discard" /\ tries' = tries /\ pc'[w] = "download"
    BY <1>7 DEF Discard
  <2>2. Attempting(w)'
    BY <1>0, <1>3, <2>1 DEF Attempting, CallStages
  <2>3. Left(w)' < Left(w)
    BY <1>0, <1>3, <1>5, <2>1 DEF Left, Attempting
  <2> QED
    BY <2>2, <2>3
<1>8. CASE BuildFrame(w)
  <2>1. pc[w] = "each" /\ tries' = tries /\ pc'[w] = "clean" /\ Missing(w) = {}
    BY <1>8 DEF BuildFrame, Missing, Requested
  <2>2. tries[w] = 0
    BY <1>0, <2>1 DEF Attempting
  <2>3. Attempting(w)'
    BY <1>0, <1>3, <2>1, <2>2 DEF Attempting, CallStages
  <2>4. Left(w)' < Left(w)
    <3>1. Left(w)' = 2
      BY <2>1 DEF Left
    <3>2. Left(w) = MaxTries * Cardinality(Missing(w)) + 3 - tries[w]
      BY <2>1 DEF Left
    <3>3. MaxTries * Cardinality(Missing(w)) \in Nat
      BY LeftIs
    <3> QED
      BY <2>2, <3>1, <3>2, <3>3
  <2> QED
    BY <2>3, <2>4
<1>9. CASE Clean(w)
  <2>1. pc[w] = "clean" /\ tries' = tries /\ pc'[w] \in {"raised", "metadata"}
    BY <1>9 DEF Clean
  <2>2. Attempting(w)'
    BY <1>0, <1>3, <2>1 DEF Attempting, CallStages
  <2>3. Left(w)' < Left(w)
    BY <2>1 DEF Left
  <2> QED
    BY <2>2, <2>3
<1>10. CASE Finish(w)
  <2>1. pc[w] = "metadata" /\ tries' = tries /\ pc'[w] = "returned"
    BY <1>10 DEF Finish
  <2>2. Attempting(w)'
    BY <1>0, <1>3, <2>1 DEF Attempting, CallStages
  <2>3. Left(w)' < Left(w)
    BY <2>1 DEF Left
  <2> QED
    BY <2>2, <2>3
<1>11. CASE Download(w)
  <2>0. pc[w] = "download" /\ Left(w) = n + MaxTries + 4 - tries[w]
    BY <1>11 DEF Download, Left
  <2>1. CASE Retry(w, "each") /\ UNCHANGED columns
    <3>1. CASE tries[w] + 1 < MaxTries
      <4>1. pc'[w] = "download" /\ tries'[w] = tries[w] + 1
        BY <2>0, <2>1, <3>1 DEF Retry
      <4>2. Attempting(w)'
        <5>1. tries'[w] \in 0..(MaxTries - 1)
          BY <1>0, <3>1, <4>1
        <5> QED
          BY <1>0, <1>3, <4>1, <5>1 DEF Attempting, CallStages
      <4>3. Left(w)' = n + MaxTries + 4 - (tries[w] + 1)
        BY <1>5, <4>1 DEF Left
      <4> HIDE DEF n
      <4> QED
        BY <1>0, <1>5, <2>0, <4>2, <4>3
    <3>2. CASE ~(tries[w] + 1 < MaxTries)
      <4>1. pc'[w] = "each" /\ tries'[w] = 0
        BY <2>0, <2>1, <3>2 DEF Retry
      <4>2. Attempting(w)'
        BY <1>0, <1>3, <4>1 DEF Attempting, CallStages
      <4>3. Left(w)' = MaxTries * Cardinality(Missing(w))' + 3
        BY <4>1 DEF Left
      <4>4. Missing(w)' = Missing(w)
        BY <1>1, <2>1 DEF Missing, Requested
      <4>5. MaxTries * Cardinality(Missing(w)) <= n /\ MaxTries * Cardinality(Missing(w)) \in Nat
        BY LeftIs
      <4>6. Left(w)' <= n + 3
        BY <1>5, <4>3, <4>4, <4>5
      <4>7. Left(w)' \in Nat
        BY <1>4, <4>2
      <4> HIDE DEF n
      <4> QED
        BY <1>0, <1>5, <2>0, <4>2, <4>6, <4>7
    <3> QED
      BY <3>1, <3>2
  <2>2. ASSUME NEW T \in SUBSET ToSet(asked[w].tickers), NEW c \in [T -> {"present", "sparse"}],
               columns' = [columns EXCEPT ![w] = c], tries' = [tries EXCEPT ![w] = 0],
               GoTo(w, IF T = {} THEN "each" ELSE "clean")
        PROVE  Attempting(w)' /\ Left(w)' < Left(w)
    <3>1. tries'[w] = 0 /\ columns'[w] = c /\ pc'[w] = IF T = {} THEN "each" ELSE "clean"
      BY <2>2
    <3>2. Attempting(w)'
      BY <1>0, <1>3, <3>1 DEF Attempting, CallStages
    <3>3. CASE T = {}
      <4>1. Missing(w)' = Requested(w)
        BY <1>3, <3>1, <3>3 DEF Missing
      <4>2. Left(w)' = n + 3
        BY <1>0, <1>5, <3>1, <3>3, <4>1 DEF Left
      <4> HIDE DEF n
      <4> QED
        BY <1>0, <1>5, <2>0, <3>2, <4>2
    <3>4. CASE T # {}
      <4>1. Left(w)' = 2
        BY <3>1, <3>4 DEF Left
      <4> HIDE DEF n
      <4> QED
        BY <1>0, <1>5, <2>0, <3>2, <4>1
    <3> QED
      BY <3>3, <3>4
  <2> QED
    BY <1>11, <2>1, <2>2 DEF Download
<1>12. CASE EachTicker(w)
  <2>1. PICK i \in DOMAIN asked[w].tickers :
          /\ asked[w].tickers[i] \notin DOMAIN columns[w]
          /\ \/ /\ \E c \in {"present", "sparse"} :
                     columns' = Extended(w, i, c)
                /\ tries' = [tries EXCEPT ![w] = 0]
             \/ IF tries[w] + 1 < MaxTries
                THEN tries' = [tries EXCEPT ![w] = @ + 1] /\ UNCHANGED columns
                ELSE /\ tries' = [tries EXCEPT ![w] = 0]
                     /\ columns' = Extended(w, i, "sparse")
    BY <1>12 DEF EachTicker, Extended
  <2> DEFINE t == asked[w].tickers[i]
             m == Cardinality(Missing(w))
  <2>2. pc[w] = "each" /\ pc'[w] = "each" /\ t \in Missing(w)
    BY <1>12, <2>1 DEF EachTicker, Missing, Requested, ToSet
  <2>3. /\ Left(w) = MaxTries * m + 3 - tries[w] /\ m \in Nat /\ m >= 1
        /\ Left(w)' = MaxTries * Cardinality(Missing(w))' + 3 - tries'[w]
    <3>1. m \in Nat /\ m >= 1
      BY <2>2, LeftIs
    <3> QED
      BY <2>2, <3>1 DEF Left
  <2>4. CASE tries[w] + 1 < MaxTries /\ tries' = [tries EXCEPT ![w] = @ + 1] /\ UNCHANGED columns
    <3>1. tries'[w] = tries[w] + 1 /\ Missing(w)' = Missing(w)
      BY <1>1, <2>4 DEF Missing, Requested
    <3>2. Attempting(w)'
      BY <1>0, <1>3, <2>2, <2>4, <3>1 DEF Attempting
    <3>3. Left(w)' = MaxTries * m + 3 - (tries[w] + 1)
      BY <2>3, <3>1
    <3>4. MaxTries * m \in Nat
      BY LeftIs
    <3> HIDE DEF m
    <3> QED
      BY <1>0, <2>3, <3>2, <3>3, <3>4
  <2>5. ASSUME NEW c, columns' = Extended(w, i, c),
               tries' = [tries EXCEPT ![w] = 0]
        PROVE  Attempting(w)' /\ Left(w)' < Left(w)
    <3>1. tries'[w] = 0 /\ DOMAIN columns'[w] = DOMAIN columns[w] \cup {t}
      BY <2>5 DEF Extended
    <3>2. Missing(w)' = Missing(w) \ {t}
      BY <1>3, <3>1 DEF Missing
    <3>3. Attempting(w)'
      BY <1>0, <1>3, <2>2, <3>1 DEF Attempting
    <3>4. Cardinality(Missing(w))' = m - 1
      <4>1. IsFiniteSet(Missing(w))
        BY <1>0, FS_Subset DEF Missing
      <4>2. Cardinality(Missing(w) \ {t}) = m - 1
        <5>1. t \in Missing(w)
          BY <2>2
        <5> HIDE DEF t
        <5> QED
          BY <4>1, <5>1, FS_RemoveElement
      <4> QED
        BY <3>2, <4>2
    <3>5. Left(w)' = MaxTries * (m - 1) + 3
      BY <2>3, <3>1, <3>4
    <3>6. MaxTries * (m - 1) = MaxTries * m - MaxTries
      BY <1>0, <2>3
    <3>7. MaxTries * m \in Nat
      BY LeftIs
    <3> HIDE DEF m
    <3> QED
      BY <1>0, <2>3, <3>3, <3>5, <3>6, <3>7
  <2> QED
    BY <2>1, <2>4, <2>5
<1> QED
  BY <1>6, <1>7, <1>8, <1>9, <1>10, <1>11, <1>12 DEF Step

\* A call begins with a finite list and no failed attempt.
LEMMA CallBegins ==
  ASSUME AttemptInv, NEW w \in Workers, Call(w) \/ Again(w)
  PROVE  AttemptInv' /\ \A v \in Workers : Busy(v) => Mine(v)' = Mine(v)
<1>1. /\ DOMAIN pc' = Workers /\ DOMAIN asked' = Workers /\ UNCHANGED <<tries, columns>>
      /\ \A v \in Workers \ {w} : pc'[v] = pc[v] /\ asked'[v] = asked[v]
      /\ ~Busy(w)
  BY DEF AttemptInv, Call, Again, GoTo, Busy
<1>2. \A v \in Workers : Busy(v) => Mine(v)' = Mine(v)
  BY <1>1 DEF Mine
<1>3. ASSUME NEW v \in Workers \ {w} PROVE Attempting(v)'
  <2>1. Attempting(v)
    BY DEF AttemptInv
  <2> QED
    BY <1>1, <2>1 DEF Attempting, Requested, Missing
<1>4. Attempting(w)'
  <2>1. Attempting(w) /\ tries'[w] = 0
    BY <1>1 DEF AttemptInv, Attempting, Busy
  <2>2. pc'[w] \in {"idle", "raised", "lookup"}
    BY DEF Call, Again, GoTo, AttemptInv
  <2>3. IsFiniteSet(Requested(w))'
    <3>1. CASE asked' = asked
      BY <2>1, <3>1 DEF Attempting, Requested
    <3>2. CASE Again(w)
      <4>1. asked'[w].tickers = <<>>
        BY <3>2 DEF Again, NoRequest, AttemptInv
      <4>2. ToSet(<<>>) = {}
        BY DEF ToSet
      <4> QED
        BY <4>1, <4>2, FS_EmptySet DEF Requested
    <3>3. CASE Call(w) /\ asked' # asked
      <4>1. PICK list \in Lists : asked'[w].tickers = Normalised(list)
        BY <3>3 DEF Call, AttemptInv
      <4> QED
        BY <4>1, ListsAssumption DEF Requested
    <3> QED
      BY <3>1, <3>2, <3>3
  <2>4. 0 \in 0..(MaxTries - 1)
    BY MarketAssumptions
  <2> QED
    BY <2>1, <2>2, <2>3, <2>4 DEF Attempting, CallStages
<1> QED
  BY <1>1, <1>2, <1>3, <1>4 DEF AttemptInv

\* What is not fetch_market_data does not touch its calls.
LEMMA OthersWait ==
  ASSUME AttemptInv, UNCHANGED <<pc, asked, tries, columns>>
  PROVE  AttemptInv' /\ \A v \in Workers : Mine(v)' = Mine(v)
BY DEF AttemptInv, Attempting, Requested, Missing, Mine

\* Every step of a call takes it nearer to its end, whatever Yahoo and Redis
\* answer, and what anybody else does leaves it where it is: the retries, the
\* fallback ticker by ticker and its own retries cannot go round in circles.
\* What is left of FetchEnds is that the steps are taken.
FetchesGoDown ==
  [][\A w \in Workers : Busy(w) =>
       \/ Mine(w)' = Mine(w)
       \/ Step(w) /\ Left(w)' < Left(w) /\ Left(w)' \in Nat]_vars

\* No fetch goes on for ever, whatever Yahoo and Redis do.
THEOREM FetchesEnd == Spec => FetchesGoDown
<1> DEFINE Down == \A w \in Workers : Busy(w) =>
                      \/ Mine(w)' = Mine(w)
                      \/ Step(w) /\ Left(w)' < Left(w) /\ Left(w)' \in Nat
<1>1. Init => AttemptInv
  <2> SUFFICES ASSUME Init PROVE AttemptInv
    OBVIOUS
  <2>1. ToSet(<<>>) = {} /\ IsFiniteSet({})
    BY FS_EmptySet DEF ToSet
  <2>2. /\ DOMAIN pc = Workers /\ DOMAIN asked = Workers /\ DOMAIN tries = Workers
        /\ DOMAIN columns = Workers
    BY DEF Init, MarketInit
  <2>3. ASSUME NEW w \in Workers PROVE Attempting(w)
    <3>1. pc[w] = "idle" /\ tries[w] = 0 /\ asked[w].tickers = <<>>
      BY DEF Init, MarketInit, NoRequest
    <3>2. 0 \in 0..(MaxTries - 1)
      BY MarketAssumptions
    <3>3. IsFiniteSet(Requested(w))
      BY <2>1, <3>1 DEF Requested
    <3> QED
      BY <3>1, <3>2, <3>3 DEF Attempting, CallStages
  <2> QED
    BY <2>2, <2>3 DEF AttemptInv
<1>2. AttemptInv /\ [Next]_vars => AttemptInv' /\ [Down]_vars
  <2> SUFFICES ASSUME AttemptInv, [Next]_vars PROVE AttemptInv' /\ Down
    OBVIOUS
  <2>1. CASE UNCHANGED <<pc, asked, tries, columns>>
    BY <2>1, OthersWait
  <2>2. ASSUME NEW w \in Workers, Step(w) PROVE AttemptInv' /\ Down
    <3>1. /\ Attempting(w)' /\ Left(w)' \in Nat /\ Left(w)' < Left(w)
          /\ DOMAIN pc' = Workers /\ DOMAIN asked' = Workers /\ DOMAIN tries' = Workers
          /\ DOMAIN columns' = Workers
          /\ \A v \in Workers \ {w} : Mine(v)' = Mine(v)
      BY <2>2, CallGoesOn
    <3>2. ASSUME NEW v \in Workers \ {w} PROVE Attempting(v)'
      <4>1. Attempting(v)
        BY DEF AttemptInv
      <4>2. pc'[v] = pc[v] /\ asked'[v] = asked[v] /\ tries'[v] = tries[v] /\ columns'[v] = columns[v]
        BY <3>1 DEF Mine
      <4> QED
        BY <4>1, <4>2 DEF Attempting, Requested, Missing
    <3>3. AttemptInv'
      BY <3>1, <3>2 DEF AttemptInv
    <3> QED
      BY <2>2, <3>1, <3>3
  <2>3. ASSUME NEW w \in Workers, Call(w) \/ Again(w) PROVE AttemptInv' /\ Down
    <3>1. AttemptInv' /\ \A v \in Workers : Busy(v) => Mine(v)' = Mine(v)
      BY <2>3, CallBegins
    <3> QED
      BY <3>1
  <2>4. \/ UNCHANGED <<pc, asked, tries, columns>>
        \/ \E w \in Workers : Step(w)
        \/ \E w \in Workers : Call(w) \/ Again(w)
    <3>1. CASE UNCHANGED vars
      BY <3>1 DEF vars, market
    <3>2. CASE Next
      <4>1. CASE MarketNext
        <5>1. CASE Invalidate
          BY <5>1 DEF Invalidate
        <5>2. ASSUME NEW w \in Workers, Call(w) \/ Step(w) \/ Again(w)
              PROVE  \/ \E v \in Workers : Step(v)
                     \/ \E v \in Workers : Call(v) \/ Again(v)
          BY <5>2
        <5> QED
          BY <4>1, <5>1, <5>2 DEF MarketNext
      <4>2. CASE CacheNext /\ UNCHANGED market
        BY <4>2 DEF market
      <4>3. CASE Clock
        BY <4>3 DEF Clock, market
      <4> QED
        BY <3>2, <4>1, <4>2, <4>3 DEF Next
    <3> QED
      BY <3>1, <3>2
  <2> HIDE DEF Down
  <2> QED
    BY <2>1, <2>2, <2>3, <2>4
<1>3. QED
  BY <1>1, <1>2, PTL DEF Spec, FetchesGoDown

=============================================================================
