------------------------------- MODULE MarketData -------------------------------
(***************************************************************************)
(* fetch_market_data, called by the data_fetch node of several workers at  *)
(* once: the cache entry of the request's tickers, Yahoo Finance with its  *)
(* retries and the per-ticker fallback, the quality filter, the sectors,   *)
(* and the entry written back. Prices are a column per ticker, present or  *)
(* sparse; all a result keeps of them is whose they are and when they were *)
(* fetched.                                                                *)
(***************************************************************************)
EXTENDS RedisStore, SequencesExt

CONSTANTS Workers,       \* calls of fetch_market_data that run at once
          Lists,         \* ticker lists callers pass (bound)
          Normal,        \* Normal[t] is t.strip().upper()
          Lookbacks,     \* lookback_days callers pass
          MinDays,       \* MIN_TRADING_DAYS
          MaxTries,      \* attempts at a download: 3
          Sectors        \* outcomes of a ticker's metadata

ASSUME MarketAssumptions == MaxTries \in Nat \ {0} /\ MinDays \in Nat /\ Lookbacks \subseteq Nat

VARIABLES pc,        \* per worker, where its call is
          asked,     \* per worker, the normalised tickers and lookback_days
          tries,     \* per worker, failed attempts at the download under way
          columns,   \* per worker, the quality of each ticker's prices so far
          result     \* per worker, the MarketData of its last call, and when it was returned

market == <<pc, asked, tries, columns, result>>

NoResult == [tickers |-> {}, lookback |-> 0, sectors |-> <<>>, at |-> 0, served |-> 0]
NoRequest == [tickers |-> <<>>, lookback |-> 0]
NoColumns == [t \in {} |-> "present"]

\* Upper case, without blanks and repetitions, in the caller's order.
Normalised(list) ==
  FoldLeft(LAMBDA done, t : IF Normal[t] = "" \/ Normal[t] \in ToSet(done) THEN done
                            ELSE Append(done, Normal[t]), <<>>, list)

\* A list of tickers is finite, and so is what is left of it.
ASSUME ListsAssumption == \A list \in Lists : IsFiniteSet(ToSet(Normalised(list)))

\* Mutant of Key: the window is not part of it.
KeyOfTickers(tickers, lookback) ==
  <<"market_data", [t \in ToSet(tickers) |-> Cardinality({i \in DOMAIN tickers : tickers[i] = t})], 0>>

\* _make_cache_key: the sorted list, hence how often each spelling occurs.
Key(tickers, lookback) ==
  <<"market_data", [t \in ToSet(tickers) |-> Cardinality({i \in DOMAIN tickers : tickers[i] = t})],
    lookback>>

KeyOf(w) == Key(asked[w].tickers, asked[w].lookback)

MarketInit ==
  /\ pc = [w \in Workers |-> "idle"]
  /\ asked = [w \in Workers |-> NoRequest]
  /\ tries = [w \in Workers |-> 0]
  /\ columns = [w \in Workers |-> NoColumns]
  /\ result = [w \in Workers |-> NoResult]

GoTo(w, there) == pc' = [pc EXCEPT ![w] = there]
KeepStore == UNCHANGED <<store, now, calls>>

-----------------------------------------------------------------------------

\* ValueError for an empty list or a short window.
Call(w) ==
  /\ pc[w] = "idle"
  /\ Calls
  /\ \E list \in Lists, lookback \in Lookbacks :
       IF list = <<>> \/ lookback < MinDays
       THEN GoTo(w, "raised") /\ UNCHANGED asked
       ELSE /\ GoTo(w, "lookup")
            /\ asked' = [asked EXCEPT ![w] = [tickers |-> Normalised(list), lookback |-> lookback]]
  /\ UNCHANGED <<tries, columns, result, store, now>>

\* _get_from_cache: an error is a miss; a value without the prefix is discarded.
Lookup(w) ==
  /\ pc[w] = "lookup"
  /\ \E fails \in Failures :
       CASE fails \/ ~Has(KeyOf(w)) -> GoTo(w, "download") /\ UNCHANGED result
         [] ~fails /\ Has(KeyOf(w)) /\ store[KeyOf(w)].kind = "market" ->
              /\ GoTo(w, "returned")
              /\ result' = [result EXCEPT ![w] = [store[KeyOf(w)].value EXCEPT !.served = now]]
         [] OTHER -> GoTo(w, "discard") /\ UNCHANGED result
  /\ UNCHANGED <<asked, tries, columns>> /\ KeepStore

Discard(w) ==
  /\ pc[w] = "discard"
  /\ \E fails \in Failures : IF fails THEN UNCHANGED store ELSE Del({KeyOf(w)})
  /\ GoTo(w, "download")
  /\ UNCHANGED <<asked, tries, columns, result, now, calls>>

\* Mutant of Retry: after the last attempt it starts over.
RetryForever(w, next) ==
  /\ tries' = [tries EXCEPT ![w] = IF @ + 1 < MaxTries THEN @ + 1 ELSE 0]
  /\ UNCHANGED pc

\* An attempt raised: the next one, or the next step after the last.
Retry(w, next) ==
  /\ tries' = [tries EXCEPT ![w] = IF @ + 1 < MaxTries THEN @ + 1 ELSE 0]
  /\ GoTo(w, IF tries[w] + 1 < MaxTries THEN pc[w] ELSE next)

\* _download_with_retry: an exception is retried, an empty frame is not. Yahoo
\* answers with columns of requested tickers, some of them sparse.
Download(w) ==
  /\ pc[w] = "download"
  /\ \/ Retry(w, "each") /\ UNCHANGED columns
     \/ \E T \in SUBSET ToSet(asked[w].tickers) : \E c \in [T -> {"present", "sparse"}] :
          /\ columns' = [columns EXCEPT ![w] = c]
          /\ tries' = [tries EXCEPT ![w] = 0]
          /\ GoTo(w, IF T = {} THEN "each" ELSE "clean")
  /\ UNCHANGED <<asked, result>> /\ KeepStore

\* _fetch_per_ticker: the tickers one by one, in order; one without an answer is
\* left out of the frame, as are sparse ones in the end.
EachTicker(w) ==
  /\ pc[w] = "each"
  /\ \E i \in DOMAIN asked[w].tickers :
       LET t == asked[w].tickers[i]
           Got(c) == columns' = [columns EXCEPT ![w] =
                                   [u \in DOMAIN @ \cup {t} |-> IF u = t THEN c ELSE @[u]]]
       IN  /\ t \notin DOMAIN columns[w]
           /\ \A j \in 1..(i - 1) : asked[w].tickers[j] \in DOMAIN columns[w]
           /\ \/ /\ \E c \in {"present", "sparse"} : Got(c)
                 /\ tries' = [tries EXCEPT ![w] = 0]
              \/ IF tries[w] + 1 < MaxTries
                 THEN tries' = [tries EXCEPT ![w] = @ + 1] /\ UNCHANGED columns
                 ELSE tries' = [tries EXCEPT ![w] = 0] /\ Got("sparse")
  /\ UNCHANGED <<pc, asked, result>> /\ KeepStore

BuildFrame(w) ==
  /\ pc[w] = "each"
  /\ ToSet(asked[w].tickers) \subseteq DOMAIN columns[w]
  /\ GoTo(w, "clean")
  /\ UNCHANGED <<asked, tries, columns, result>> /\ KeepStore

\* The columns that survive dropna. They keep the order of the request, which
\* nothing here depends on.
Usable(w) == {t \in ToSet(asked[w].tickers) : t \in DOMAIN columns[w] /\ columns[w][t] = "present"}

\* The filter; then fewer than MIN_TRADING_DAYS rows may be left.
Clean(w) ==
  /\ pc[w] = "clean"
  /\ \E enough \in BOOLEAN :
       IF Usable(w) = {} \/ ~enough
       THEN GoTo(w, "raised") /\ columns' = [columns EXCEPT ![w] = NoColumns]
       ELSE GoTo(w, "metadata") /\ UNCHANGED columns
  /\ UNCHANGED <<asked, tries, result>> /\ KeepStore

\* _fetch_ticker_metadata: a ticker whose request failed has the sector "Unknown".
Metadata(w) == [Usable(w) -> Sectors]

\* _set_in_cache: a failing write is ignored.
WriteBack(w, data) == \E fails \in Failures :
  IF fails THEN UNCHANGED store ELSE SetEx(KeyOf(w), "market", data)

\* The result is stamped, now that everything was fetched, and written.
Finish(w) ==
  /\ pc[w] = "metadata"
  /\ \E sectors \in Metadata(w) :
       LET data == [tickers |-> Usable(w), lookback |-> asked[w].lookback,
                    sectors |-> sectors, at |-> now, served |-> now]
       IN  /\ result' = [result EXCEPT ![w] = data]
           /\ WriteBack(w, data)
  /\ columns' = [columns EXCEPT ![w] = NoColumns]
  /\ GoTo(w, "returned")
  /\ UNCHANGED <<asked, tries, now, calls>>

\* The caller is done with the answer or the exception.
Again(w) ==
  /\ pc[w] \in {"returned", "raised"}
  /\ GoTo(w, "idle")
  /\ asked' = [asked EXCEPT ![w] = NoRequest]
  /\ result' = [result EXCEPT ![w] = NoResult]
  /\ UNCHANGED <<tries, columns>> /\ KeepStore

\* invalidate_cache, which makes its key of the list as it is passed.
Invalidate ==
  /\ Calls
  /\ \E list \in Lists \ {<<>>}, lookback \in Lookbacks : Del({Key(list, lookback)})
  /\ UNCHANGED <<pc, asked, tries, columns, result, now>>

Step(w) == \/ Lookup(w) \/ Discard(w) \/ Download(w) \/ EachTicker(w) \/ BuildFrame(w)
           \/ Clean(w) \/ Finish(w)

MarketNext == Invalidate \/ \E w \in Workers : Call(w) \/ Step(w) \/ Again(w)
=============================================================================
