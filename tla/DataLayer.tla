------------------------------ MODULE DataLayer ------------------------------
(***************************************************************************)
(* The data layer: the calls of fetch_market_data and the users of         *)
(* CacheManager over one Redis server and its clock.                       *)
(***************************************************************************)
EXTENDS MarketData, CacheManager

\* No manager's namespace is the prefix fetch_market_data gives its keys
\* (DEFAULT_NAMESPACE is portfolio_optimizer:).
ASSUME NamespaceAssumption == "market_data" \notin Namespaces

vars == <<market, cache, store, now, calls>>

\* Entries of the kind both readers discard may be left from earlier versions.
MarketKeys == {Key(Normalised(l), b) : l \in Lists \ {<<>>}, b \in Lookbacks}
Leftovers == {[k \in K |-> [kind |-> "legacy", value |-> "none", expires |-> TTL]] :
                K \in {{}, FullKeys, MarketKeys}}

Init == MarketInit /\ CacheInit /\ now = 0 /\ calls = 0 /\ store \in Leftovers

\* The clock; a key that expires stands for no flush.
Clock ==
  /\ Tick
  /\ standing' = [c \in Clients |-> standing[c] \cap DOMAIN store']
  /\ UNCHANGED <<market, call, at, todo, page, pooling>>

Next == \/ MarketNext /\ UNCHANGED cache
        \/ CacheNext /\ UNCHANGED market
        \/ Clock

Spec == Init /\ [][Next]_vars
Fair == \A w \in Workers : WF_vars(Step(w) /\ UNCHANGED cache)
FairSpec == Spec /\ Fair

-----------------------------------------------------------------------------

\* What fetch_market_data returns was fetched for the same tickers and window,
\* contains none that were not asked for, and was stamped, at the end of its fetch,
\* less than the TTL ago.
FitsTheRequest ==
  \A w \in Workers : pc[w] = "returned" =>
    /\ result[w].tickers # {}
    /\ result[w].tickers \subseteq ToSet(asked[w].tickers)
    /\ result[w].lookback = asked[w].lookback
    /\ DOMAIN result[w].sectors = result[w].tickers
    /\ result[w].served - result[w].at < TTL

\* Every call ends, with market data or with an exception, whatever Yahoo and
\* Redis do.
FetchEnds == \A w \in Workers : pc[w] = "lookup" ~> pc[w] \in {"returned", "raised"}

\* A flush that went through leaves no key that was there when it began.
FlushClears == \A c \in Clients : at[c] = "flushed" => standing[c] = {}

\* However many threads need the pool at once, one is created, and one more
\* after each reset.
OnePool == opened <= resets + 1

=============================================================================
