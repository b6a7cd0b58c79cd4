------------------------------ MODULE SlotFilling ------------------------------
(***************************************************************************)
(* What a conversation is turned into: the slots (ExtractedSlots), read    *)
(* from the user's words by the local extractor or by the language model,  *)
(* and the OptimizationRequest built from them. Slots and request bodies   *)
(* are dictionaries: functions from a set of field names. Money is a       *)
(* number, a percentage a natural number of percent.                       *)
(*                                                                         *)
(* A text is the sequence of the phrases the extractor's patterns know,    *)
(* each with what it is and the value it stands for; other words are left  *)
(* out.                                                                    *)
(***************************************************************************)
EXTENDS Naturals, SequencesExt

CONSTANTS Normal,      \* Normal[t] is t.strip().upper()
          NoTickers,   \* capitals that are no tickers: _excluded_words, single letters
          MaxTickers,  \* MAX_TICKERS_PER_REQUEST and OptimizationRequest: 50
          MaxParsed,   \* MAX_BUDGET, what the extractor lets through: 1e12
          MaxBudget    \* what OptimizationRequest does: 1e9

ASSUME SlotAssumptions == /\ MaxTickers \in Nat /\ MaxTickers >= 2
                          /\ MaxParsed \in Nat /\ MaxBudget \in Nat

\* Spelling a symbol in upper case without blanks again changes nothing.
ASSUME NormalAssumption == \A t \in DOMAIN Normal : /\ Normal[t] \in DOMAIN Normal
                                                   /\ Normal[Normal[t]] = Normal[t]

Empty == [f \in {} |-> TRUE]
Only(d, fields) == [f \in DOMAIN d \cap fields |-> d[f]]

Fields == {"tickers", "budget", "min_return", "max_volatility", "max_weight_per_asset",
           "min_weight_per_asset", "num_assets_to_select", "lookback_days", "run_quantum",
           "objectives", "frontier"}

-----------------------------------------------------------------------------
(* What slots and requests have in common.                                 *)

\* Field(ge=..., le=...)
Bounds == [min_return |-> 0..500, max_volatility |-> 0..500, max_weight_per_asset |-> 0..100,
           min_weight_per_asset |-> 0..100, num_assets_to_select |-> 2..50,
           lookback_days |-> 30..3650]

InBounds(d) == \A f \in DOMAIN d \cap DOMAIN Bounds : d[f] \in Bounds[f]

WeightsOrdered(d) == {"min_weight_per_asset", "max_weight_per_asset"} \subseteq DOMAIN d
                       => d.min_weight_per_asset < d.max_weight_per_asset

DistinctAxes(d) ==
  "frontier" \in DOMAIN d => (d.frontier.enabled => d.frontier.x_measure # d.frontier.y_measure)

\* list[str]
Tickers == Seq(DOMAIN Normal)

\* The elements of s at these places, in their order.
Rank(P, i) == Cardinality({j \in P : j <= i})
At(s, P) == [n \in 1..Cardinality(P) |-> s[CHOOSE i \in P : Rank(P, i) = n]]

Upper(tickers) == [i \in DOMAIN tickers |-> Normal[tickers[i]]]
FirstNamed(names) == {i \in DOMAIN names : \A j \in DOMAIN names : names[j] = names[i] => i <= j}

\* Upper case, each symbol once, where it is named first.
Symbols(tickers) == At(Upper(tickers), FirstNamed(Upper(tickers)))

-----------------------------------------------------------------------------
(* ExtractedSlots.                                                         *)

SlotsValid(d) == /\ "tickers" \in DOMAIN d => d.tickers \in Tickers
                 /\ "budget" \in DOMAIN d => d.budget > 0
                 /\ InBounds(d)
                 /\ WeightsOrdered(d)
                 /\ DistinctAxes(d)

\* normalise_tickers: blanks are dropped, and no ticker at all is None.
Normalised(d) ==
  IF "tickers" \notin DOMAIN d THEN d
  ELSE LET names == Upper(d.tickers)
           named == At(names, {i \in FirstNamed(names) : names[i] # ""})
       IN  IF named = <<>> THEN Only(d, Fields \ {"tickers"})
           ELSE [d EXCEPT !.tickers = named]

MissingRequired(d) ==
  {f \in {"tickers", "budget"} : \/ f \notin DOMAIN d
                                 \/ f = "tickers" /\ Len(d.tickers) < 2}

HasRequired(d) == MissingRequired(d) = {}

\* _merge_slots, like every update of a dictionary: new values overwrite, the
\* others stay.
Merge(existing, new) == [f \in DOMAIN existing \cup DOMAIN new |->
                           IF f \in DOMAIN new THEN new[f] ELSE existing[f]]

-----------------------------------------------------------------------------
(* _fallback_response: the extractor used without an API key.              *)

\* The value of the first phrase of these kinds, if there is one.
First(text, kinds) ==
  LET hits == {i \in DOMAIN text : text[i].is \in kinds}
  IN  {text[i].value : i \in {j \in hits : \A k \in hits : j <= k}}

\* The capitals that may be tickers, if there are two of them.
TickersIn(text) ==
  LET words == {i \in DOMAIN text : text[i].is = "word" /\ text[i].value \notin NoTickers}
      found == {i \in words : \A j \in words : text[j].value = text[i].value => i <= j}
  IN  IF Cardinality(found) < 2 THEN {}
      ELSE {At([i \in DOMAIN text |-> text[i].value], {i \in found : Rank(found, i) <= MaxTickers})}

\* $50k before "50000 dollars" before "fifty thousand"; an amount out of range is
\* dropped, and no other one is looked for.
BudgetIn(text) ==
  LET dollars == First(text, {"dollars"})
      amount  == First(text, {"amount"})
      named   == IF dollars # {} THEN dollars
                 ELSE IF amount # {} THEN amount ELSE First(text, {"spelled"})
  IN  {b \in named : 1 <= b /\ b <= MaxParsed}

\* pct / 100.0 if pct > 1.0 else pct: "1%" is read as 100%.
Percent(said) == {IF p > 1 THEN p ELSE 100 * p : p \in said}

\* A return with "at least" counts before one without.
ReturnIn(text) == Percent(IF First(text, {"floor"}) # {} THEN First(text, {"floor"})
                          ELSE First(text, {"return"}))

VolatilityIn(text) == Percent(First(text, {"ceiling"}))

QuantumIn(text) == IF First(text, {"skip"}) # {} THEN {FALSE} ELSE First(text, {"run"})

Found(text) == [tickers |-> TickersIn(text), budget |-> BudgetIn(text),
                min_return |-> ReturnIn(text), max_volatility |-> VolatilityIn(text),
                run_quantum |-> QuantumIn(text)]

\* Only what is not stored yet is looked for.
Overlaid(slots, text) ==
  Merge([f \in {g \in DOMAIN Found(text) : Found(text)[g] # {}} |->
           CHOOSE v \in Found(text)[f] : TRUE], slots)

\* One value that is out of bounds, and all of the extraction is dropped.
Partial(slots, text) ==
  IF SlotsValid(Overlaid(slots, text)) THEN Normalised(Overlaid(slots, text))
  ELSE IF SlotsValid(slots) THEN Normalised(slots) ELSE Empty

\* The slots when they are complete, a question otherwise.
Extract(slots, text) ==
  LET partial == Partial(slots, text)
  IN  IF HasRequired(partial) THEN [slots |-> partial, asks |-> FALSE]
      ELSE [slots |-> Empty, asks |-> TRUE]

-----------------------------------------------------------------------------
(* OptimizationRequest.                                                    *)

\* min_length and max_length count the list as it was given.
TickersValid(d) ==
  /\ "tickers" \in DOMAIN d
  /\ d.tickers \in Tickers
  /\ Len(d.tickers) \in 2..MaxTickers
  /\ \A i \in DOMAIN d.tickers : Normal[d.tickers[i]] # ""

BudgetValid(d) == "budget" \in DOMAIN d /\ d.budget \in 1..MaxBudget

\* Mutant of AssetsFit: counts the tickers as they were given.
AssetsFitAsGiven(d) ==
  "num_assets_to_select" \in DOMAIN d => d.num_assets_to_select <= Len(d.tickers)

\* validate_num_assets_vs_tickers runs after the tickers are normalised.
AssetsFit(d) ==
  "num_assets_to_select" \in DOMAIN d => d.num_assets_to_select <= Len(Symbols(d.tickers))

\* The percents that the enabled objectives ask for, counted one by one: as many as
\* their weights, of 0..100 each, add up to.
Claims(objectives) ==
  {c \in (DOMAIN objectives) \X (1..100) : /\ objectives[c[1]].enabled
                                          /\ c[2] <= objectives[c[1]].weight}

\* No name twice, and the weights that count add up to more than 0 and at most 100%.
ObjectivesValid(d) ==
  "objectives" \in DOMAIN d =>
    /\ \A i, j \in DOMAIN d.objectives :
         d.objectives[i].name = d.objectives[j].name => i = j
    /\ Cardinality(Claims(d.objectives)) \in 1..100

RequestValid(d) == /\ TickersValid(d)
                   /\ BudgetValid(d)
                   /\ InBounds(d)
                   /\ WeightsOrdered(d)
                   /\ AssetsFit(d)
                   /\ ObjectivesValid(d)
                   /\ DistinctAxes(d)

\* The value of the field, if it is there.
ValueOf(d, f) == IF f \in DOMAIN d THEN {d[f]} ELSE {}

Row(name, direction, threshold) ==
  [name |-> name, direction |-> direction, weight |-> 50, threshold |-> threshold,
   enabled |-> TRUE]

\* normalize_legacy_constraints: a floor or a ceiling becomes two objectives.
WithObjectives(d) ==
  IF "objectives" \in DOMAIN d \/ DOMAIN d \cap {"min_return", "max_volatility"} = {} THEN d
  ELSE Merge(d, [objectives |-> <<Row("return", "maximize", ValueOf(d, "min_return")),
                                  Row("volatility", "minimize", ValueOf(d, "max_volatility"))>>])

RequestOf(d) == WithObjectives([d EXCEPT !.tickers = Symbols(@)])
=============================================================================
