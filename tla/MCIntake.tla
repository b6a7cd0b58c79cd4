------------------------------- MODULE MCIntake --------------------------------
(* Instances of Intake for TLC.                                              *)
EXTENDS Intake

Spelled == [t \in {"a", "A", "B", "C", "D", "I", ""} |-> IF t = "a" THEN "A" ELSE t]

Word(w) == [is |-> "word", value |-> w]
Phrase(kind, value) == [is |-> kind, value |-> value]

\* Symbols, amounts that are too small or too large for somebody, a "1% return"
\* and a return no slot can hold.
Texts ==
  {<<Word("I"), Word("A"), Phrase("skip", FALSE)>>,
   <<Word("B"), Word("C"), Word("A"), Word("D")>>,
   <<Phrase("dollars", 0), Phrase("floor", 1)>>,
   <<Phrase("amount", 40), Phrase("run", TRUE)>>,
   <<Phrase("spelled", 60), Phrase("return", 12), Phrase("floor", 600)>>,
   <<Word("A"), Word("B"), Phrase("dollars", 200), Phrase("ceiling", 20)>>}

Reply(s) == [slots |-> s, asks |-> s = Empty]

\* A question, neither question nor slots, one ticker, limits that only contradict
\* each other together, more assets than tickers, objectives.
Objects ==
  {Reply(Empty), [slots |-> Empty, asks |-> FALSE],
   Reply([tickers |-> <<"a", "", "A">>]),
   Reply([tickers |-> <<"a", "B">>, budget |-> 50, min_weight_per_asset |-> 30]),
   Reply([budget |-> 70, max_weight_per_asset |-> 20, max_volatility |-> 600]),
   Reply([budget |-> 90, max_weight_per_asset |-> 20, min_return |-> 8]),
   Reply([tickers |-> <<"A", "C">>, num_assets_to_select |-> 3,
          objectives |-> <<[name |-> "esg_score", direction |-> "maximize", weight |-> 60,
                            threshold |-> {}, enabled |-> TRUE]>>])}

Changes ==
  {Empty, [tickers |-> <<"a", "A", "B">>], [num_assets_to_select |-> 2, budget |-> 300],
   [weights |-> 1],
   [objectives |-> <<[name |-> "return", direction |-> "maximize", weight |-> 100,
                      threshold |-> {}, enabled |-> FALSE]>>],
   [frontier |-> [enabled |-> TRUE, x_measure |-> "return", y_measure |-> "return"]],
   [budget |-> 10, run_quantum |-> FALSE]}

\* "e.g. AAPL, MSFT, GOOGL" in the model's question and in the service's.
Examples ==
  [welcome |-> <<>>, local |-> <<>>, prompt |-> <<>>,
   model   |-> <<Word("B"), Word("C")>>,
   service |-> <<Word("A"), Word("B"), Word("C")>>]
=============================================================================
