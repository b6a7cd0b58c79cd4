----------------------------- MODULE IntakeProofs -----------------------------
(***************************************************************************)
(* Theorems about Intake: the request of a confirmed conversation, for any *)
(* words of the user, any answers of the language model, any overrides and *)
(* any number of exchanges and of handovers between processes.             *)
(***************************************************************************)
EXTENDS Intake, FiniteSums

-----------------------------------------------------------------------------
(* Picking elements of a sequence by their places.                         *)

LEMMA UpTo ==
  ASSUME NEW m \in Nat PROVE IsFiniteSet(1..m) /\ Cardinality(1..m) = m
<1>1. IsFiniteSet(1..m) /\ Cardinality(1..m) = IF 1 > m THEN 0 ELSE m - 1 + 1
  BY FS_Interval
<1> QED
  BY <1>1

\* Places up to a bound.
LEMMA PlacesFinite ==
  ASSUME NEW L \in Nat, NEW P \in SUBSET (1..L)
  PROVE  /\ IsFiniteSet(P) /\ Cardinality(P) \in 0..L
         /\ \A m \in Int : IsFiniteSet({j \in P : j <= m}) /\ Cardinality({j \in P : j <= m}) \in Nat
<1>1. IsFiniteSet(1..L) /\ Cardinality(1..L) = L
  BY FS_Interval
<1>2. ASSUME NEW Q \in SUBSET (1..L) PROVE IsFiniteSet(Q) /\ Cardinality(Q) \in 0..L
  <2>1. IsFiniteSet(Q) /\ Cardinality(Q) <= Cardinality(1..L)
    BY <1>1, FS_Subset
  <2>2. Cardinality(Q) \in Nat
    BY <2>1, FS_CardinalityType
  <2> QED
    BY <1>1, <2>1, <2>2
<1>3. ASSUME NEW m \in Int PROVE {j \in P : j <= m} \in SUBSET (1..L)
  OBVIOUS
<1> QED
  BY <1>2, <1>3

\* Every rank is that of a place.
LEMMA EveryRank ==
  ASSUME NEW L \in Nat, NEW P \in SUBSET (1..L), NEW n \in 1..Cardinality(P)
  PROVE  \E i \in P : Rank(P, i) = n
<1> DEFINE B(m) == {j \in P : j <= m}
           A == {m \in 0..L : Cardinality(B(m)) >= n}
<1>0. \A j \in P : j \in 1..L /\ j <= L /\ ~(j <= 0)
  OBVIOUS
<1>1. /\ Cardinality(P) \in Nat
      /\ \A m \in 0..L : IsFiniteSet(B(m)) /\ Cardinality(B(m)) \in Nat
  BY PlacesFinite
<1>2. L \in A
  <2>1. B(L) = P
    BY Zenon, <1>0
  <2> QED
    BY <1>1, <2>1
<1>3. PICK m \in A : \A k \in A : m <= k
  <2>1. A \subseteq Nat /\ A # {}
    <3> HIDE DEF B
    <3> QED
      BY <1>2
  <2> HIDE DEF A
  <2> QED
    BY <2>1, LeastNumber
<1>4. m \in 1..L
  <2>1. B(0) = {}
    BY Zenon, <1>0
  <2>2. Cardinality(B(0)) = 0
    BY <2>1, FS_EmptySet
  <2> HIDE DEF B
  <2>3. m # 0
    BY <2>2
  <2> QED
    BY <2>3
<1>5. m - 1 \in 0..L /\ m - 1 \notin A
  <2>1. m - 1 \in 0..L /\ ~(m <= m - 1)
    BY <1>4
  <2> QED
    BY <1>3, <2>1
<1>6. Cardinality(B(m-1)) < n /\ Cardinality(B(m)) >= n
  <2> HIDE DEF B
  <2> QED
    BY <1>1, <1>5
<1>7. m \in P
  <2>1. CASE m \notin P
    <3>1. \A j \in P : j <= m <=> j <= m - 1
      BY <1>0, <1>4, <2>1
    <3>2. B(m) = B(m-1)
      BY <3>1
    <3> HIDE DEF B, A
    <3> QED
      BY <1>1, <1>4, <1>5, <1>6, <3>2
  <2> QED
    BY <2>1
<1>8. Cardinality(B(m)) = Cardinality(B(m-1)) + 1
  <2>0. /\ \A j \in P : j <= m <=> (j <= m - 1 \/ j = m)
        /\ m <= m /\ ~(m <= m - 1)
    BY <1>0, <1>4
  <2>1. B(m) = B(m-1) \cup {m} /\ m \notin B(m-1)
    BY <1>7, <2>0
  <2>2. IsFiniteSet(B(m-1))
    BY <1>1, <1>5
  <2> HIDE DEF B
  <2> QED
    BY <2>1, <2>2, FS_AddElement
<1>9. Cardinality(B(m)) = n
  <2> HIDE DEF B, A
  <2> QED
    BY <1>1, <1>4, <1>5, <1>6, <1>8
<1> QED
  BY <1>7, <1>9 DEF Rank

LEMMA AtElements ==
  ASSUME NEW L \in Nat, NEW P \in SUBSET (1..L), NEW s
  PROVE  /\ Cardinality(P) \in 0..L /\ DOMAIN At(s, P) = 1..Cardinality(P)
         /\ \A n \in 1..Cardinality(P) : \E i \in P : Rank(P, i) = n /\ At(s, P)[n] = s[i]
<1>1. Cardinality(P) \in 0..L /\ DOMAIN At(s, P) = 1..Cardinality(P)
  BY PlacesFinite DEF At
<1>2. ASSUME NEW n \in 1..Cardinality(P) PROVE \E i \in P : Rank(P, i) = n /\ At(s, P)[n] = s[i]
  <2>1. \E i \in P : Rank(P, i) = n
    BY EveryRank
  <2> DEFINE i == CHOOSE i \in P : Rank(P, i) = n
  <2>2. i \in P /\ Rank(P, i) = n
    BY <2>1
  <2>3. At(s, P)[n] = s[i]
    BY DEF At
  <2> QED
    BY <2>2, <2>3
<1> QED
  BY <1>1, <1>2

-----------------------------------------------------------------------------
(* Symbols.                                                                *)

\* A list that needs no more normalising.
Settled(t) == /\ t \in Tickers
              /\ \A i \in DOMAIN t : Normal[t[i]] = t[i]
              /\ \A i, j \in DOMAIN t : t[i] = t[j] => i = j

\* Normalising it again leaves it as it is.
LEMMA SymbolsOfSettled ==
  ASSUME NEW t, Settled(t) PROVE Symbols(t) = t
<1>1. /\ t \in Seq(DOMAIN Normal) /\ Len(t) \in Nat /\ DOMAIN t = 1..Len(t)
      /\ t = [i \in 1..Len(t) |-> t[i]]
  BY DEF Settled, Tickers
<1> DEFINE L == Len(t)
<1>2. Upper(t) = t
  <2>1. Upper(t) = [i \in 1..Len(t) |-> t[i]]
    BY <1>1 DEF Upper, Settled
  <2> QED
    BY <1>1, <2>1
<1>3. FirstNamed(t) = 1..L
  <2>1. \A i, j \in 1..L : t[j] = t[i] => i <= j
    BY <1>1 DEF Settled
  <2> QED
    BY <1>1, <2>1 DEF FirstNamed
<1>4. ASSUME NEW m \in Nat PROVE Cardinality(1..m) = m
  BY UpTo
<1>5. ASSUME NEW i \in 1..L PROVE Rank(1..L, i) = i
  <2>1. {j \in 1..L : j <= i} = 1..i
    BY <1>1
  <2>2. Cardinality(1..i) = i
    BY <1>4
  <2> QED
    BY <2>1, <2>2 DEF Rank
<1>6. At(t, 1..L) = [n \in 1..L |-> t[n]]
  <2>1. ASSUME NEW n \in 1..L PROVE (CHOOSE i \in 1..L : Rank(1..L, i) = n) = n
    BY <1>5
  <2>2. Cardinality(1..L) = L
    BY <1>1, <1>4
  <2> HIDE DEF L
  <2>3. At(t, 1..L) = [n \in 1..L |-> t[CHOOSE i \in 1..L : Rank(1..L, i) = n]]
    BY Zenon, <2>2 DEF At
  <2> QED
    BY Zenon, <2>1, <2>3
<1> QED
  BY <1>1, <1>2, <1>3, <1>6 DEF Symbols

\* What is picked of the first mentions is settled, and no longer than the list.
LEMMA PickedAreSettled ==
  ASSUME NEW t \in Tickers, NEW P \in SUBSET FirstNamed(Upper(t))
  PROVE  /\ Settled(At(Upper(t), P)) /\ Len(At(Upper(t), P)) <= Len(t)
         /\ \A n \in DOMAIN At(Upper(t), P) : \E i \in P : At(Upper(t), P)[n] = Upper(t)[i]
<1> DEFINE N == Upper(t)
           a == At(N, P)
<1>1. /\ Len(t) \in Nat /\ DOMAIN t = 1..Len(t) /\ \A i \in 1..Len(t) : t[i] \in DOMAIN Normal
  BY DEF Tickers
<1>2. /\ DOMAIN N = 1..Len(t)
      /\ \A i \in 1..Len(t) : N[i] \in DOMAIN Normal /\ Normal[N[i]] = N[i]
  BY <1>1, NormalAssumption DEF Upper
<1>3. P \in SUBSET (1..Len(t)) /\ \A i, j \in P : N[i] = N[j] => i = j
  <2> HIDE DEF N
  <2>1. P \in SUBSET (1..Len(t)) /\ \A i, j \in P : N[i] = N[j] => i <= j /\ j <= i
    BY <1>2 DEF FirstNamed, N
  <2>2. \A i, j \in 1..Len(t) : i <= j /\ j <= i => i = j
    BY <1>1
  <2> QED
    BY <2>1, <2>2
<1>4. /\ Cardinality(P) \in 0..Len(t) /\ DOMAIN a = 1..Cardinality(P)
      /\ \A n \in 1..Cardinality(P) : \E i \in P : Rank(P, i) = n /\ a[n] = N[i]
  BY <1>1, <1>3, AtElements
<1>5. a = [n \in 1..Cardinality(P) |-> a[n]]
  BY DEF At
<1> HIDE DEF a, N
<1>6. \A n \in 1..Cardinality(P) : a[n] \in DOMAIN Normal /\ Normal[a[n]] = a[n]
  BY <1>2, <1>3, <1>4
<1>7. a \in Seq(DOMAIN Normal) /\ Len(a) = Cardinality(P)
  BY <1>4, <1>5, <1>6
<1>8. \A m, n \in 1..Cardinality(P) : a[m] = a[n] => m = n
  BY <1>3, <1>4
<1>9. Settled(a) /\ Len(a) <= Len(t) /\ \A n \in DOMAIN a : \E i \in P : a[n] = N[i]
  BY <1>1, <1>4, <1>6, <1>7, <1>8 DEF Settled, Tickers
<1> QED
  BY <1>9 DEF a, N

LEMMA SymbolsAreSettled ==
  ASSUME NEW t \in Tickers PROVE Settled(Symbols(t)) /\ Len(Symbols(t)) <= Len(t)
BY PickedAreSettled DEF Symbols

-----------------------------------------------------------------------------
(* Slots.                                                                  *)

SlotsSettled(d) ==
  "tickers" \in DOMAIN d => /\ Settled(d.tickers) /\ d.tickers # <<>>
                            /\ \A i \in DOMAIN d.tickers : d.tickers[i] # ""

LEMMA NormalisedSlots ==
  ASSUME NEW d, SlotsValid(d) PROVE SlotsSettled(Normalised(d))
<1>1. CASE "tickers" \notin DOMAIN d
  BY <1>1 DEF Normalised, SlotsSettled
<1>2. CASE "tickers" \in DOMAIN d
  <2> DEFINE names == Upper(d.tickers)
             P == {i \in FirstNamed(names) : names[i] # ""}
             named == At(names, P)
  <2>1. Settled(named) /\ \A n \in DOMAIN named : named[n] # ""
    <3>1. d.tickers \in Tickers /\ P \in SUBSET FirstNamed(names)
      BY <1>2 DEF SlotsValid
    <3>2. \A i \in P : names[i] # ""
      OBVIOUS
    <3> HIDE DEF P
    <3>3. Settled(named) /\ \A n \in DOMAIN named : \E i \in P : named[n] = names[i]
      BY <3>1, PickedAreSettled
    <3> QED
      BY <3>2, <3>3
  <2>2. \/ Normalised(d) = Only(d, Fields \ {"tickers"})
        \/ Normalised(d) = [d EXCEPT !.tickers = named] /\ named # <<>>
    BY <1>2 DEF Normalised
  <2> HIDE DEF named
  <2>3. CASE Normalised(d) = Only(d, Fields \ {"tickers"})
    BY <2>3 DEF Only, SlotsSettled
  <2>4. CASE Normalised(d) = [d EXCEPT !.tickers = named] /\ named # <<>>
    BY <1>2, <2>1, <2>4 DEF SlotsSettled
  <2> QED
    BY <2>2, <2>3, <2>4
<1> QED
  BY <1>1, <1>2

\* What the extractor and the language model hand over.
LEMMA ExtractedSlots ==
  ASSUME NEW conversation, NEW o \in Extracted(conversation) PROVE SlotsSettled(o.slots)
<1>0. SlotsSettled(Empty)
  BY DEF SlotsSettled, Empty
<1>1. CASE keyed
  <2>1. PICK p \in Outputs : SlotsValid(p.slots) /\ o = [slots |-> Normalised(p.slots), asks |-> p.asks]
    BY <1>1 DEF Extracted, Parsed
  <2> QED
    BY <2>1, NormalisedSlots
<1>2. CASE ~keyed
  <2> DEFINE text == UserText(conversation)
  <2>1. o = Extract(slots, text)
    BY <1>2 DEF Extracted
  <2>2. SlotsSettled(Partial(slots, text))
    <3> HIDE DEF text
    <3>1. CASE SlotsValid(Overlaid(slots, text))
      BY <3>1, NormalisedSlots DEF Partial
    <3>2. CASE ~SlotsValid(Overlaid(slots, text)) /\ SlotsValid(slots)
      BY <3>2, NormalisedSlots DEF Partial
    <3>3. CASE ~SlotsValid(Overlaid(slots, text)) /\ ~SlotsValid(slots)
      BY <1>0, <3>3 DEF Partial
    <3> QED
      BY <3>1, <3>2, <3>3
  <2> HIDE DEF text
  <2>3. o.slots = Partial(slots, text) \/ o.slots = Empty
    BY <2>1 DEF Extract
  <2> QED
    BY <1>0, <2>2, <2>3
<1> QED
  BY <1>1, <1>2

LEMMA MergedSlots ==
  ASSUME NEW d, SlotsSettled(d), NEW e, SlotsSettled(e) PROVE SlotsSettled(Merge(d, e))
<1> DEFINE m == Merge(d, e)
<1>1. /\ DOMAIN m = DOMAIN e \cup DOMAIN d
      /\ "tickers" \in DOMAIN m => m.tickers = IF "tickers" \in DOMAIN e THEN e.tickers ELSE d.tickers
  BY DEF Merge
<1> QED
  BY <1>1 DEF SlotsSettled


-----------------------------------------------------------------------------
(* Requests.                                                               *)

\* The two objectives made of a floor and a ceiling.
Legacy(d) == <<Row("return", "maximize", ValueOf(d, "min_return")),
               Row("volatility", "minimize", ValueOf(d, "max_volatility"))>>

\* They share the whole between them.
LEMMA LegacyIsValid ==
  ASSUME NEW d
  PROVE  /\ \A i, j \in DOMAIN Legacy(d) : Legacy(d)[i].name = Legacy(d)[j].name => i = j
         /\ Cardinality(Claims(Legacy(d))) \in 1..100
<1> DEFINE rows == Legacy(d)
<1>1. /\ DOMAIN rows = 1..2 /\ rows[1].name = "return" /\ rows[2].name = "volatility"
      /\ \A i \in 1..2 : rows[i].enabled /\ rows[i].weight = 50
  BY DEF Legacy, Row
<1> HIDE DEF rows
<1>2. \A i, j \in DOMAIN rows : rows[i].name = rows[j].name => i = j
  BY <1>1
<1>3. Claims(rows) = (1..2) \X (1..50)
  <2>1. ASSUME NEW c \in (1..2) \X (1..100)
        PROVE  (rows[c[1]].enabled /\ c[2] <= rows[c[1]].weight) <=> c[2] \in 1..50
    BY <1>1
  <2>2. (1..2) \X (1..50) = {c \in (1..2) \X (1..100) : c[2] \in 1..50}
    OBVIOUS
  <2> QED
    BY <1>1, <2>1, <2>2 DEF Claims
<1>4. Cardinality((1..2) \X (1..50)) = 100
  <2>1. IsFiniteSet(1..2) /\ Cardinality(1..2) = 2 /\ IsFiniteSet(1..50) /\ Cardinality(1..50) = 50
    BY UpTo
  <2> QED
    BY <2>1, FS_Product
<1> QED
  BY <1>2, <1>3, <1>4 DEF rows

\* What becomes of a body, field by field.
LEMMA RequestFields ==
  ASSUME NEW d, "tickers" \in DOMAIN d, NEW q, q = RequestOf(d)
  PROVE  /\ q.tickers = Symbols(d.tickers)
         /\ \A f \in DOMAIN d \ {"tickers"} : q[f] = d[f]
         /\ DOMAIN d \subseteq DOMAIN q /\ DOMAIN q \subseteq DOMAIN d \cup {"objectives"}
         /\ "objectives" \in DOMAIN q \ DOMAIN d => q.objectives = Legacy(q)
         /\ "objectives" \notin DOMAIN d /\ DOMAIN d \cap {"min_return", "max_volatility"} # {}
              => "objectives" \in DOMAIN q
<1> DEFINE e == [d EXCEPT !.tickers = Symbols(@)]
           more == [objectives |-> Legacy(e)]
<1>1. /\ DOMAIN e = DOMAIN d /\ e.tickers = Symbols(d.tickers)
      /\ \A f \in DOMAIN d \ {"tickers"} : e[f] = d[f]
  OBVIOUS
<1>2. q = WithObjectives(e)
  BY DEF RequestOf
<1> HIDE DEF e
<1>3. CASE "objectives" \in DOMAIN e \/ DOMAIN e \cap {"min_return", "max_volatility"} = {}
  <2>1. q = e
    BY <1>2, <1>3 DEF WithObjectives
  <2> QED
    BY <1>1, <1>3, <2>1
<1>4. CASE ~("objectives" \in DOMAIN e \/ DOMAIN e \cap {"min_return", "max_volatility"} = {})
  <2>1. q = Merge(e, more)
    BY <1>2, <1>4 DEF WithObjectives, Legacy
  <2>2. DOMAIN more = {"objectives"} /\ more.objectives = Legacy(e)
    OBVIOUS
  <2> HIDE DEF more
  <2>3. /\ DOMAIN q = DOMAIN e \cup {"objectives"} /\ q.objectives = Legacy(e)
        /\ \A f \in DOMAIN e : f # "objectives" => q[f] = e[f]
    BY <2>1, <2>2 DEF Merge
  <2>4. \A f \in {"min_return", "max_volatility"} : ValueOf(q, f) = ValueOf(e, f)
    BY <2>3 DEF ValueOf
  <2>5. Legacy(q) = Legacy(e)
    BY <2>4 DEF Legacy
  <2> QED
    BY <1>1, <1>4, <2>3, <2>5
<1> QED
  BY <1>3, <1>4

\* The conjuncts of RequestIsSound that are about the request alone.
SoundRequest(q) ==
  /\ q.tickers = Symbols(q.tickers)
  /\ Len(q.tickers) <= MaxTickers
  /\ q.budget \in 1..MaxBudget
  /\ InBounds(q) /\ WeightsOrdered(q)
  /\ "num_assets_to_select" \in DOMAIN q => q.num_assets_to_select <= Len(q.tickers)
  /\ ObjectivesValid(q)

LEMMA RequestsSound ==
  ASSUME NEW d, RequestValid(d), NEW q, q = RequestOf(d) PROVE SoundRequest(q)
<1>1. /\ "tickers" \in DOMAIN d /\ d.tickers \in Tickers /\ Len(d.tickers) \in 2..MaxTickers
      /\ "budget" \in DOMAIN d /\ d.budget \in 1..MaxBudget
  BY DEF RequestValid, TickersValid, BudgetValid
<1>2. /\ q.tickers = Symbols(d.tickers)
      /\ \A f \in DOMAIN d \ {"tickers"} : q[f] = d[f]
      /\ DOMAIN d \subseteq DOMAIN q /\ DOMAIN q \subseteq DOMAIN d \cup {"objectives"}
      /\ "objectives" \in DOMAIN q \ DOMAIN d => q.objectives = Legacy(q)
  BY <1>1, RequestFields
<1>3. Settled(q.tickers) /\ Len(q.tickers) <= Len(d.tickers) /\ Len(q.tickers) \in Nat
  <2>1. Settled(q.tickers) /\ Len(q.tickers) <= Len(d.tickers)
    BY <1>1, <1>2, SymbolsAreSettled
  <2> QED
    BY <2>1 DEF Settled, Tickers
<1>4. q.tickers = Symbols(q.tickers)
  BY <1>3, SymbolsOfSettled
<1>5. Len(q.tickers) <= MaxTickers
  BY <1>1, <1>3, SlotAssumptions
<1>6. q.budget \in 1..MaxBudget
  BY <1>1, <1>2
<1>7. InBounds(q)
  <2>1. DOMAIN Bounds = {"min_return", "max_volatility", "max_weight_per_asset",
                         "min_weight_per_asset", "num_assets_to_select", "lookback_days"}
    BY DEF Bounds
  <2>2. InBounds(d)
    BY DEF RequestValid
  <2> QED
    BY <1>2, <2>1, <2>2 DEF InBounds
<1>8. WeightsOrdered(q)
  <2>1. WeightsOrdered(d)
    BY DEF RequestValid
  <2> QED
    BY <1>2, <2>1 DEF WeightsOrdered
<1>9. "num_assets_to_select" \in DOMAIN q => q.num_assets_to_select <= Len(q.tickers)
  <2>1. AssetsFit(d)
    BY DEF RequestValid
  <2> QED
    BY <1>2, <2>1 DEF AssetsFit
<1>10. ObjectivesValid(q)
  <2>1. CASE "objectives" \in DOMAIN d
    <3>1. ObjectivesValid(d) /\ q.objectives = d.objectives
      BY <1>2, <2>1 DEF RequestValid
    <3> QED
      BY <2>1, <3>1 DEF ObjectivesValid
  <2>2. CASE "objectives" \in DOMAIN q \ DOMAIN d
    <3>1. q.objectives = Legacy(q)
      BY <1>2, <2>2
    <3> QED
      BY <3>1, LegacyIsValid DEF ObjectivesValid
  <2>3. CASE "objectives" \notin DOMAIN q
    BY <2>3 DEF ObjectivesValid
  <2> QED
    BY <2>1, <2>2, <2>3
<1> QED
  BY <1>4, <1>5, <1>6, <1>7, <1>8, <1>9, <1>10 DEF SoundRequest


-----------------------------------------------------------------------------
(* The session.                                                            *)

\* What is said: the texts of the user, and the assistant's.
Turns == {Turn("user", t) : t \in Utterances} \cup {Turn("assistant", t) : t \in
  {AssistantText.welcome, AssistantText.prompt, AssistantText.model, AssistantText.local,
   AssistantText.service}}

\* The stored tickers need no normalising, and a session whose slots suffice has
\* shown them.
SessionInv ==
  /\ messages \in Seq(Turns)
  /\ SlotsSettled(slots)
  /\ status = "pending_confirmation" /\ HasRequired(slots) => shown = Prompt(slots)

IntakeInv == SessionInv /\ RequestIsSound /\ ConfirmedWasShown

LEMMA SayShows ==
  ASSUME IntakeInv, Say PROVE IntakeInv'
<1>1. PICK text \in Utterances :
        \E output \in Extracted(Append(messages, Turn("user", text))) :
          Answers(Append(messages, Turn("user", text)), output)
  BY DEF Say
<1> DEFINE said == Append(messages, Turn("user", text))
<1>6. PICK output \in Extracted(said) : Answers(said, output)
  BY <1>1
<1>0. messages' \in Seq(Turns)
  <2>1. said \in Seq(Turns)
    BY DEF IntakeInv, SessionInv, Turns
  <2>2. \E t \in Turns : messages' = Append(said, t)
    BY <1>6 DEF Answers, Turns, Question
  <2> QED
    BY <2>1, <2>2
<1> DEFINE merged == Merge(slots, output.slots)
<1>2. SlotsSettled(merged)
  BY <1>6, ExtractedSlots, MergedSlots DEF IntakeInv, SessionInv
<1>3. /\ slots' = merged
      /\ HasRequired(merged) => status' = "pending_confirmation" /\ shown' = Prompt(merged)
      /\ status' # "confirmed"
  BY <1>6 DEF Answers, Shown, Say
<1> HIDE DEF merged
<1>4. SessionInv'
  BY <1>0, <1>2, <1>3 DEF SessionInv, SlotsSettled
<1>5. RequestIsSound' /\ ConfirmedWasShown'
  BY <1>3 DEF RequestIsSound, ConfirmedWasShown, Confirmed
<1> QED
  BY <1>4, <1>5 DEF IntakeInv

\* What is confirmed without overrides suffices, is on the screen, and becomes
\* the request as it is.
LEMMA ConfirmsWhatWasShown ==
  ASSUME SessionInv, status = "pending_confirmation", RequestValid(BodyOf(Empty))
  PROVE  /\ Prompt(slots) = shown /\ HasRequired(shown)
         /\ \A f \in DOMAIN shown : RequestOf(BodyOf(Empty))[f] = shown[f]
<1> DEFINE d == BodyOf(Empty)
           q == RequestOf(d)
<1>1. /\ DOMAIN d = DOMAIN slots \cup {"lookback_days", "run_quantum"}
      /\ \A f \in DOMAIN slots : d[f] = slots[f]
  BY DEF BodyOf, Merge, Defaults, Empty
<1> HIDE DEF d
<1>2. /\ "tickers" \in DOMAIN d /\ d.tickers \in Tickers /\ Len(d.tickers) \in 2..MaxTickers
      /\ "budget" \in DOMAIN d
  BY DEF d, RequestValid, TickersValid, BudgetValid
<1>3. /\ "tickers" \in DOMAIN slots /\ "budget" \in DOMAIN slots /\ slots.tickers = d.tickers
      /\ ~(Len(slots.tickers) < 2)
  BY <1>1, <1>2, SlotAssumptions
<1>4. HasRequired(slots)
  BY <1>3 DEF HasRequired, MissingRequired
<1>5. shown = Prompt(slots)
  BY <1>4 DEF SessionInv
<1>6. /\ DOMAIN shown = DOMAIN slots \cap (Fields \ {"objectives", "frontier"})
      /\ \A f \in DOMAIN shown : shown[f] = slots[f]
  BY <1>5 DEF Prompt, Only
<1>7. "tickers" \in DOMAIN shown /\ "budget" \in DOMAIN shown /\ shown.tickers = slots.tickers
  BY <1>3, <1>6 DEF Fields
<1>8. HasRequired(shown)
  BY <1>3, <1>7 DEF HasRequired, MissingRequired
<1>9. /\ q.tickers = Symbols(d.tickers)
      /\ \A f \in DOMAIN d \ {"tickers"} : q[f] = d[f]
  BY <1>2, RequestFields
<1>10. q.tickers = slots.tickers
  BY <1>3, <1>9, SymbolsOfSettled DEF SessionInv, SlotsSettled
<1>11. ASSUME NEW f \in DOMAIN shown PROVE q[f] = shown[f]
  BY <1>1, <1>3, <1>6, <1>7, <1>9, <1>10, <1>11
<1> QED
  BY <1>5, <1>8, <1>11 DEF d

LEMMA ConfirmSound ==
  ASSUME IntakeInv, Confirm PROVE IntakeInv'
<1>1. PICK o : /\ RequestValid(BodyOf(o)) /\ request' = RequestOf(BodyOf(o)) /\ overrides' = o
  BY DEF Confirm
<1>2. status = "pending_confirmation" /\ status' = "confirmed" /\ UNCHANGED <<messages, slots, shown>>
  BY DEF Confirm
<1>3. SessionInv'
  BY <1>2 DEF IntakeInv, SessionInv, SlotsSettled
<1>4. SoundRequest(request')
  BY <1>1, RequestsSound
<1>5. ASSUME NEW f \in {<<"min_return", 1>>, <<"max_volatility", 2>>},
             f[1] \in DOMAIN request', "objectives" \notin DOMAIN slots \cup DOMAIN o
      PROVE  request'.objectives[f[2]].threshold = {request'[f[1]]}
  <2> DEFINE d == BodyOf(o)
             q == request'
  <2>1. "tickers" \in DOMAIN d
    BY <1>1 DEF RequestValid, TickersValid
  <2>2. "objectives" \notin DOMAIN d
    BY <1>5 DEF BodyOf, Merge, Defaults
  <2> HIDE DEF d
  <2>3. q = RequestOf(d)
    BY <1>1 DEF d
  <2>4. /\ DOMAIN q \subseteq DOMAIN d \cup {"objectives"}
        /\ "objectives" \in DOMAIN q \ DOMAIN d => q.objectives = Legacy(q)
        /\ "objectives" \notin DOMAIN d /\ DOMAIN d \cap {"min_return", "max_volatility"} # {}
              => "objectives" \in DOMAIN q
    BY <2>1, <2>3, RequestFields
  <2> HIDE DEF q
  <2>5. f[1] \in DOMAIN d /\ f[1] \in {"min_return", "max_volatility"}
    BY <1>5, <2>4 DEF q
  <2>6. q.objectives = Legacy(q)
    BY <2>2, <2>4, <2>5
  <2>7. /\ Legacy(q)[1].threshold = ValueOf(q, "min_return")
        /\ Legacy(q)[2].threshold = ValueOf(q, "max_volatility")
    BY DEF Legacy, Row
  <2>8. ValueOf(q, f[1]) = {q[f[1]]}
    BY <1>5 DEF ValueOf, q
  <2> QED
    BY <2>6, <2>7, <2>8 DEF q
<1>6. RequestIsSound'
  BY <1>1, <1>2, <1>4, <1>5 DEF RequestIsSound, SoundRequest
<1>7. ConfirmedWasShown'
  <2>1. CASE o = Empty
    BY <1>1, <1>2, <2>1, ConfirmsWhatWasShown DEF IntakeInv, ConfirmedWasShown, Prompt
  <2>2. CASE o # Empty
    BY <1>1, <2>2 DEF ConfirmedWasShown, Empty
  <2> QED
    BY <2>1, <2>2
<1> QED
  BY <1>3, <1>6, <1>7 DEF IntakeInv

LEMMA IntakeInductive == Spec => []IntakeInv
<1>1. Init => IntakeInv
  <2>1. Init => /\ status = "absent" /\ slots = Empty /\ messages \in Seq(Turns)
    BY DEF Init
  <2>2. DOMAIN Empty = {}
    BY DEF Empty
  <2> QED
    BY <2>1, <2>2 DEF IntakeInv, SessionInv, SlotsSettled, RequestIsSound, ConfirmedWasShown, Confirmed
<1>2. IntakeInv /\ [Next]_vars => IntakeInv'
  <2>1. SUFFICES ASSUME IntakeInv, [Next]_vars PROVE IntakeInv'
    OBVIOUS
  <2>2. CASE Greet
    <3>1. status' = "collecting" /\ UNCHANGED slots /\ messages' \in Seq(Turns)
      BY <2>2 DEF Greet, Turns
    <3> QED
      BY <2>1, <3>1 DEF IntakeInv, SessionInv, SlotsSettled, RequestIsSound, ConfirmedWasShown, Confirmed
  <2>3. CASE Say
    BY <2>1, <2>3, SayShows
  <2>4. CASE UNCHANGED <<session, overrides, request>>
    <3>1. UNCHANGED <<status, messages, slots, shown, overrides, request>>
      BY <2>4 DEF session
    <3>2. SessionInv'
      BY <2>1, <3>1 DEF IntakeInv, SessionInv, SlotsSettled
    <3>3. RequestIsSound' /\ ConfirmedWasShown'
      BY <2>1, <3>1 DEF IntakeInv, RequestIsSound, ConfirmedWasShown, Confirmed
    <3> QED
      BY <3>2, <3>3 DEF IntakeInv
  <2>5. CASE Handover
    BY <2>4, <2>5 DEF Handover
  <2>6. CASE Confirm
    BY <2>1, <2>6, ConfirmSound
  <2>7. CASE UNCHANGED vars
    BY <2>4, <2>7 DEF vars
  <2> QED
    BY <2>1, <2>2, <2>3, <2>5, <2>6, <2>7 DEF Next
<1> QED
  BY <1>1, <1>2, PTL DEF Spec

\* The run gets a request the solvers can work on, whatever was said, extracted and
\* overridden: _build_optimization_request lets nothing else through.
THEOREM RequestsAreSound == Spec => []RequestIsSound
<1>1. IntakeInv => RequestIsSound
  BY DEF IntakeInv
<1> QED
  BY <1>1, IntakeInductive, PTL

\* Nobody confirms what the last reply did not show, however often the slots were
\* replaced and the process changed since.
THEOREM OnlyTheShownIsConfirmed == Spec => []ConfirmedWasShown
<1>1. IntakeInv => ConfirmedWasShown
  BY DEF IntakeInv
<1> QED
  BY <1>1, IntakeInductive, PTL


-----------------------------------------------------------------------------
(* What the local extractor hears.                                         *)

\* The texts one after the other: FlattenSeq's function exists, by the least length
\* for which it would not.
LEMMA FlattenStep ==
  ASSUME NEW seqs, NEW L \in Nat
  PROVE  \E g : g = [i \in 1..L |-> IF i = 1 THEN seqs[i] ELSE g[i-1] \o seqs[i]]
<1> DEFINE Fits(g, m) == g = [i \in 1..m |-> IF i = 1 THEN seqs[i] ELSE g[i-1] \o seqs[i]]
           A == {m \in Nat : ~\E g : Fits(g, m)}
<1>1. SUFFICES ASSUME A # {} PROVE FALSE
  OBVIOUS
<1>2. PICK m \in A : \A k \in A : m <= k
  <2>1. A \subseteq Nat
    OBVIOUS
  <2> HIDE DEF A
  <2> QED
    BY <1>1, <2>1, LeastNumber
<1>3. m \in Nat /\ ~\E g : Fits(g, m)
  BY <1>2
<1>4. m # 0
  <2>1. SUFFICES ASSUME m = 0 PROVE FALSE
    OBVIOUS
  <2> DEFINE h == [i \in 1..0 |-> seqs[i]]
  <2>2. 1..0 = {}
    OBVIOUS
  <2>3. Fits(h, 0)
    BY <2>2
  <2> QED
    BY <1>3, <2>1, <2>3
<1>5. PICK g : Fits(g, m - 1)
  <2>1. m - 1 \in Nat /\ ~(m <= m - 1)
    BY <1>3, <1>4
  <2>2. m - 1 \notin A
    BY <1>2, <2>1
  <2> HIDE DEF Fits
  <2> QED
    BY <2>1, <2>2
<1> DEFINE h == [i \in 1..m |-> IF i < m THEN g[i]
                                ELSE IF m = 1 THEN seqs[m] ELSE g[m-1] \o seqs[m]]
<1>6. ASSUME NEW i \in 1..m PROVE h[i] = IF i = 1 THEN seqs[i] ELSE h[i-1] \o seqs[i]
  <2>1. CASE i < m
    <3>1. i \in 1..(m-1) /\ (i # 1 => i - 1 \in 1..m /\ i - 1 < m)
      BY <1>3, <2>1
    <3>2. g[i] = IF i = 1 THEN seqs[i] ELSE g[i-1] \o seqs[i]
      BY <1>5, <3>1
    <3>3. h[i] = g[i] /\ (i # 1 => h[i-1] = g[i-1])
      BY <2>1, <3>1
    <3> QED
      BY <3>2, <3>3
  <2>2. CASE i = m
    <3>1. m # 1 => m - 1 \in 1..m /\ m - 1 < m
      BY <1>3, <1>4
    <3>2. m # 1 => h[m-1] = g[m-1]
      BY <3>1
    <3>3. h[m] = IF m = 1 THEN seqs[m] ELSE g[m-1] \o seqs[m]
      BY <1>3, <1>4
    <3> HIDE DEF h
    <3> QED
      BY <2>2, <3>2, <3>3
  <2> QED
    BY <1>3, <2>1, <2>2
<1>7. Fits(h, m)
  <2>1. h = [i \in 1..m |-> h[i]]
    OBVIOUS
  <2> HIDE DEF h
  <2> QED
    BY <1>6, <2>1
<1> QED
  BY <1>3, <1>7

\* All that is in the whole is in a part.
LEMMA FlattenElements ==
  ASSUME NEW E, NEW seqs \in Seq(Seq(E))
  PROVE  FlattenSeq(seqs) \in Seq(E)
<1> DEFINE L == Len(seqs)
           f == CHOOSE g : g = [i \in 1..L |-> IF i = 1 THEN seqs[i] ELSE g[i-1] \o seqs[i]]
<1>1. L \in Nat /\ \A i \in 1..L : seqs[i] \in Seq(E)
  OBVIOUS
<1>2. f = [i \in 1..L |-> IF i = 1 THEN seqs[i] ELSE f[i-1] \o seqs[i]]
  <2> HIDE DEF L
  <2> QED
    BY Zenon, <1>1, FlattenStep
<1>3. FlattenSeq(seqs) = IF L = 0 THEN seqs ELSE f[L]
  BY DEF FlattenSeq
<1> HIDE DEF f, L
<1>4. CASE L = 0
  <2>1. seqs = <<>>
    BY <1>4 DEF L
  <2> QED
    BY <1>3, <1>4, <2>1
<1>5. CASE L # 0
  <2> DEFINE A == {i \in 1..L : f[i] \notin Seq(E)}
  <2>1. A = {}
    <3>1. SUFFICES ASSUME A # {} PROVE FALSE
      OBVIOUS
    <3>2. PICK m \in A : \A k \in A : m <= k
      <4>1. A \subseteq Nat
        OBVIOUS
      <4> HIDE DEF A
      <4> QED
        BY <3>1, <4>1, LeastNumber
    <3>3. m \in 1..L /\ f[m] \notin Seq(E)
      BY <3>2
    <3>4. f[m] = IF m = 1 THEN seqs[m] ELSE f[m-1] \o seqs[m]
      BY <1>2, <3>3
    <3>5. m # 1
      BY <1>1, <3>3, <3>4
    <3>6. m - 1 \in 1..L /\ ~(m <= m - 1)
      BY <1>1, <3>3, <3>5
    <3>7. f[m-1] \in Seq(E)
      BY <3>2, <3>6
    <3>8. f[m-1] \o seqs[m] \in Seq(E)
      BY <1>1, <3>3, <3>7
    <3> QED
      BY <3>3, <3>4, <3>5, <3>8
  <2>2. L \in 1..L
    BY <1>1, <1>5
  <2> QED
    BY <1>3, <1>5, <2>1, <2>2
<1> QED
  BY <1>4, <1>5

\* The phrases of the user's messages.
Phrases(conversation) ==
  UNION {ToSet(m.text) : m \in {n \in ToSet(conversation) : n.role = "user"}}

LEMMA TextIsOfTheUser ==
  ASSUME NEW conversation \in Seq(Turns)
  PROVE  UserText(conversation) \in Seq(Phrases(conversation))
<1> DEFINE P == {i \in DOMAIN conversation : conversation[i].role = "user"}
           said == At(conversation, P)
           seqs == [i \in DOMAIN said |-> said[i].text]
<1>1. /\ Len(conversation) \in Nat /\ DOMAIN conversation = 1..Len(conversation)
      /\ \A i \in 1..Len(conversation) : conversation[i] \in Turns
  OBVIOUS
<1>2. P \in SUBSET (1..Len(conversation))
  BY <1>1
<1>3. /\ Cardinality(P) \in Nat /\ DOMAIN said = 1..Cardinality(P)
      /\ \A n \in 1..Cardinality(P) : \E i \in P : said[n] = conversation[i]
  <2> HIDE DEF P
  <2> QED
    BY <1>1, <1>2, AtElements
<1>4. ASSUME NEW i \in P PROVE conversation[i].text \in Seq(Phrases(conversation))
  <2>1. /\ conversation[i] \in Turns /\ conversation[i].role = "user"
        /\ conversation[i] \in ToSet(conversation)
    BY <1>1 DEF ToSet
  <2>2. conversation[i].text \in Utterances
    BY <2>1 DEF Turns, Turn
  <2>3. conversation[i].text \in Seq(ToSet(conversation[i].text))
    BY <2>2, UtteranceAssumption
  <2>4. ToSet(conversation[i].text) \subseteq Phrases(conversation)
    BY <2>1 DEF Phrases
  <2> QED
    BY <2>3, <2>4
<1>5. seqs \in Seq(Seq(Phrases(conversation)))
  <2> HIDE DEF P, said
  <2>1. \A n \in 1..Cardinality(P) : said[n].text \in Seq(Phrases(conversation))
    BY <1>3, <1>4
  <2>2. seqs = [n \in 1..Cardinality(P) |-> said[n].text]
    BY <1>3
  <2> HIDE DEF seqs
  <2> QED
    BY <1>3, <2>1, <2>2
<1>6. UserText(conversation) = FlattenSeq(seqs)
  BY DEF UserText
<1> HIDE DEF seqs
<1> QED
  BY <1>5, <1>6, FlattenElements


\* The value of the first phrase of a kind is that of a phrase of the text.
LEMMA FirstIsSaid ==
  ASSUME NEW E, NEW text \in Seq(E), NEW kinds, NEW v \in First(text, kinds)
  PROVE  \E p \in E : p.is \in kinds /\ p.value = v
<1>1. PICK i \in DOMAIN text : text[i].is \in kinds /\ v = text[i].value
  BY DEF First
<1>2. text[i] \in E
  OBVIOUS
<1> QED
  BY <1>1, <1>2

\* So are the symbols, and they are in upper case.
LEMMA TickersAreSaid ==
  ASSUME NEW E, NEW text \in Seq(E), NEW v \in TickersIn(text),
         NEW i \in DOMAIN v
  PROVE  \E p \in E : p.is = "word" /\ p.value = v[i]
<1> DEFINE words == {j \in DOMAIN text : text[j].is = "word" /\ text[j].value \notin NoTickers}
           found == {j \in words : \A k \in words : text[k].value = text[j].value => j <= k}
           kept == {j \in found : Rank(found, j) <= MaxTickers}
           values == [j \in DOMAIN text |-> text[j].value]
<1>1. v = At(values, kept)
  BY DEF TickersIn
<1>2. Len(text) \in Nat /\ DOMAIN text = 1..Len(text) /\ \A j \in DOMAIN text : text[j] \in E
  OBVIOUS
<1>3. kept \in SUBSET (1..Len(text)) /\ \A j \in kept : text[j].is = "word" /\ values[j] = text[j].value
  BY <1>2
<1> HIDE DEF kept, values
<1>4. PICK j \in kept : v[i] = values[j]
  <2>1. /\ DOMAIN At(values, kept) = 1..Cardinality(kept)
        /\ \A n \in 1..Cardinality(kept) : \E j \in kept : At(values, kept)[n] = values[j]
    BY <1>2, <1>3, AtElements
  <2> QED
    BY <1>1, <2>1
<1> QED
  BY <1>2, <1>3, <1>4

\* A slot's values, as HeardAndKept names them.
Heard(f, v, conversation) ==
  (IF f = "tickers" THEN ToSet(v) ELSE {v}) \subseteq Named(f, conversation)

LEMMA PercentOfSaid ==
  ASSUME NEW said, NEW values, said \subseteq values PROVE Percent(said) \subseteq Percent(values)
BY DEF Percent

\* Whatever is found was said.
LEMMA FoundIsHeard ==
  ASSUME NEW conversation \in Seq(Turns), NEW f \in DOMAIN Found(UserText(conversation)),
         NEW v \in Found(UserText(conversation))[f]
  PROVE  Heard(f, v, conversation)
<1> DEFINE text == UserText(conversation)
           E == Phrases(conversation)
           Values(g) == {p.value : p \in {q \in E : q.is \in Kinds[g]}}
<1>1. text \in Seq(E)
  BY TextIsOfTheUser
<1>2. \A g : Named(g, conversation) =
               IF g \in {"min_return", "max_volatility"} THEN Percent(Values(g)) ELSE Values(g)
  BY DEF Named, Phrases
<1>3. f \in {"tickers", "budget", "min_return", "max_volatility", "run_quantum"}
  BY DEF Found
<1>4. /\ Kinds["tickers"] = {"word"} /\ Kinds["budget"] = {"dollars", "amount", "spelled"}
      /\ Kinds["min_return"] = {"floor", "return"} /\ Kinds["max_volatility"] = {"ceiling"}
      /\ Kinds["run_quantum"] = {"skip", "run"}
  BY DEF Kinds
<1>5. ASSUME NEW g, NEW kinds, kinds \subseteq Kinds[g] PROVE First(text, kinds) \subseteq Values(g)
  <2> HIDE DEF text, E
  <2>1. ASSUME NEW w \in First(text, kinds) PROVE w \in Values(g)
    BY <1>1, <1>5, <2>1, FirstIsSaid
  <2> QED
    BY <2>1
<1>6. CASE f = "tickers"
  <2>1. v \in TickersIn(text)
    BY <1>6 DEF Found
  <2> HIDE DEF text, E
  <2>2. ASSUME NEW i \in DOMAIN v PROVE v[i] \in Values("tickers")
    <3>1. PICK p \in E : p.is = "word" /\ p.value = v[i]
      BY <1>1, <2>1, TickersAreSaid
    <3> QED
      BY <1>4, <3>1
  <2> HIDE DEF Values
  <2>3. ToSet(v) \subseteq Values("tickers")
    BY <2>2 DEF ToSet
  <2> QED
    BY <1>2, <1>6, <2>3 DEF Heard
<1>7. CASE f = "budget"
  <2>1. v \in BudgetIn(text)
    BY <1>7 DEF Found
  <2> HIDE DEF text, E, Values
  <2>2. v \in First(text, {"dollars"}) \/ v \in First(text, {"amount"}) \/ v \in First(text, {"spelled"})
    BY <2>1 DEF BudgetIn
  <2>3. v \in Values("budget")
    BY <1>4, <1>5, <2>2
  <2> QED
    BY <1>2, <1>7, <2>3 DEF Heard
<1>8. CASE f = "min_return"
  <2>1. v \in ReturnIn(text)
    BY <1>8 DEF Found
  <2> HIDE DEF text, E, Values
  <2>2. v \in Percent(First(text, {"floor"})) \/ v \in Percent(First(text, {"return"}))
    BY <2>1 DEF ReturnIn
  <2>3. v \in Percent(Values("min_return"))
    BY <1>4, <1>5, <2>2, PercentOfSaid
  <2> QED
    BY <1>2, <1>8, <2>3 DEF Heard
<1>9. CASE f = "max_volatility"
  <2>1. v \in VolatilityIn(text)
    BY <1>9 DEF Found
  <2> HIDE DEF text, E, Values
  <2>2. v \in Percent(Values("max_volatility"))
    BY <1>4, <1>5, <2>1, PercentOfSaid DEF VolatilityIn
  <2> QED
    BY <1>2, <1>9, <2>2 DEF Heard
<1>10. CASE f = "run_quantum"
  <2>1. v \in QuantumIn(text)
    BY <1>10 DEF Found
  <2> HIDE DEF text
  <2>2. CASE First(text, {"skip"}) = {}
    <3>1. v \in First(text, {"run"})
      BY <2>1, <2>2 DEF QuantumIn
    <3> HIDE DEF Values, E
    <3>2. v \in Values("run_quantum")
      BY <1>4, <1>5, <3>1
    <3> QED
      BY <1>2, <1>10, <3>2 DEF Heard
  <2>3. CASE First(text, {"skip"}) # {}
    <3>1. v = FALSE
      BY <2>1, <2>3 DEF QuantumIn
    <3>2. PICK p \in E : p.is = "skip"
      <4>1. PICK w : w \in First(text, {"skip"})
        BY <2>3
      <4> HIDE DEF E
      <4> QED
        BY <1>1, <4>1, FirstIsSaid
    <3>3. p.value = FALSE
      <4>1. PICK m \in ToSet(conversation) : m.role = "user" /\ p \in ToSet(m.text)
        BY <3>2 DEF Phrases
      <4>2. m \in Turns
        BY <4>1 DEF ToSet
      <4>3. m.text \in Utterances
        BY <4>1, <4>2 DEF Turns, Turn
      <4> QED
        BY <3>2, <4>1, <4>3, UtteranceAssumption
    <3>4. v \in Values("run_quantum")
      <4> HIDE DEF E
      <4> QED
        BY <1>4, <3>1, <3>2, <3>3
    <3> HIDE DEF Values, E
    <3> QED
      BY <1>2, <1>10, <3>4 DEF Heard
  <2> QED
    BY <2>2, <2>3
<1> QED
  BY <1>3, <1>6, <1>7, <1>8, <1>9, <1>10


\* Normalising leaves what is stored as it is, and adds nothing that was not there.
LEMMA NormalisedKeeps ==
  ASSUME NEW d, SlotsValid(d)
  PROVE  /\ DOMAIN Normalised(d) \subseteq DOMAIN d
         /\ \A f \in DOMAIN Normalised(d) \ {"tickers"} : Normalised(d)[f] = d[f]
         /\ "tickers" \in DOMAIN Normalised(d) =>
              \A n \in DOMAIN Normalised(d).tickers :
                \E i \in DOMAIN d.tickers : Normalised(d).tickers[n] = Normal[d.tickers[i]]
         /\ "tickers" \in DOMAIN Normalised(d) /\ SlotsSettled(d) => Normalised(d).tickers = d.tickers
<1>1. CASE "tickers" \notin DOMAIN d
  <2>1. Normalised(d) = d
    BY <1>1 DEF Normalised
  <2> QED
    BY <1>1, <2>1
<1>2. CASE "tickers" \in DOMAIN d
  <2> DEFINE names == Upper(d.tickers)
             P == {i \in FirstNamed(names) : names[i] # ""}
             named == At(names, P)
  <2>1. d.tickers \in Tickers
    BY <1>2 DEF SlotsValid
  <2>2. \A n \in DOMAIN named : \E i \in DOMAIN d.tickers : named[n] = Normal[d.tickers[i]]
    <3>1. P \in SUBSET FirstNamed(names) /\ \A i \in P : i \in DOMAIN d.tickers
      BY DEF FirstNamed, Upper
    <3> HIDE DEF P
    <3>2. \A n \in DOMAIN named : \E i \in P : named[n] = names[i]
      BY <2>1, <3>1, PickedAreSettled
    <3>3. \A i \in DOMAIN d.tickers : names[i] = Normal[d.tickers[i]]
      BY DEF Upper
    <3> QED
      BY <3>1, <3>2, <3>3
  <2>3. SlotsSettled(d) => named = d.tickers
    <3>1. SUFFICES ASSUME SlotsSettled(d) PROVE named = d.tickers
      OBVIOUS
    <3>2. Settled(d.tickers) /\ \A i \in DOMAIN d.tickers : d.tickers[i] # ""
      BY <1>2, <3>1 DEF SlotsSettled
    <3>3. \A i \in DOMAIN names : names[i] # ""
      BY <3>2 DEF Upper, Settled
    <3>4. P = FirstNamed(names)
      BY <3>3 DEF FirstNamed
    <3> HIDE DEF P
    <3>5. named = Symbols(d.tickers)
      BY <3>4 DEF Symbols
    <3> QED
      BY <3>2, <3>5, SymbolsOfSettled
  <2>4. \/ Normalised(d) = Only(d, Fields \ {"tickers"})
        \/ Normalised(d) = [d EXCEPT !.tickers = named]
    BY <1>2 DEF Normalised
  <2> HIDE DEF named
  <2>5. CASE Normalised(d) = Only(d, Fields \ {"tickers"})
    BY <2>5 DEF Only
  <2>6. CASE Normalised(d) = [d EXCEPT !.tickers = named]
    BY <1>2, <2>2, <2>3, <2>6
  <2> QED
    BY <2>4, <2>5, <2>6
<1> QED
  BY <1>1, <1>2

\* Every field keeps the stored value, or has one that was said.
KeptOrHeard(d, conversation) ==
  \A f \in DOMAIN d : IF f \in DOMAIN slots THEN d[f] = slots[f] ELSE Heard(f, d[f], conversation)

LEMMA PartialKeeps ==
  ASSUME SlotsSettled(slots), NEW conversation \in Seq(Turns)
  PROVE  KeptOrHeard(Partial(slots, UserText(conversation)), conversation)
<1> DEFINE text == UserText(conversation)
           F == [f \in {g \in DOMAIN Found(text) : Found(text)[g] # {}} |->
                   CHOOSE v \in Found(text)[f] : TRUE]
           over == Overlaid(slots, text)
<1>1. \A f \in DOMAIN F : f \in DOMAIN Found(text) /\ F[f] \in Found(text)[f]
  OBVIOUS
<1>2. ASSUME NEW f \in DOMAIN F PROVE Heard(f, F[f], conversation)
  <2>1. f \in DOMAIN Found(text) /\ F[f] \in Found(text)[f]
    BY <1>1
  <2> HIDE DEF F
  <2> QED
    BY <2>1, FoundIsHeard
<1>3. /\ DOMAIN over = DOMAIN F \cup DOMAIN slots
      /\ \A f \in DOMAIN over : over[f] = IF f \in DOMAIN slots THEN slots[f] ELSE F[f]
  <2>1. over = Merge(F, slots)
    BY DEF Overlaid
  <2> HIDE DEF F, over
  <2> QED
    BY <2>1 DEF Merge
<1>4. "tickers" \in DOMAIN F => \A i \in DOMAIN F.tickers : Normal[F.tickers[i]] = F.tickers[i]
  <2>1. SUFFICES ASSUME "tickers" \in DOMAIN F, NEW i \in DOMAIN F.tickers
                 PROVE  Normal[F.tickers[i]] = F.tickers[i]
    OBVIOUS
  <2>2. F.tickers \in TickersIn(text)
    BY <1>1, <2>1 DEF Found
  <2>3. text \in Seq(Phrases(conversation))
    BY TextIsOfTheUser
  <2> HIDE DEF F, text
  <2>4. PICK p \in Phrases(conversation) : p.is = "word" /\ p.value = F.tickers[i]
    BY <2>1, <2>2, <2>3, TickersAreSaid
  <2>5. PICK m \in ToSet(conversation) : m.role = "user" /\ p \in ToSet(m.text)
    BY <2>4 DEF Phrases
  <2>6. m \in Turns
    BY <2>5 DEF ToSet
  <2>7. m.text \in Utterances
    BY <2>5, <2>6 DEF Turns, Turn
  <2> QED
    BY <2>4, <2>5, <2>7, UtteranceAssumption
<1> HIDE DEF F, over
<1>5. CASE SlotsValid(over)
  <2> DEFINE q == Normalised(over)
  <2>1. Partial(slots, text) = q
    BY <1>5 DEF Partial, over
  <2>2. /\ DOMAIN q \subseteq DOMAIN over
        /\ \A f \in DOMAIN q \ {"tickers"} : q[f] = over[f]
        /\ "tickers" \in DOMAIN q =>
             \A n \in DOMAIN q.tickers : \E i \in DOMAIN over.tickers :
               q.tickers[n] = Normal[over.tickers[i]]
        /\ "tickers" \in DOMAIN q /\ SlotsSettled(over) => q.tickers = over.tickers
    BY <1>5, NormalisedKeeps
  <2> HIDE DEF q
  <2>3. ASSUME NEW f \in DOMAIN q, f # "tickers"
        PROVE  IF f \in DOMAIN slots THEN q[f] = slots[f] ELSE Heard(f, q[f], conversation)
    BY <1>2, <1>3, <2>2, <2>3
  <2>4. ASSUME "tickers" \in DOMAIN q, "tickers" \in DOMAIN slots PROVE q.tickers = slots.tickers
    BY <1>3, <2>2, <2>4 DEF SlotsSettled
  <2>5. ASSUME "tickers" \in DOMAIN q, "tickers" \notin DOMAIN slots
        PROVE  Heard("tickers", q.tickers, conversation)
    <3>1. "tickers" \in DOMAIN F /\ over.tickers = F.tickers
      BY <1>3, <2>2, <2>5
    <3>2. \A n \in DOMAIN q.tickers : q.tickers[n] \in ToSet(F.tickers)
      BY <1>4, <2>2, <2>5, <3>1 DEF ToSet
    <3>3. ToSet(q.tickers) \subseteq ToSet(F.tickers)
      BY <3>2 DEF ToSet
    <3>4. ToSet(F.tickers) \subseteq Named("tickers", conversation)
      BY <1>2, <3>1 DEF Heard
    <3> QED
      BY <3>3, <3>4 DEF Heard
  <2> QED
    BY <2>1, <2>3, <2>4, <2>5 DEF KeptOrHeard
<1>6. CASE ~SlotsValid(over) /\ SlotsValid(slots)
  <2> DEFINE q == Normalised(slots)
  <2>1. Partial(slots, text) = q
    BY <1>6 DEF Partial, over
  <2>2. /\ DOMAIN q \subseteq DOMAIN slots
        /\ \A f \in DOMAIN q \ {"tickers"} : q[f] = slots[f]
        /\ "tickers" \in DOMAIN q => q.tickers = slots.tickers
    BY <1>6, NormalisedKeeps
  <2> HIDE DEF q
  <2> QED
    BY <2>1, <2>2 DEF KeptOrHeard
<1>7. CASE ~SlotsValid(over) /\ ~SlotsValid(slots)
  <2>1. Partial(slots, text) = Empty
    BY <1>7 DEF Partial, over
  <2> QED
    BY <2>1 DEF KeptOrHeard, Empty
<1> QED
  BY <1>5, <1>6, <1>7

\* What is heard goes on being heard.
LEMMA HeardStays ==
  ASSUME NEW conversation \in Seq(Turns), NEW t \in Turns, NEW f, NEW v, Heard(f, v, conversation)
  PROVE  Heard(f, v, Append(conversation, t))
<1> DEFINE more == Append(conversation, t)
<1>1. ToSet(conversation) \subseteq ToSet(more)
  BY DEF ToSet
<1> HIDE DEF more
<1>2. Phrases(conversation) \subseteq Phrases(more)
  BY <1>1 DEF Phrases
<1> DEFINE Values(c) == {p.value : p \in {q \in Phrases(c) : q.is \in Kinds[f]}}
<1>3. Values(conversation) \subseteq Values(more)
  BY <1>2
<1>4. \A c : Named(f, c) = IF f \in {"min_return", "max_volatility"} THEN Percent(Values(c)) ELSE Values(c)
  BY DEF Named, Phrases
<1> HIDE DEF Values
<1>5. Percent(Values(conversation)) \subseteq Percent(Values(more))
  BY <1>3, PercentOfSaid
<1>6. Named(f, conversation) \subseteq Named(f, more)
  BY <1>3, <1>4, <1>5
<1> QED
  BY <1>6 DEF Heard, more

\* A slot once filled is never emptied, and the local extractor overwrites none and
\* makes none up: _fallback_response reads the user's messages only.
THEOREM SlotsAreHeardAndKept == Spec => HeardAndKept
<1> DEFINE Kept == /\ DOMAIN slots \subseteq DOMAIN slots'
                   /\ ~keyed => \A f \in DOMAIN slots' :
                        IF f \in DOMAIN slots THEN slots'[f] = slots[f]
                        ELSE Heard(f, slots'[f], messages')
<1>1. IntakeInv /\ [Next]_vars => [Kept]_session
  <2>1. SUFFICES ASSUME IntakeInv, [Next]_vars PROVE [Kept]_session
    OBVIOUS
  <2>2. CASE UNCHANGED slots
    BY <2>2
  <2>3. CASE Say
    <3>0. PICK text \in Utterances :
            \E output \in Extracted(Append(messages, Turn("user", text))) :
              Answers(Append(messages, Turn("user", text)), output)
      BY <2>3 DEF Say
    <3> DEFINE said == Append(messages, Turn("user", text))
    <3>1. PICK output \in Extracted(said) : Answers(said, output)
      BY <3>0
    <3>2. said \in Seq(Turns)
      BY <2>1 DEF IntakeInv, SessionInv, Turns
    <3> HIDE DEF said
    <3>3. PICK t \in Turns : messages' = Append(said, t)
      BY <3>1 DEF Answers, Turns, Question
    <3>4. slots' = Merge(slots, output.slots)
      BY <3>1 DEF Answers
    <3>5. /\ DOMAIN slots' = DOMAIN slots \cup DOMAIN output.slots
          /\ \A f \in DOMAIN slots' : slots'[f] = IF f \in DOMAIN output.slots THEN output.slots[f]
                                                  ELSE slots[f]
      BY <3>4 DEF Merge
    <3>6. ASSUME ~keyed PROVE KeptOrHeard(output.slots, said)
      <4>1. output = Extract(slots, UserText(said))
        BY <3>1, <3>6 DEF Extracted
      <4>2. KeptOrHeard(Partial(slots, UserText(said)), said)
        BY <2>1, <3>2, PartialKeeps DEF IntakeInv, SessionInv
      <4>3. output.slots = Partial(slots, UserText(said)) \/ output.slots = Empty
        BY <4>1 DEF Extract
      <4>4. KeptOrHeard(Empty, said)
        BY DEF KeptOrHeard, Empty
      <4> QED
        BY <4>2, <4>3, <4>4
    <3>7. ASSUME ~keyed, NEW f \in DOMAIN slots', f \notin DOMAIN slots
          PROVE  Heard(f, slots'[f], messages')
      <4>1. f \in DOMAIN output.slots /\ slots'[f] = output.slots[f]
        BY <3>5, <3>7
      <4>2. Heard(f, slots'[f], said)
        BY <3>6, <3>7, <4>1 DEF KeptOrHeard
      <4> QED
        BY <3>2, <3>3, <4>2, HeardStays
    <3>8. ASSUME ~keyed, NEW f \in DOMAIN slots', f \in DOMAIN slots PROVE slots'[f] = slots[f]
      BY <3>5, <3>6, <3>8 DEF KeptOrHeard
    <3> QED
      BY <3>5, <3>7, <3>8
  <2>4. CASE Greet \/ Handover \/ Confirm
    BY <2>2, <2>4 DEF Greet, Handover, Confirm, session
  <2>5. CASE UNCHANGED vars
    BY <2>5 DEF vars, session
  <2> QED
    BY <2>1, <2>3, <2>4, <2>5 DEF Next
<1>2. [Kept]_session =>
        [/\ DOMAIN slots \subseteq DOMAIN slots'
         /\ ~keyed => \A f \in DOMAIN slots' :
              IF f \in DOMAIN slots THEN slots'[f] = slots[f]
              ELSE (IF f = "tickers" THEN ToSet(slots'[f]) ELSE {slots'[f]})
                     \subseteq Named(f, messages')]_session
  BY DEF Heard
<1> QED
  BY <1>1, <1>2, IntakeInductive, PTL DEF Spec, HeardAndKept

===============================================================================
