---------------------------- MODULE QuoteRouting ----------------------------
(***************************************************************************)
(* The routing phase of processOrder (src/queue/worker.ts:97-123): both    *)
(* DEXs are asked at once, the answers arrive in any order, a failed       *)
(* request counts as a quote of amountOut '0', and the best of the quotes  *)
(* that are not '0' is taken by a reduce over the list of DEXs.            *)
(***************************************************************************)
EXTENDS Integers, Sequences

CONSTANT Amounts  \* the amounts out a DEX may quote, scaled to integers

ASSUME AmountsAssumption == Amounts \subseteq Nat \ {0}

VARIABLES
    answers,  \* answers[i]: the amount quoted by Dexes[i], 0 if the request failed, or Waiting
    best      \* the selected quote, Undecided, or NoQuote when the code throws

vars == <<answers, best>>

Dexes == <<"raydium", "meteora">>

Waiting   == -1
Undecided == [dex |-> "undecided", amountOut |-> 0]
NoQuote   == [dex |-> "none", amountOut |-> 0]

Init ==
    /\ answers = [i \in DOMAIN Dexes |-> Waiting]
    /\ best = Undecided

\* getQuote of a DEX resolves, or rejects and is caught.
Answer(i) ==
    /\ answers[i] = Waiting
    /\ \E a \in Amounts \union {0} : answers' = [answers EXCEPT ![i] = a]
    /\ UNCHANGED best

\* The result of Promise.all lists the quotes in the order of dexes, not of arrival.
QuoteList == [i \in DOMAIN Dexes |-> [dex |-> Dexes[i], amountOut |-> answers[i]]]

\* quotes.filter: the quotes of a list that are not '0', in the order of the list.
\* (Recursive functions, so that the proofs can unfold them.)
Filtered(quotes) ==
    LET kept[n \in 0..Len(quotes)] ==
          IF n = 0 THEN <<>>
          ELSE IF quotes[n].amountOut # 0 THEN Append(kept[n - 1], quotes[n])
          ELSE kept[n - 1]
    IN  kept[Len(quotes)]

ValidQuotes == Filtered(QuoteList)

\* Mutant of Better: the comparison is the wrong way round.
BetterIsLess(a, b) == IF a.amountOut < b.amountOut THEN a ELSE b

Better(a, b) == IF a.amountOut > b.amountOut THEN a ELSE b

\* validQuotes.reduce without an initial value: it starts from the first quote.
Reduce(quotes) ==
    LET leader[n \in 1..Len(quotes)] ==
          IF n = 1 THEN quotes[1] ELSE Better(leader[n - 1], quotes[n])
    IN  leader[Len(quotes)]

Choose ==
    /\ best = Undecided /\ \A i \in DOMAIN Dexes : answers[i] # Waiting
    /\ best' = IF ValidQuotes = <<>> THEN NoQuote ELSE Reduce(ValidQuotes)
    /\ UNCHANGED answers

Chosen == best # Undecided /\ UNCHANGED vars

Next == (\E i \in DOMAIN Dexes : Answer(i)) \/ Choose \/ Chosen

Spec == Init /\ [][Next]_vars

-----------------------------------------------------------------------------

TypeOK ==
    /\ answers \in [DOMAIN Dexes -> Amounts \union {0, Waiting}]
    /\ best \in {Undecided, NoQuote} \union [dex: {"raydium", "meteora"}, amountOut: Amounts]

\* Best execution: whatever the order of the answers and whichever requests fail,
\* the order is given up exactly when every request failed (one DEX that answers is
\* enough), and otherwise the selected quote is one that was received, no other
\* received quote pays more, and of equal quotes the later DEX of the list is taken.
BestExecution ==
    \/ best = Undecided
    \/ best = NoQuote /\ \A i \in DOMAIN Dexes : answers[i] = 0
    \/ \E i \in DOMAIN Dexes :
         /\ answers[i] # 0 /\ best = QuoteList[i]
         /\ \A k \in DOMAIN Dexes :
              answers[k] < answers[i] \/ (answers[k] = answers[i] /\ k <= i)

=============================================================================
