------------------------- MODULE QuoteRoutingProofs -------------------------
(***************************************************************************)
(* What the filter and the reduce of the routing phase return for a list   *)
(* of quotes of any length, by induction over the list, and from that the  *)
(* invariants of QuoteRouting for every set of amounts.                    *)
(***************************************************************************)
EXTENDS QuoteRouting, TLAPS, WellFoundedInduction, SequenceTheorems

\* Induction over the naturals, stated for a set: what holds 0 and with every
\* number the next one holds them all.
LEMMA NatSetInduction ==
    ASSUME NEW S, 0 \in S, \A n \in Nat : n \in S => n + 1 \in S
    PROVE  Nat \subseteq S
<1> DEFINE T == Nat \ S
<1> SUFFICES ASSUME T # {} PROVE FALSE
    OBVIOUS
<1>1. PICK x \in T : \A y \in T : ~(<<y, x>> \in OpToRel(<, Nat))
    BY NatLessThanWellFounded, WFMin
<1>2. \A y \in T : ~(y < x)
    BY <1>1 DEF OpToRel
<1>3. x # 0 /\ x \in Nat
    OBVIOUS
<1>4. x - 1 \in Nat /\ x - 1 < x /\ (x - 1) + 1 = x
    BY <1>3
<1>5. x - 1 \in S
    BY <1>2, <1>4
<1> QED
    BY <1>4, <1>5

-----------------------------------------------------------------------------
(* The filter                                                              *)

\* The recursive function of Filtered exists and satisfies its equation.
LEMMA FilteredUnfolds ==
    ASSUME NEW quotes, Len(quotes) \in Nat
    PROVE  \E kept :
             /\ Filtered(quotes) = kept[Len(quotes)]
             /\ kept[0] = <<>>
             /\ \A n \in 1..Len(quotes) :
                  kept[n] = IF quotes[n].amountOut # 0
                            THEN Append(kept[n - 1], quotes[n]) ELSE kept[n - 1]
<1> DEFINE Step(f, n) == IF n = 0 THEN <<>>
                         ELSE IF quotes[n].amountOut # 0 THEN Append(f[n - 1], quotes[n])
                         ELSE f[n - 1]
           IsKept(f, n) == f = [i \in 0..n |-> Step(f, i)]
           S == {n \in Nat : \E f : IsKept(f, n)}
           L == Len(quotes)
<1>1. 0 \in S
    <2> DEFINE f0 == [i \in 0..0 |-> <<>>]
    <2>1. \A i \in 0..0 : Step(f0, i) = <<>>
        OBVIOUS
    <2>2. IsKept(f0, 0)
        BY <2>1
    <2> QED
        BY <2>2
<1>2. ASSUME NEW n \in Nat, n \in S
      PROVE  n + 1 \in S
    <2>1. PICK f : IsKept(f, n)
        BY <1>2
    <2> DEFINE next == IF quotes[n + 1].amountOut # 0 THEN Append(f[n], quotes[n + 1]) ELSE f[n]
               g == [i \in 0..(n + 1) |-> IF i = n + 1 THEN next ELSE f[i]]
    <2>2. \A i \in 0..n : g[i] = f[i]
        BY SMT
    <2>3. \A i \in 0..n : Step(g, i) = Step(f, i)
        <3> TAKE i \in 0..n
        <3>1. i = 0 \/ (i # 0 /\ i - 1 \in 0..n)
            OBVIOUS
        <3>2. i # 0 => g[i - 1] = f[i - 1]
            BY <3>1, <2>2
        <3> QED
            BY <3>1, <3>2
    <2>4. \A i \in 0..n : f[i] = Step(f, i)
        BY <2>1
    <2>5. n + 1 # 0 /\ (n + 1) - 1 = n /\ n \in 0..n
        OBVIOUS
    <2>6. Step(g, n + 1) = next
        BY <2>2, <2>5
    <2>7. \A i \in 0..(n + 1) : (IF i = n + 1 THEN next ELSE f[i]) = Step(g, i)
        <3> TAKE i \in 0..(n + 1)
        <3>1. i = n + 1 \/ (i # n + 1 /\ i \in 0..n)
            OBVIOUS
        <3> HIDE DEF Step, g, next
        <3> QED
            BY <3>1, <2>3, <2>4, <2>6
    <2>8. IsKept(g, n + 1)
        <3> HIDE DEF Step, next
        <3> QED
            BY <2>7
    <2>9. n + 1 \in Nat
        OBVIOUS
    <2> HIDE DEF IsKept, g
    <2> QED
        BY <2>8, <2>9
<1>3. L \in S
    BY <1>1, <1>2, NatSetInduction
<1> DEFINE kept == CHOOSE f : IsKept(f, L)
<1>4. IsKept(kept, L)
    BY <1>3
<1>5. Filtered(quotes) = kept[L]
    BY DEF Filtered
<1>6. \A i \in 0..L : kept[i] = Step(kept, i)
    <2> HIDE DEF Step, kept
    <2> QED
        BY <1>4
<1>7. 0 \in 0..L /\ \A n \in 1..L : n \in 0..L /\ n # 0
    OBVIOUS
<1>8. kept[0] = <<>>
    <2> HIDE DEF kept
    <2> QED
        BY <1>6, <1>7
<1>9. \A n \in 1..L : kept[n] = IF quotes[n].amountOut # 0
                                THEN Append(kept[n - 1], quotes[n]) ELSE kept[n - 1]
    <2> HIDE DEF kept
    <2> QED
        BY <1>6, <1>7
<1> QED
    <2> HIDE DEF kept
    <2> QED
        BY <1>5, <1>8, <1>9

\* Filtered(quotes) is the list of the quotes that are not '0', in their order:
\* a strictly increasing index maps its places onto the places of those quotes.
LEMMA FilteredKeepsValid ==
    ASSUME NEW Q, NEW quotes \in Seq(Q)
    PROVE  /\ Filtered(quotes) \in Seq(Q)
           /\ \E at \in [1..Len(Filtered(quotes)) -> 1..Len(quotes)] :
                /\ \A k, l \in 1..Len(Filtered(quotes)) : k < l => at[k] < at[l]
                /\ \A k \in 1..Len(Filtered(quotes)) :
                     /\ Filtered(quotes)[k] = quotes[at[k]]
                     /\ quotes[at[k]].amountOut # 0
                /\ \A i \in 1..Len(quotes) :
                     quotes[i].amountOut # 0 => \E k \in 1..Len(Filtered(quotes)) : at[k] = i
<1> DEFINE L == Len(quotes)
<1>1. L \in Nat /\ \A i \in 1..L : quotes[i] \in Q
    OBVIOUS
<1>2. PICK kept :
             /\ Filtered(quotes) = kept[L]
             /\ kept[0] = <<>>
             /\ \A n \in 1..L :
                  kept[n] = IF quotes[n].amountOut # 0
                            THEN Append(kept[n - 1], quotes[n]) ELSE kept[n - 1]
    BY <1>1, FilteredUnfolds
<1> DEFINE Index(at, n) ==
             /\ at \in [1..Len(kept[n]) -> 1..n]
             /\ \A k, l \in 1..Len(kept[n]) : k < l => at[k] < at[l]
             /\ \A k \in 1..Len(kept[n]) :
                  kept[n][k] = quotes[at[k]] /\ quotes[at[k]].amountOut # 0
             /\ \A i \in 1..n :
                  quotes[i].amountOut # 0 => \E k \in 1..Len(kept[n]) : at[k] = i
           S == {n \in Nat : n <= L => kept[n] \in Seq(Q) /\ \E at : Index(at, n)}
<1>3. 0 \in S
    <2> DEFINE none == [k \in 1..0 |-> 0]
    <2>1. kept[0] \in Seq(Q) /\ Len(kept[0]) = 0
        BY <1>2
    <2>2. Index(none, 0)
        BY <2>1
    <2> HIDE DEF Index, none
    <2> QED
        BY <2>1, <2>2
<1>4. ASSUME NEW n \in Nat, n \in S
      PROVE  n + 1 \in S
    <2> HIDE DEF Index
    <2>0. n + 1 \in Nat
        OBVIOUS
    <2> SUFFICES ASSUME n + 1 <= L
                 PROVE  kept[n + 1] \in Seq(Q) /\ \E at : Index(at, n + 1)
        BY <2>0
    <2> USE DEF Index
    <2>1. n <= L /\ n + 1 \in 1..L /\ (n + 1) - 1 = n
        BY <1>1
    <2>2. kept[n] \in Seq(Q)
        BY <1>4, <2>1
    <2>3. PICK at : Index(at, n)
        BY <1>4, <2>1
    <2>4. kept[n + 1] = IF quotes[n + 1].amountOut # 0
                        THEN Append(kept[n], quotes[n + 1]) ELSE kept[n]
        BY <1>2, <2>1
    <2>5. CASE quotes[n + 1].amountOut = 0
        <3>1. kept[n + 1] = kept[n]
            BY <2>4, <2>5
        <3>2. Index(at, n + 1)
            <4>1. \A i \in 1..(n + 1) : i \in 1..n \/ i = n + 1
                OBVIOUS
            <4>2. 1..n \subseteq 1..(n + 1)
                OBVIOUS
            <4> QED
                BY <2>3, <2>5, <3>1, <4>1, <4>2
        <3> HIDE DEF Index
        <3> QED
            BY <2>2, <3>1, <3>2
    <2>6. CASE quotes[n + 1].amountOut # 0
        <3> DEFINE m == Len(kept[n])
                   h == [k \in 1..(m + 1) |-> IF k = m + 1 THEN n + 1 ELSE at[k]]
        <3>1. kept[n + 1] = Append(kept[n], quotes[n + 1])
            BY <2>4, <2>6
        <3>2. /\ m \in Nat
              /\ kept[n + 1] \in Seq(Q)
              /\ Len(kept[n + 1]) = m + 1
              /\ kept[n + 1][m + 1] = quotes[n + 1]
              /\ \A k \in 1..m : kept[n + 1][k] = kept[n][k]
            BY <1>1, <2>1, <2>2, <3>1
        <3>3. /\ m + 1 \in 1..(m + 1)
              /\ \A k \in 1..(m + 1) : k = m + 1 \/ (k \in 1..m /\ k < m + 1)
              /\ \A k \in 1..m : k \in 1..(m + 1) /\ k # m + 1
              /\ \A i \in 1..(n + 1) : i = n + 1 \/ i \in 1..n
              /\ \A i \in 1..n : i \in 1..(n + 1) /\ i < n + 1
              /\ n + 1 \in 1..(n + 1)
            BY <3>2
        <3>4. h[m + 1] = n + 1 /\ \A k \in 1..m : h[k] = at[k] /\ h[k] \in 1..n
            BY <2>3, <3>3
        <3> HIDE DEF m
        <3>5. h \in [1..(m + 1) -> 1..(n + 1)]
            <4>1. \A k \in 1..(m + 1) : h[k] \in 1..(n + 1)
                BY <3>3, <3>4
            <4> QED
                BY <4>1
        <3> HIDE DEF h
        <3>6. \A k, l \in 1..(m + 1) : k < l => h[k] < h[l]
            <4> SUFFICES ASSUME NEW k \in 1..(m + 1), NEW l \in 1..(m + 1), k < l
                         PROVE  h[k] < h[l]
                OBVIOUS
            <4>1. k \in 1..m
                BY <3>2, <3>3
            <4>2. CASE l = m + 1
                BY <3>3, <3>4, <4>1, <4>2
            <4>3. CASE l \in 1..m
                BY <2>3, <3>4, <4>1, <4>3 DEF m
            <4> QED
                BY <3>3, <4>2, <4>3
        <3>7. \A k \in 1..(m + 1) :
                kept[n + 1][k] = quotes[h[k]] /\ quotes[h[k]].amountOut # 0
            <4> TAKE k \in 1..(m + 1)
            <4>1. CASE k = m + 1
                BY <2>6, <3>2, <3>4, <4>1
            <4>2. CASE k \in 1..m
                BY <2>3, <3>2, <3>4, <4>2 DEF m
            <4> QED
                BY <3>3, <4>1, <4>2
        <3>8. \A i \in 1..(n + 1) :
                quotes[i].amountOut # 0 => \E k \in 1..(m + 1) : h[k] = i
            <4> SUFFICES ASSUME NEW i \in 1..(n + 1), quotes[i].amountOut # 0
                         PROVE  \E k \in 1..(m + 1) : h[k] = i
                OBVIOUS
            <4>1. CASE i = n + 1
                BY <3>3, <3>4, <4>1
            <4>2. CASE i \in 1..n
                <5>1. PICK k \in 1..m : at[k] = i
                    BY <2>3, <4>2 DEF m
                <5> QED
                    BY <3>3, <3>4, <5>1
            <4> QED
                BY <3>3, <4>1, <4>2
        <3>9. Index(h, n + 1)
            BY <3>2, <3>5, <3>6, <3>7, <3>8
        <3> HIDE DEF Index
        <3> QED
            BY <3>2, <3>9
    <2> QED
        BY <2>5, <2>6
<1>5. L \in S
    <2> HIDE DEF S
    <2> QED
        BY <1>1, <1>3, <1>4, NatSetInduction
<1>6. kept[L] \in Seq(Q) /\ \E at : Index(at, L)
    BY <1>1, <1>5
<1> QED
    BY <1>2, <1>6

-----------------------------------------------------------------------------
(* The reduce                                                              *)

\* The recursive function of Reduce exists and satisfies its equation.
LEMMA ReduceUnfolds ==
    ASSUME NEW quotes, Len(quotes) \in Nat \ {0}
    PROVE  \E leader :
             /\ Reduce(quotes) = leader[Len(quotes)]
             /\ leader[1] = quotes[1]
             /\ \A n \in 2..Len(quotes) : leader[n] = Better(leader[n - 1], quotes[n])
<1> DEFINE Step(f, n) == IF n = 1 THEN quotes[1] ELSE Better(f[n - 1], quotes[n])
           IsLeader(f, n) == f = [i \in 1..n |-> Step(f, i)]
           S == {n \in Nat : \E f : IsLeader(f, n)}
           L == Len(quotes)
<1>1. 0 \in S
    <2> DEFINE none == [i \in 1..0 |-> 0]
    <2>1. IsLeader(none, 0)
        OBVIOUS
    <2> HIDE DEF IsLeader, none
    <2> QED
        BY <2>1
<1>2. ASSUME NEW n \in Nat, n \in S
      PROVE  n + 1 \in S
    <2>1. PICK f : IsLeader(f, n)
        BY <1>2
    <2> DEFINE next == Step(f, n + 1)
               g == [i \in 1..(n + 1) |-> IF i = n + 1 THEN next ELSE f[i]]
    <2> HIDE DEF Step, next
    <2>2. /\ n + 1 \in Nat /\ (n + 1) - 1 = n
          /\ \A i \in 1..(n + 1) : i = n + 1 \/ (i # n + 1 /\ i \in 1..n)
          /\ \A i \in 1..n : i \in 1..(n + 1) /\ i # n + 1
          /\ \A i \in 1..(n + 1) : i = 1 \/ i - 1 \in 1..n
        OBVIOUS
    <2>3. \A i \in 1..n : g[i] = f[i]
        BY <2>2
    <2>4. \A i \in 1..(n + 1) : Step(g, i) = Step(f, i)
        <3> HIDE DEF g
        <3> TAKE i \in 1..(n + 1)
        <3>1. i # 1 => g[i - 1] = f[i - 1]
            BY <2>2, <2>3
        <3> QED
            BY <3>1 DEF Step
    <2>5. \A i \in 1..n : f[i] = Step(f, i)
        BY <2>1
    <2>6. \A i \in 1..(n + 1) : (IF i = n + 1 THEN next ELSE f[i]) = Step(g, i)
        <3> HIDE DEF g
        <3> TAKE i \in 1..(n + 1)
        <3> QED
            BY <2>2, <2>4, <2>5 DEF next
    <2>7. IsLeader(g, n + 1)
        BY <2>6
    <2> HIDE DEF IsLeader, g
    <2> QED
        BY <2>2, <2>7
<1>3. L \in S
    <2> HIDE DEF S
    <2> QED
        BY <1>1, <1>2, NatSetInduction
<1> DEFINE leader == CHOOSE f : IsLeader(f, L)
<1>4. IsLeader(leader, L)
    BY <1>3
<1>5. Reduce(quotes) = leader[L]
    BY DEF Reduce
<1>6. \A i \in 1..L : leader[i] = Step(leader, i)
    <2> HIDE DEF Step, leader
    <2> QED
        BY <1>4
<1>7. 1 \in 1..L /\ \A n \in 2..L : n \in 1..L /\ n # 1
    OBVIOUS
<1> HIDE DEF leader
<1>8. leader[1] = quotes[1]
    BY <1>6, <1>7
<1>9. \A n \in 2..L : leader[n] = Better(leader[n - 1], quotes[n])
    BY <1>6, <1>7
<1> QED
    BY <1>5, <1>8, <1>9

\* The reduce of a list of quotes returns one of them, no other pays more, and of
\* those that pay as much it is the last.
LEMMA ReducePicksLastBest ==
    ASSUME NEW quotes, Len(quotes) \in Nat \ {0},
           \A i \in 1..Len(quotes) : quotes[i].amountOut \in Nat
    PROVE  \E i \in 1..Len(quotes) :
             /\ Reduce(quotes) = quotes[i]
             /\ \A k \in 1..Len(quotes) :
                  \/ quotes[k].amountOut < quotes[i].amountOut
                  \/ quotes[k].amountOut = quotes[i].amountOut /\ k <= i
<1> DEFINE L == Len(quotes)
           Amount(i) == quotes[i].amountOut
<1>1. PICK leader :
             /\ Reduce(quotes) = leader[L]
             /\ leader[1] = quotes[1]
             /\ \A n \in 2..L : leader[n] = Better(leader[n - 1], quotes[n])
    BY ReduceUnfolds
<1> DEFINE Leads(i, n) == \A k \in 1..n : \/ Amount(k) < Amount(i)
                                          \/ Amount(k) = Amount(i) /\ k <= i
           Led(n) == \E i \in 1..n : leader[n] = quotes[i] /\ Leads(i, n)
           S == {n \in Nat : n \in 1..L => Led(n)}
<1>2. 0 \in S
    OBVIOUS
<1>3. ASSUME NEW n \in Nat, n \in S
      PROVE  n + 1 \in S
    <2> HIDE DEF Led
    <2>0. n + 1 \in Nat
        OBVIOUS
    <2> SUFFICES ASSUME n + 1 \in 1..L
                 PROVE  Led(n + 1)
        BY <2>0
    <2> USE DEF Led
    <2>1. CASE n = 0
        <3>1. leader[n + 1] = quotes[1] /\ 1 \in 1..(n + 1)
            BY <1>1, <2>1
        <3>2. Leads(1, n + 1)
            BY <2>1
        <3> HIDE DEF Leads
        <3> QED
            BY <3>1, <3>2
    <2>2. CASE n # 0
        <3>1. n \in 1..L /\ n + 1 \in 2..L /\ (n + 1) - 1 = n
            BY <2>2
        <3>2. PICK i \in 1..n : leader[n] = quotes[i] /\ Leads(i, n)
            BY <1>3, <3>1
        <3>3. leader[n + 1] = Better(quotes[i], quotes[n + 1])
            BY <1>1, <3>1, <3>2
        <3>4. /\ Amount(i) \in Nat /\ Amount(n + 1) \in Nat
              /\ \A k \in 1..n : Amount(k) \in Nat
              /\ \A k \in 1..(n + 1) : k \in 1..n \/ k = n + 1
              /\ i \in 1..(n + 1) /\ n + 1 \in 1..(n + 1)
            BY <3>1
        <3>5. CASE Amount(i) > Amount(n + 1)
            <4>1. leader[n + 1] = quotes[i]
                BY <3>3, <3>5 DEF Better
            <4> HIDE DEF Amount
            <4>2. Leads(i, n + 1)
                BY <3>2, <3>4, <3>5
            <4> HIDE DEF Leads
            <4> QED
                BY <3>4, <4>1, <4>2
        <3>6. CASE ~(Amount(i) > Amount(n + 1))
            <4>1. leader[n + 1] = quotes[n + 1]
                BY <3>3, <3>6 DEF Better
            <4> HIDE DEF Amount
            <4>2. \A k \in 1..n : Amount(k) <= Amount(i)
                BY <3>2, <3>4
            <4>3. \A k \in 1..(n + 1) : Amount(k) <= Amount(n + 1)
                BY <3>4, <3>6, <4>2
            <4>4. Leads(n + 1, n + 1)
                BY <3>4, <4>3
            <4> HIDE DEF Leads
            <4> QED
                BY <3>4, <4>1, <4>4
        <3> QED
            BY <3>5, <3>6
    <2> QED
        BY <2>1, <2>2
<1>4. L \in S
    <2> HIDE DEF S
    <2> QED
        BY <1>2, <1>3, NatSetInduction
<1>5. Led(L)
    BY <1>4
<1> QED
    BY <1>1, <1>5

-----------------------------------------------------------------------------
(* The routing phase                                                       *)

\* The lists of quotes of the model are lists of records with an amount.
QuoteRecords == [dex : {"raydium", "meteora"}, amountOut : Amounts \union {0}]

\* When every DEX has answered, what the code does with the list: it picks nothing
\* only if every amount is 0, and otherwise the last of the highest of the list.
LEMMA BestOfQuoteList ==
    ASSUME TypeOK, \A i \in DOMAIN Dexes : answers[i] # Waiting
    PROVE  /\ QuoteList \in Seq(QuoteRecords) /\ Len(QuoteList) = Len(Dexes)
           /\ ValidQuotes = <<>> <=> \A i \in DOMAIN Dexes : answers[i] = 0
           /\ ValidQuotes # <<>> =>
                \E i \in DOMAIN Dexes :
                   /\ Reduce(ValidQuotes) = QuoteList[i]
                   /\ answers[i] # 0
                   /\ \A k \in DOMAIN Dexes :
                        answers[k] < answers[i] \/ (answers[k] = answers[i] /\ k <= i)
<1> DEFINE D == DOMAIN Dexes
           V == ValidQuotes
<1>1. D = 1..2 /\ Len(Dexes) = 2 /\ Dexes[1] = "raydium" /\ Dexes[2] = "meteora"
    BY DEF Dexes
<1>2. \A i \in D : answers[i] \in Amounts \union {0} /\ answers[i] \in Nat
    <2>1. \A i \in D : answers[i] \in Amounts \union {0, Waiting} /\ answers[i] # Waiting
        BY DEF TypeOK
    <2>2. \A a \in Amounts : a \in Nat
        BY AmountsAssumption
    <2> HIDE DEF D
    <2> QED
        BY <2>1, <2>2
<1>3. \A i \in D : QuoteList[i].amountOut = answers[i] /\ QuoteList[i] \in QuoteRecords
    BY <1>1, <1>2 DEF QuoteList, QuoteRecords
<1>4. QuoteList \in Seq(QuoteRecords) /\ Len(QuoteList) = 2
    <2>1. QuoteList \in [1..2 -> QuoteRecords]
        BY <1>1, <1>3 DEF QuoteList
    <2> HIDE DEF D
    <2>2. QuoteList \in Seq(QuoteRecords)
        BY <2>1, SeqDef
    <2>3. DOMAIN QuoteList = 1..2
        BY <2>1
    <2> QED
        BY <2>2, <2>3, LenProperties
<1>5. /\ V \in Seq(QuoteRecords)
      /\ \E at \in [1..Len(V) -> 1..2] :
           /\ \A k, l \in 1..Len(V) : k < l => at[k] < at[l]
           /\ \A k \in 1..Len(V) : V[k] = QuoteList[at[k]] /\ QuoteList[at[k]].amountOut # 0
           /\ \A i \in 1..2 : QuoteList[i].amountOut # 0 => \E k \in 1..Len(V) : at[k] = i
    <2>1. V = Filtered(QuoteList)
        BY DEF ValidQuotes
    <2> HIDE DEF V, D
    <2> QED
        BY <1>4, <2>1, FilteredKeepsValid
<1>6. PICK at \in [1..Len(V) -> D] :
           /\ \A k, l \in 1..Len(V) : k < l => at[k] < at[l]
           /\ \A k \in 1..Len(V) : V[k] = QuoteList[at[k]] /\ QuoteList[at[k]].amountOut # 0
           /\ \A i \in D : QuoteList[i].amountOut # 0 => \E k \in 1..Len(V) : at[k] = i
    BY <1>1, <1>5
<1> HIDE DEF V, D
<1>7. Len(V) \in Nat /\ (V = <<>> <=> Len(V) = 0)
    BY <1>5
<1>8. V = <<>> <=> \A i \in D : answers[i] = 0
    <2>1. ASSUME V = <<>>, NEW i \in D
          PROVE  answers[i] = 0
        BY <1>3, <1>6, <1>7, <2>1
    <2>2. ASSUME V # <<>>
          PROVE  \E i \in D : answers[i] # 0
        <3>1. 1 \in 1..Len(V)
            BY <1>7, <2>2
        <3> QED
            BY <1>3, <1>6, <3>1
    <2> QED
        BY <2>1, <2>2
<1>9. ASSUME V # <<>>
      PROVE  \E i \in D :
               /\ Reduce(V) = QuoteList[i]
               /\ answers[i] # 0
               /\ \A k \in D : answers[k] < answers[i] \/ (answers[k] = answers[i] /\ k <= i)
    <2>1. Len(V) \in Nat \ {0}
        BY <1>7, <1>9
    <2>2. \A k \in 1..Len(V) : at[k] \in D /\ V[k].amountOut = answers[at[k]]
        BY <1>3, <1>6
    <2>3. \A k \in 1..Len(V) : V[k].amountOut \in Nat
        BY <1>2, <2>2
    <2>4. PICK m \in 1..Len(V) :
             /\ Reduce(V) = V[m]
             /\ \A k \in 1..Len(V) :
                  \/ V[k].amountOut < V[m].amountOut
                  \/ V[k].amountOut = V[m].amountOut /\ k <= m
        BY <2>1, <2>3, ReducePicksLastBest
    <2>5. Reduce(V) = QuoteList[at[m]] /\ answers[at[m]] # 0 /\ answers[at[m]] \in Nat
        BY <1>2, <1>3, <1>6, <2>2, <2>4
    <2>6. ASSUME NEW k \in D
          PROVE  answers[k] < answers[at[m]] \/ (answers[k] = answers[at[m]] /\ k <= at[m])
        <3>1. CASE answers[k] = 0
            BY <2>5, <3>1
        <3>2. CASE answers[k] # 0
            <4>1. PICK l \in 1..Len(V) : at[l] = k
                BY <1>3, <1>6, <3>2
            <4>2. \/ answers[k] < answers[at[m]]
                  \/ answers[k] = answers[at[m]] /\ l <= m
                BY <2>2, <2>4, <4>1
            <4>3. l <= m => k <= at[m]
                BY <1>1, <1>6, <4>1 DEF D
            <4> QED
                BY <4>2, <4>3
        <3> QED
            BY <3>1, <3>2
    <2> QED
        BY <2>2, <2>5, <2>6
<1> QED
    BY <1>1, <1>4, <1>8, <1>9 DEF V, D

-----------------------------------------------------------------------------
(* The invariants                                                          *)

\* The answers stay as they are once a quote is chosen: all have arrived by then.
Inv ==
    /\ TypeOK
    /\ best # Undecided => \A i \in DOMAIN Dexes : answers[i] # Waiting
    /\ BestExecution

\* Init establishes the invariant.
LEMMA InitInv == Init => Inv
<1> SUFFICES ASSUME Init PROVE Inv
    OBVIOUS
<1> QED
    BY AmountsAssumption DEF Init, Inv, TypeOK, BestExecution

\* An answer arrives only while the quote is undecided.
LEMMA AnswerInv ==
    ASSUME Inv, NEW i \in DOMAIN Dexes, Answer(i)
    PROVE  Inv'
<1>1. best' = best /\ best = Undecided
    BY DEF Inv, Answer
<1>2. TypeOK'
    BY DEF Inv, TypeOK, Answer
<1> QED
    BY <1>1, <1>2 DEF Inv, BestExecution

\* The choice establishes best execution, from what filter and reduce return.
LEMMA ChooseInv ==
    ASSUME Inv, Choose
    PROVE  Inv'
<1>1. /\ answers' = answers /\ TypeOK
      /\ \A i \in DOMAIN Dexes : answers[i] # Waiting
      /\ best' = IF ValidQuotes = <<>> THEN NoQuote ELSE Reduce(ValidQuotes)
    BY DEF Inv, Choose
<1>2. QuoteList' = QuoteList
    BY <1>1 DEF QuoteList
<1>3. CASE ValidQuotes = <<>>
    <2>1. best' = NoQuote /\ \A i \in DOMAIN Dexes : answers[i] = 0
        BY <1>1, <1>3, BestOfQuoteList
    <2> QED
        BY <1>1, <2>1 DEF Inv, TypeOK, BestExecution
<1>4. CASE ValidQuotes # <<>>
    <2>1. PICK i \in DOMAIN Dexes :
             /\ best' = QuoteList[i]
             /\ answers[i] # 0
             /\ \A k \in DOMAIN Dexes :
                  answers[k] < answers[i] \/ (answers[k] = answers[i] /\ k <= i)
        BY <1>1, <1>4, BestOfQuoteList
    <2>2. best' = [dex |-> Dexes[i], amountOut |-> answers[i]]
        BY <2>1 DEF QuoteList
    <2>3. answers[i] \in Amounts /\ Dexes[i] \in {"raydium", "meteora"}
        BY <1>1, <2>1 DEF TypeOK, Dexes
    <2>4. best' \in [dex : {"raydium", "meteora"}, amountOut : Amounts]
        BY <2>2, <2>3
    <2>5. best' # NoQuote
        BY <2>2, <2>1 DEF NoQuote
    <2> QED
        BY <1>1, <1>2, <2>1, <2>4, <2>5
        DEF Inv, TypeOK, BestExecution
<1> QED
    BY <1>3, <1>4

\* Every step keeps the invariant.
LEMMA NextInv == Inv /\ [Next]_vars => Inv'
<1> SUFFICES ASSUME Inv, [Next]_vars PROVE Inv'
    OBVIOUS
<1>1. CASE \E i \in DOMAIN Dexes : Answer(i)
    BY <1>1, AnswerInv
<1>2. CASE Choose
    BY <1>2, ChooseInv
<1>3. CASE UNCHANGED vars
    BY <1>3 DEF Inv, TypeOK, BestExecution, QuoteList, vars
<1> QED
    BY <1>1, <1>2, <1>3 DEF Next, Chosen

\* The invariant holds throughout.
LEMMA InvInvariant == Spec => []Inv
BY InitInv, NextInv, PTL DEF Spec

\* The amounts and the choice keep their types, whatever amounts the DEXs quote.
THEOREM TypeCorrect == Spec => []TypeOK
<1>1. Inv => TypeOK
    BY DEF Inv
<1> QED
    BY <1>1, InvInvariant, PTL

\* processOrder trades at the best quote received and gives up only without one
\* (worker.ts:112-123): whatever the amounts, the order of the answers and the requests
\* that fail.
THEOREM TakesBestQuote == Spec => []BestExecution
<1>1. Inv => BestExecution
    BY DEF Inv
<1> QED
    BY <1>1, InvInvariant, PTL

=============================================================================
