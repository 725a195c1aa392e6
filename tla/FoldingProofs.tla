---------------------------- MODULE FoldingProofs ----------------------------
(***************************************************************************)
(* What the loops of Folding keep, and the induction over the naturals     *)
(* that recursive functions need, for sets rather than predicates: a set   *)
(* can be an argument of a lemma.                                          *)
(***************************************************************************)
EXTENDS Folding, WellFoundedInduction, TLAPS

LEMMA LeastNatural ==
    ASSUME NEW T \in SUBSET Nat, T # {}
    PROVE  \E n \in T : \A m \in T : n <= m
  <1>1. \E n \in T : \A m \in T : <<m, n>> \notin OpToRel(<, Nat)
    BY WFMin, NatLessThanWellFounded, Zenon
  <1>2. PICK n \in T : \A m \in T : <<m, n>> \notin OpToRel(<, Nat)
    BY <1>1
  <1>3. \A m \in T : ~(m < n)
    BY <1>2, Zenon DEF OpToRel
  <1>4. QED BY <1>3

LEMMA LastPlace ==
    ASSUME NEW N \in Nat, NEW T \in SUBSET (1 .. N), T # {}
    PROVE  \E i \in T : \A j \in T : j <= i
  <1> DEFINE U == {N - i : i \in T}
  <1>1. U \in SUBSET Nat /\ U # {}
    <2>1. \A i \in T : N - i \in Nat
      OBVIOUS
    <2>2. QED BY <2>1
  <1> HIDE DEF U
  <1>2. PICK n \in U : \A m \in U : n <= m
    BY <1>1, LeastNatural
  <1>3. PICK i \in T : n = N - i
    BY DEF U
  <1>4. \A j \in T : N - i <= N - j
    BY <1>2, <1>3 DEF U
  <1>5. QED BY <1>4

LEMMA SetInduction ==
    ASSUME NEW T, 0 \in T, \A n \in Nat : n \in T => n + 1 \in T
    PROVE  Nat \subseteq T
  <1> SUFFICES ASSUME Nat \ T # {} PROVE FALSE
    OBVIOUS
  <1>1. PICK n \in Nat \ T : \A m \in Nat \ T : n <= m
    BY LeastNatural
  <1>2. n - 1 \in Nat \ T
    BY <1>1
  <1>3. QED BY <1>1, <1>2

LEMMA RangeInduction ==
    ASSUME NEW N \in Nat, NEW T, 0 \in T, \A n \in 1 .. N : n - 1 \in T => n \in T
    PROVE  0 .. N \subseteq T
  <1> DEFINE U == {n \in Nat : n <= N => n \in T}
  <1>1. 0 \in U
    OBVIOUS
  <1>2. ASSUME NEW n \in Nat, n \in U PROVE n + 1 \in U
    BY <1>2
  <1>3. Nat \subseteq U
    <2> HIDE DEF U
    <2> QED BY <1>1, <1>2, SetInduction
  <1>4. QED BY <1>3


\* f is what step makes of base, n times for each n up to N, and stays in S.
Unfolds(f, N, S, base, step) ==
    f \in [0 .. N -> S] /\ f[0] = base /\ \A n \in 1 .. N : f[n] = step[n][f[n - 1]]

LEMMA RecursionExists ==
    ASSUME NEW N \in Nat, NEW S, NEW base \in S, NEW step,
           \A n \in 1 .. N : \A x \in S : step[n][x] \in S
    PROVE  \E f : Unfolds(f, N, S, base, step)
  <1> DEFINE T == {k \in 0 .. N : \E f : Unfolds(f, k, S, base, step)}
  <1>1. 0 \in T
    <2>1. Unfolds([n \in 0 .. 0 |-> base], 0, S, base, step)
      BY DEF Unfolds
    <2>2. QED BY <2>1
  <1>2. ASSUME NEW n \in 1 .. N, n - 1 \in T PROVE n \in T
    <2>1. PICK f : Unfolds(f, n - 1, S, base, step)
      BY <1>2
    <2> DEFINE g == [k \in 0 .. n |-> IF k = n THEN step[n][f[n - 1]] ELSE f[k]]
    <2>2. g \in [0 .. n -> S]
      BY <2>1 DEF Unfolds
    <2>3. g[0] = base /\ \A k \in 1 .. n : g[k] = step[k][g[k - 1]]
      BY <2>1 DEF Unfolds
    <2>4. Unfolds(g, n, S, base, step)
      BY <2>2, <2>3 DEF Unfolds
    <2>5. QED BY <2>4
  <1>3. N \in T
    <2> HIDE DEF T
    <2> QED BY <1>1, <1>2, RangeInduction
  <1>4. QED BY <1>3

\* A step that takes S and the elements of the sequence to S.
StepOn(step, S, seq) == \A x \in S : \A n \in 1 .. Len(seq) : step[x][seq[n]] \in S

FoldOf(f, S, step, base, seq) ==
    /\ f \in [0 .. Len(seq) -> S]
    /\ f[0] = base /\ \A n \in 1 .. Len(seq) : f[n] = step[f[n - 1]][seq[n]]
    /\ Folded(step, base, seq) = f[Len(seq)]

LEMMA FoldedSteps ==
    ASSUME NEW S, NEW base \in S, NEW step, NEW seq, Len(seq) \in Nat, StepOn(step, S, seq)
    PROVE  \E f : FoldOf(f, S, step, base, seq)
  <1> DEFINE N == Len(seq)
             Equation(f) == f = [n \in 0 .. N |-> IF n = 0 THEN base ELSE step[f[n - 1]][seq[n]]]
             by == [n \in 1 .. N |-> [x \in S |-> step[x][seq[n]]]]
  <1>0. N \in Nat
    OBVIOUS
  <1>1. PICK g : Unfolds(g, N, S, base, by)
    <2>1. \A n \in 1 .. N : \A x \in S : by[n][x] \in S
      BY DEF StepOn
    <2> HIDE DEF N, by
    <2>2. QED BY <1>0, <2>1, RecursionExists
  <1>2. \A n \in 1 .. N : g[n] = step[g[n - 1]][seq[n]]
    <2> TAKE n \in 1 .. N
    <2>1. n - 1 \in 0 .. N /\ n \in 0 .. N
      BY <1>0
    <2>2. g[n - 1] \in S
      BY <2>1, <1>1 DEF Unfolds
    <2>3. by[n][g[n - 1]] = step[g[n - 1]][seq[n]]
      BY <2>2
    <2>4. QED BY <1>1, <2>2, <2>3 DEF Unfolds
  <1>3. Equation(g)
    BY <1>0, <1>1, <1>2 DEF Unfolds
  <1>4. Equation(CHOOSE f : Equation(f))
    BY <1>3, Zenon
  <1> DEFINE h == CHOOSE f : Equation(f)
  <1>5. Folded(step, base, seq) = h[N]
    BY Zenon DEF Folded
  <1>6. h[0] = base /\ \A n \in 1 .. N : h[n] = step[h[n - 1]][seq[n]]
    <2> HIDE DEF h
    <2> DEFINE body == [n \in 0 .. N |-> IF n = 0 THEN base ELSE step[h[n - 1]][seq[n]]]
    <2>1. h = body
      BY <1>4, Zenon DEF h
    <2>2. \A n \in 0 .. N : body[n] = IF n = 0 THEN base ELSE step[h[n - 1]][seq[n]]
      OBVIOUS
    <2> HIDE DEF body, N
    <2>3. \A n \in 0 .. N : h[n] = IF n = 0 THEN base ELSE step[h[n - 1]][seq[n]]
      BY <2>1, <2>2
    <2>4. QED BY <1>0, <2>3
  <1>7. h \in [0 .. N -> S]
    <2> HIDE DEF h
    <2> DEFINE T == {n \in 0 .. N : h[n] \in S}
    <2>1. 0 .. N \subseteq T
      <3>1. 0 \in T BY <1>0, <1>6
      <3>2. ASSUME NEW n \in 1 .. N, n - 1 \in T PROVE n \in T
        BY <3>2, <1>0, <1>6 DEF StepOn
      <3> HIDE DEF T, N
      <3>3. QED BY <1>0, <3>1, <3>2, RangeInduction
    <2>2. \A n \in 0 .. N : h[n] \in S
      BY <2>1
    <2>3. h = [n \in 0 .. N |-> h[n]]
      BY <1>4 DEF h
    <2>4. QED BY <2>2, <2>3
  <1> HIDE DEF h
  <1>8. FoldOf(h, S, step, base, seq)
    BY <1>5, <1>6, <1>7 DEF FoldOf
  <1>9. QED BY <1>8

\* Inv[n] holds of what n steps make of base.
Keeps(Inv, step, seq) ==
    \A n \in 1 .. Len(seq) : \A x \in Inv[n - 1] : step[x][seq[n]] \in Inv[n]

LEMMA FoldedKeeps ==
    ASSUME NEW S, NEW base, NEW step, NEW seq, Len(seq) \in Nat, StepOn(step, S, seq),
           NEW Inv \in [0 .. Len(seq) -> SUBSET S], base \in Inv[0], Keeps(Inv, step, seq)
    PROVE  Folded(step, base, seq) \in Inv[Len(seq)]
  <1>1. base \in S
    OBVIOUS
  <1>2. PICK f : FoldOf(f, S, step, base, seq)
    BY <1>1, FoldedSteps
  <1> DEFINE T == {n \in 0 .. Len(seq) : f[n] \in Inv[n]}
  <1>3. 0 .. Len(seq) \subseteq T
    <2>1. 0 \in T BY <1>1, <1>2 DEF FoldOf
    <2>2. ASSUME NEW n \in 1 .. Len(seq), n - 1 \in T PROVE n \in T
      BY <1>1, <1>2, <2>2 DEF FoldOf, Keeps
    <2> HIDE DEF T
    <2>3. QED BY <1>1, <2>1, <2>2, RangeInduction
  <1>4. QED BY <1>1, <1>2, <1>3 DEF FoldOf

LEMMA FoldedType ==
    ASSUME NEW S, NEW base \in S, NEW step, NEW seq, Len(seq) \in Nat, StepOn(step, S, seq)
    PROVE  Folded(step, base, seq) \in S
  <1>1. PICK f : FoldOf(f, S, step, base, seq)
    BY FoldedSteps
  <1>2. QED BY <1>1 DEF FoldOf

-----------------------------------------------------------------------------
(* Those and Joined.                                                       *)

LEMMA SeqOver ==
    ASSUME NEW S, NEW T, NEW s \in Seq(S), \A i \in 1 .. Len(s) : s[i] \in T
    PROVE  s \in Seq(T)
  <1>1. Len(s) \in Nat /\ s \in [1 .. Len(s) -> S]
    OBVIOUS
  <1>2. s \in [1 .. Len(s) -> T]
    BY <1>1
  <1>3. QED BY <1>1, <1>2

LEMMA Appended ==
    ASSUME NEW S, NEW s \in Seq(S), NEW e \in S
    PROVE  Append(s, e) \in Seq(S) /\ ToSet(Append(s, e)) = ToSet(s) \cup {e}
  <1>1. /\ Append(s, e) \in Seq(S) /\ Len(Append(s, e)) = Len(s) + 1 /\ Len(s) \in Nat
        /\ \A i \in 1 .. Len(s) : Append(s, e)[i] = s[i]
        /\ Append(s, e)[Len(s) + 1] = e
    OBVIOUS
  <1>2. DOMAIN s = 1 .. Len(s) /\ DOMAIN Append(s, e) = 1 .. Len(s) + 1
    BY <1>1
  <1>3. ToSet(Append(s, e)) = ToSet(s) \cup {e}
    BY <1>1, <1>2 DEF ToSet
  <1>4. QED BY <1>1, <1>3

LEMMA ThoseElements ==
    ASSUME NEW S, NEW seq \in Seq(S), NEW set
    PROVE  Those(seq, set) \in Seq(S) /\ ToSet(Those(seq, set)) = ToSet(seq) \cap set
  <1> DEFINE E == ToSet(seq)
             step == [kept \in Seq(E) |-> [e \in E |-> IF e \in set THEN Append(kept, e) ELSE kept]]
             Before(n) == {seq[i] : i \in 1 .. n}
             Inv == [n \in 0 .. Len(seq) |-> {kept \in Seq(E) : ToSet(kept) = Before(n) \cap set}]
  <1>1. /\ Len(seq) \in Nat /\ DOMAIN seq = 1 .. Len(seq) /\ E \subseteq S
        /\ \A n \in 1 .. Len(seq) : seq[n] \in E
    BY DEF ToSet
  <1>2. StepOn(step, Seq(E), seq)
    BY <1>1 DEF StepOn
  <1>3. Inv \in [0 .. Len(seq) -> SUBSET Seq(E)]
    OBVIOUS
  <1>4. <<>> \in Inv[0]
    BY <1>1 DEF ToSet
  <1>5. Keeps(Inv, step, seq)
    <2> SUFFICES ASSUME NEW n \in 1 .. Len(seq), NEW kept \in Inv[n - 1]
                 PROVE  step[kept][seq[n]] \in Inv[n]
      BY DEF Keeps
    <2>1. n - 1 \in 0 .. Len(seq) /\ n \in 0 .. Len(seq)
      BY <1>1
    <2>2. kept \in Seq(E) /\ ToSet(kept) = Before(n - 1) \cap set
      BY <2>1
    <2>3. Before(n) = Before(n - 1) \cup {seq[n]}
      BY <1>1
    <2>4. /\ Append(kept, seq[n]) \in Seq(E)
          /\ ToSet(Append(kept, seq[n])) = ToSet(kept) \cup {seq[n]}
      BY <1>1, <2>2, Appended
    <2>5. step[kept][seq[n]] = IF seq[n] \in set THEN Append(kept, seq[n]) ELSE kept
      BY <1>1, <2>2
    <2> HIDE DEF step, Before, E
    <2>6. step[kept][seq[n]] \in Seq(E) /\ ToSet(step[kept][seq[n]]) = Before(n) \cap set
      BY <2>2, <2>3, <2>4, <2>5
    <2>7. QED BY <2>1, <2>6
  <1>6. Folded(step, <<>>, seq) \in Inv[Len(seq)]
    <2> HIDE DEF Inv, step, E
    <2> QED BY <1>1, <1>2, <1>3, <1>4, <1>5, FoldedKeeps
  <1>7. Those(seq, set) = Folded(step, <<>>, seq)
    BY DEF Those
  <1>8. Those(seq, set) \in Seq(E) /\ ToSet(Those(seq, set)) = Before(Len(seq)) \cap set
    BY <1>1, <1>6, <1>7
  <1>9. Before(Len(seq)) = ToSet(seq)
    BY <1>1 DEF ToSet
  <1>10. QED BY <1>1, <1>8, <1>9

LEMMA AppendedDistinct ==
    ASSUME NEW S, NEW s \in Seq(S), NEW e \in S, e \notin ToSet(s),
           \A i, j \in 1 .. Len(s) : s[i] = s[j] => i = j
    PROVE  LET t == Append(s, e) IN \A i, j \in 1 .. Len(t) : t[i] = t[j] => i = j
  <1>1. /\ Len(Append(s, e)) = Len(s) + 1 /\ Len(s) \in Nat
        /\ \A i \in 1 .. Len(s) : Append(s, e)[i] = s[i]
        /\ Append(s, e)[Len(s) + 1] = e
    OBVIOUS
  <1>2. \A i \in 1 .. Len(s) : s[i] # e
    BY DEF ToSet
  <1>3. QED BY <1>1, <1>2

\* Those of a sequence without repetitions are one.
LEMMA ThoseDistinct ==
    ASSUME NEW S, NEW seq \in Seq(S), NEW set,
           \A i, j \in 1 .. Len(seq) : seq[i] = seq[j] => i = j
    PROVE  \A i, j \in 1 .. Len(Those(seq, set)) : Those(seq, set)[i] = Those(seq, set)[j] => i = j
  <1> DEFINE E == ToSet(seq)
             step == [kept \in Seq(E) |-> [e \in E |-> IF e \in set THEN Append(kept, e) ELSE kept]]
             Before(n) == {seq[i] : i \in 1 .. n}
             Distinct(s) == \A i, j \in 1 .. Len(s) : s[i] = s[j] => i = j
             Inv == [n \in 0 .. Len(seq) |-> {kept \in Seq(E) : ToSet(kept) \subseteq Before(n) /\ Distinct(kept)}]
  <1>1. /\ Len(seq) \in Nat /\ DOMAIN seq = 1 .. Len(seq)
        /\ \A n \in 1 .. Len(seq) : seq[n] \in E
    BY DEF ToSet
  <1>2. StepOn(step, Seq(E), seq)
    BY <1>1 DEF StepOn
  <1>3. Inv \in [0 .. Len(seq) -> SUBSET Seq(E)]
    OBVIOUS
  <1>4. <<>> \in Inv[0]
    BY <1>1 DEF ToSet
  <1>5. Keeps(Inv, step, seq)
    <2> SUFFICES ASSUME NEW n \in 1 .. Len(seq), NEW kept \in Inv[n - 1]
                 PROVE  step[kept][seq[n]] \in Inv[n]
      BY DEF Keeps
    <2>1. n - 1 \in 0 .. Len(seq) /\ n \in 0 .. Len(seq)
      BY <1>1
    <2>2. kept \in Seq(E) /\ ToSet(kept) \subseteq Before(n - 1) /\ Distinct(kept)
      BY <2>1
    <2>3. Before(n - 1) \subseteq Before(n) /\ seq[n] \in Before(n)
      BY <1>1
    <2>4. seq[n] \notin Before(n - 1)
      BY <1>1
    <2>5. /\ Append(kept, seq[n]) \in Seq(E)
          /\ ToSet(Append(kept, seq[n])) = ToSet(kept) \cup {seq[n]}
      BY <1>1, <2>2, Appended
    <2>6. Distinct(Append(kept, seq[n]))
      <3>1. seq[n] \notin ToSet(kept) /\ seq[n] \in E
        BY <1>1, <2>2, <2>4
      <3> HIDE DEF E, Before
      <3>2. QED BY <2>2, <3>1, AppendedDistinct
    <2>7. step[kept][seq[n]] = IF seq[n] \in set THEN Append(kept, seq[n]) ELSE kept
      BY <1>1, <2>2
    <2> HIDE DEF step, Before, E, Distinct
    <2>8. /\ step[kept][seq[n]] \in Seq(E) /\ ToSet(step[kept][seq[n]]) \subseteq Before(n)
          /\ Distinct(step[kept][seq[n]])
      BY <2>2, <2>3, <2>5, <2>6, <2>7
    <2>9. QED BY <2>1, <2>8
  <1>6. Folded(step, <<>>, seq) \in Inv[Len(seq)]
    <2> HIDE DEF Inv, step, E
    <2> QED BY <1>1, <1>2, <1>3, <1>4, <1>5, FoldedKeeps
  <1>7. Those(seq, set) = Folded(step, <<>>, seq)
    BY DEF Those
  <1>8. Folded(step, <<>>, seq) \in {kept \in Seq(E) : ToSet(kept) \subseteq Before(Len(seq)) /\ Distinct(kept)}
    <2> HIDE DEF step, E, Before, Distinct
    <2> QED BY <1>1, <1>6
  <1>9. Distinct(Those(seq, set))
    <2> HIDE DEF step, E, Before, Distinct
    <2> QED BY <1>7, <1>8
  <1>10. QED BY <1>9

LEMMA Concatenated ==
    ASSUME NEW S, NEW s \in Seq(S), NEW t \in Seq(S)
    PROVE  s \o t \in Seq(S) /\ ToSet(s \o t) = ToSet(s) \cup ToSet(t)
  <1>1. /\ s \o t \in Seq(S) /\ Len(s \o t) = Len(s) + Len(t) /\ Len(s) \in Nat /\ Len(t) \in Nat
        /\ \A i \in 1 .. Len(s) + Len(t) : (s \o t)[i] = IF i <= Len(s) THEN s[i] ELSE t[i - Len(s)]
    OBVIOUS
  <1>2. /\ DOMAIN s = 1 .. Len(s) /\ DOMAIN t = 1 .. Len(t)
        /\ DOMAIN (s \o t) = 1 .. Len(s) + Len(t)
    BY <1>1
  <1>3. ToSet(s \o t) \subseteq ToSet(s) \cup ToSet(t)
    BY <1>1, <1>2 DEF ToSet
  <1>4. ToSet(s) \subseteq ToSet(s \o t)
    BY <1>1, <1>2 DEF ToSet
  <1>5. ASSUME NEW i \in 1 .. Len(t) PROVE t[i] \in ToSet(s \o t)
    <2>1. i + Len(s) \in 1 .. Len(s) + Len(t) /\ ~(i + Len(s) <= Len(s)) /\ (i + Len(s)) - Len(s) = i
      BY <1>1
    <2>2. (s \o t)[i + Len(s)] = t[i]
      BY <1>1, <2>1
    <2>3. QED BY <1>2, <2>1, <2>2 DEF ToSet
  <1>6. ToSet(t) \subseteq ToSet(s \o t)
    BY <1>2, <1>5 DEF ToSet
  <1>7. QED BY <1>1, <1>3, <1>4, <1>6

LEMMA JoinedElements ==
    ASSUME NEW S, NEW seqs \in Seq(Seq(S))
    PROVE  /\ Joined(seqs) \in Seq(S)
           /\ ToSet(Joined(seqs)) = UNION {ToSet(seqs[i]) : i \in 1 .. Len(seqs)}
  <1> DEFINE all == UNION {ToSet(seqs[i]) : i \in DOMAIN seqs}
             step == [joined \in Seq(all) |-> [s \in ToSet(seqs) |-> joined \o s]]
             Before(n) == UNION {ToSet(seqs[i]) : i \in 1 .. n}
             Inv == [n \in 0 .. Len(seqs) |-> {joined \in Seq(all) : ToSet(joined) = Before(n)}]
  <1>1. Len(seqs) \in Nat /\ DOMAIN seqs = 1 .. Len(seqs)
    OBVIOUS
  <1>2. ASSUME NEW n \in 1 .. Len(seqs)
        PROVE  seqs[n] \in Seq(S) /\ seqs[n] \in Seq(all) /\ ToSet(seqs[n]) \subseteq S
    <2>1. seqs[n] \in Seq(S)
      BY <1>1
    <2>2. \A i \in 1 .. Len(seqs[n]) : seqs[n][i] \in ToSet(seqs[n])
      BY <2>1 DEF ToSet
    <2>3. ToSet(seqs[n]) \subseteq S
      BY <2>1 DEF ToSet
    <2>4. ToSet(seqs[n]) \subseteq all
      BY <1>1
    <2>5. \A i \in 1 .. Len(seqs[n]) : seqs[n][i] \in all
      BY <2>2, <2>4
    <2> HIDE DEF all
    <2>6. seqs[n] \in Seq(all)
      BY <2>1, <2>5, SeqOver
    <2>7. QED BY <2>1, <2>3, <2>6
  <1>3. all \subseteq S
    BY <1>1, <1>2
  <1>4. ASSUME NEW joined \in Seq(all), NEW n \in 1 .. Len(seqs)
        PROVE  step[joined][seqs[n]] = joined \o seqs[n]
    <2>1. seqs[n] \in ToSet(seqs)
      BY <1>1 DEF ToSet
    <2> HIDE DEF all
    <2>2. QED BY <2>1
  <1>5. StepOn(step, Seq(all), seqs)
    <2> SUFFICES ASSUME NEW joined \in Seq(all), NEW n \in 1 .. Len(seqs)
                 PROVE  step[joined][seqs[n]] \in Seq(all)
      BY DEF StepOn
    <2>1. seqs[n] \in Seq(all)
      BY <1>2
    <2>2. step[joined][seqs[n]] = joined \o seqs[n]
      BY <1>4
    <2> HIDE DEF all, step
    <2>3. QED BY <2>1, <2>2
  <1>6. Inv \in [0 .. Len(seqs) -> SUBSET Seq(all)]
    OBVIOUS
  <1>7. <<>> \in Inv[0]
    <2>1. Before(0) = {} /\ ToSet(<<>>) = {}
      BY DEF ToSet
    <2>2. 0 \in 0 .. Len(seqs) /\ <<>> \in Seq(all)
      BY <1>1
    <2> HIDE DEF all, Before
    <2>3. Inv[0] = {joined \in Seq(all) : ToSet(joined) = Before(0)}
      BY <2>2
    <2> HIDE DEF Inv
    <2>4. QED BY <2>1, <2>2, <2>3
  <1>8. Keeps(Inv, step, seqs)
    <2> SUFFICES ASSUME NEW n \in 1 .. Len(seqs), NEW joined \in Inv[n - 1]
                 PROVE  step[joined][seqs[n]] \in Inv[n]
      BY DEF Keeps
    <2>1. n - 1 \in 0 .. Len(seqs) /\ n \in 0 .. Len(seqs)
      BY <1>1
    <2>2. joined \in Seq(all) /\ ToSet(joined) = Before(n - 1)
      BY <2>1
    <2>3. Before(n) = Before(n - 1) \cup ToSet(seqs[n])
      <3>1. n \in 1 .. n /\ 1 .. n - 1 \subseteq 1 .. n /\ \A i \in 1 .. n : i = n \/ i \in 1 .. n - 1
        BY <1>1
      <3>2. QED BY <3>1
    <2>4. seqs[n] \in Seq(all) /\ seqs[n] \in ToSet(seqs)
      BY <1>1, <1>2 DEF ToSet
    <2> HIDE DEF all, Before
    <2>5. step[joined][seqs[n]] = joined \o seqs[n]
      BY <1>4, <2>2
    <2>6. joined \o seqs[n] \in Seq(all) /\ ToSet(joined \o seqs[n]) = Before(n)
      BY <2>2, <2>3, <2>4, Concatenated
    <2>7. Inv[n] = {j \in Seq(all) : ToSet(j) = Before(n)}
      BY <2>1
    <2> HIDE DEF Inv, step
    <2>8. QED BY <2>5, <2>6, <2>7
  <1>9. Folded(step, <<>>, seqs) \in Inv[Len(seqs)]
    <2> HIDE DEF Inv, step, all
    <2> QED BY <1>1, <1>5, <1>6, <1>7, <1>8, FoldedKeeps
  <1>10. Joined(seqs) = Folded(step, <<>>, seqs)
    BY DEF Joined
  <1>11. Joined(seqs) \in Seq(all) /\ ToSet(Joined(seqs)) = Before(Len(seqs))
    <2> HIDE DEF all, Before, step
    <2> QED BY <1>1, <1>9, <1>10
  <1>12. QED BY <1>3, <1>11
=============================================================================
