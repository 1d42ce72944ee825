-------------------------- MODULE AzureMachineProofs --------------------------
(***************************************************************************)
(* Proofs about AzureMachine, for any number of requests, any releases,    *)
(* labels, VM types and machines.  IInv of AzureMachine is inductive; the  *)
(* properties follow from it, NamesAreLabels together with what the loop   *)
(* of AsDNSLabelName does with a label value of any length: that is shown  *)
(* first, by induction over the characters it has read.                    *)
(***************************************************************************)
EXTENDS AzureMachine, ReleaseVersionProofs, SequenceTheorems

(* Induction over the prefixes of a text, on the set of those it holds for. *)
LEMMA PrefixInduction ==
    ASSUME NEW n \in Nat, NEW T,
           0 \in T, \A i \in 1 .. n : i - 1 \in T => i \in T
    PROVE  \A i \in 0 .. n : i \in T
<1>. DEFINE Bad == {i \in 0 .. n : i \notin T}
<1>1. SUFFICES ASSUME Bad # {} PROVE FALSE
  OBVIOUS
<1>2. PICK i \in Bad : \A j \in Bad : i <= j
  <2>1. Bad \in SUBSET Nat
    OBVIOUS
  <2>. HIDE DEF Bad
  <2>. QED BY <1>1, <2>1, LeastNat
<1>3. i \in 1 .. n /\ i - 1 \in 0 .. n
  OBVIOUS
<1>4. i - 1 \notin Bad
  BY <1>2, <1>3
<1>. QED BY <1>3, <1>4

(* g says what a loop of n steps, which begins with b, has made after each. *)
Computes(g, b, n, step) == g[0] = b /\ \A i \in 1 .. n : g[i] = step[i][g[i - 1]]

(* A loop over n steps has a function that says what it has made after each. *)
LEMMA RecursionExists ==
    ASSUME NEW S, NEW b \in S, NEW n \in Nat, NEW step \in [1 .. n -> [S -> S]]
    PROVE  \E g \in [0 .. n -> S] : Computes(g, b, n, step)
<1>. DEFINE Unfolds(g, m) == \A i \in 0 .. m : g[i] = IF i = 0 THEN b ELSE step[i][g[i - 1]]
            T == {m \in 0 .. n : \E g \in [0 .. m -> S] : Unfolds(g, m)}
<1>1. 0 \in T
  <2>1. Unfolds([i \in 0 .. 0 |-> b], 0) /\ [i \in 0 .. 0 |-> b] \in [0 .. 0 -> S]
    OBVIOUS
  <2>. HIDE DEF Unfolds
  <2>. QED BY <2>1
<1>2. ASSUME NEW m \in 1 .. n, m - 1 \in T PROVE m \in T
  <2>1. PICK g \in [0 .. m - 1 -> S] : Unfolds(g, m - 1)
    BY <1>2
  <2>. DEFINE h == [i \in 0 .. m |-> IF i = m THEN step[m][g[m - 1]] ELSE g[i]]
  <2>2. h \in [0 .. m -> S]
    <3>1. step[m][g[m - 1]] \in S
      OBVIOUS
    <3>. QED BY <3>1
  <2>3. \A i \in 0 .. m - 1 : h[i] = g[i]
    OBVIOUS
  <2>4. h[m] = step[m][h[m - 1]]
    OBVIOUS
  <2>5. Unfolds(h, m)
    <3>. HIDE DEF h
    <3>. QED BY <2>1, <2>3, <2>4
  <2>. HIDE DEF h, Unfolds
  <2>. QED BY <2>2, <2>5
<1>3. n \in T
  <2>1. \A i \in 1 .. n : i - 1 \in T => i \in T
    BY <1>2
  <2>. HIDE DEF T
  <2>2. \A i \in 0 .. n : i \in T
    BY <1>1, <2>1, PrefixInduction
  <2>. QED BY <2>2
<1>4. PICK g \in [0 .. n -> S] : Unfolds(g, n)
  BY <1>3
<1>. QED BY <1>4 DEF Computes

-----------------------------------------------------------------------------
(* What AsDNSLabelName makes of a label value *)

(* Loop satisfies its recursive definition. *)
LEMMA LoopUnfold ==
    ASSUME NEW v \in Seq(Chars)
    PROVE  /\ Loop(v)[0] = <<>>
           /\ \A i \in 1 .. Len(v) : Loop(v)[i] = Appended(Loop(v)[i - 1], Lowered(v[i]))
<1>. DEFINE n == Len(v)
            S == Seq(Chars)
            step == [i \in 1 .. n |-> [xs \in S |-> Appended(xs, Lowered(v[i]))]]
            P(g) == g = [i \in 0 .. n |-> IF i = 0 THEN <<>>
                                          ELSE Appended(g[i - 1], Lowered(v[i]))]
<1>1. \A i \in 1 .. n : v[i] \in Chars
  OBVIOUS
<1>2. \A c \in Chars : Lowered(c) \in Chars
  BY NormalizeAssumption DEF Lowered, Chars, Letters
<1>3. \A xs \in S, c \in Chars : Appended(xs, c) \in S
  BY DEF Appended, Chars
<1>4. n \in Nat /\ <<>> \in S /\ step \in [1 .. n -> [S -> S]]
  <2>1. \A i \in 1 .. n, xs \in S : Appended(xs, Lowered(v[i])) \in S
    <3>. HIDE DEF S
    <3>. QED BY <1>1, <1>2, <1>3
  <2>2. n \in Nat /\ <<>> \in S
    OBVIOUS
  <2>. HIDE DEF n, S
  <2>. QED BY <2>1, <2>2
<1>5. PICK g \in [0 .. n -> S] :
         g[0] = <<>> /\ \A i \in 1 .. n : g[i] = step[i][g[i - 1]]
  <2>. HIDE DEF n, S, step
  <2>1. \E g \in [0 .. n -> S] : Computes(g, <<>>, n, step)
    BY <1>4, RecursionExists
  <2>. QED BY <2>1, Zenon DEF Computes
<1>6. \A i \in 1 .. n : step[i][g[i - 1]] = Appended(g[i - 1], Lowered(v[i]))
  <2>1. \A i \in 1 .. n : g[i - 1] \in S
    <3>. HIDE DEF S
    <3>. QED BY <1>4
  <2>. QED BY <2>1
<1>7. P(g)
  <2>1. \A i \in 0 .. n : g[i] = IF i = 0 THEN <<>> ELSE Appended(g[i - 1], Lowered(v[i]))
    <3>. HIDE DEF step, S
    <3>1. \A i \in 0 .. n : i # 0 => i \in 1 .. n
      BY <1>4
    <3>. QED BY <1>5, <1>6, <3>1, Zenon
  <2>2. g = [i \in 0 .. n |-> g[i]]
    OBVIOUS
  <2>. HIDE DEF n, S, step
  <2>. QED BY <2>1, <2>2, Zenon
<1>8. P(CHOOSE h : P(h))
  <2>. HIDE DEF P
  <2>. QED BY <1>7
<1>9. Loop(v) = CHOOSE h : P(h)
  BY Zenon DEF Loop
<1>10. P(Loop(v))
  <2>. HIDE DEF P
  <2>. QED BY <1>8, <1>9
<1>. QED BY <1>4, <1>10

(* LettersUpTo satisfies its recursive definition. *)
LEMMA LettersUnfold ==
    ASSUME NEW v \in Seq(Chars)
    PROVE  /\ LettersUpTo(v)[0] = <<>>
           /\ \A i \in 1 .. Len(v) :
                 LettersUpTo(v)[i] = IF v[i] \in Letters THEN Append(LettersUpTo(v)[i - 1], v[i])
                                                         ELSE LettersUpTo(v)[i - 1]
           /\ \A i \in 0 .. Len(v) : LettersUpTo(v)[i] \in Seq(Letters)
<1>. DEFINE n == Len(v)
            S == Seq(Letters)
            Body(i, ls) == IF v[i] \in Letters THEN Append(ls, v[i]) ELSE ls
            step == [i \in 1 .. n |-> [ls \in S |-> Body(i, ls)]]
            P(g) == g = [i \in 0 .. n |-> IF i = 0 THEN <<>>
                                          ELSE IF v[i] \in Letters THEN Append(g[i - 1], v[i])
                                               ELSE g[i - 1]]
<1>1. \A i \in 1 .. n, ls \in S : Body(i, ls) \in S
  OBVIOUS
<1>2. n \in Nat /\ <<>> \in S /\ step \in [1 .. n -> [S -> S]]
  <2>. HIDE DEF Body
  <2>. QED BY <1>1
<1>3. PICK g \in [0 .. n -> S] :
         g[0] = <<>> /\ \A i \in 1 .. n : g[i] = step[i][g[i - 1]]
  <2>. HIDE DEF n, S, step
  <2>1. \E g \in [0 .. n -> S] : Computes(g, <<>>, n, step)
    BY <1>2, RecursionExists
  <2>. QED BY <2>1, Zenon DEF Computes
<1>4. \A i \in 1 .. n : step[i][g[i - 1]] = Body(i, g[i - 1])
  <2>. HIDE DEF Body
  <2>1. \A i \in 1 .. n : g[i - 1] \in S
    <3>. HIDE DEF S
    <3>. QED BY <1>2
  <2>. QED BY <2>1
<1>5. P(g)
  <2>1. \A i \in 0 .. n : g[i] = IF i = 0 THEN <<>>
                                 ELSE IF v[i] \in Letters THEN Append(g[i - 1], v[i])
                                      ELSE g[i - 1]
    <3>. HIDE DEF step, S
    <3>1. \A i \in 0 .. n : i # 0 => i \in 1 .. n
      BY <1>2
    <3>. QED BY <1>3, <1>4, <3>1, Zenon
  <2>2. g = [i \in 0 .. n |-> g[i]]
    OBVIOUS
  <2>. HIDE DEF n, S, step
  <2>. QED BY <2>1, <2>2, Zenon
<1>6. P(CHOOSE h : P(h))
  <2>. HIDE DEF P
  <2>. QED BY <1>5
<1>7. LettersUpTo(v) = CHOOSE h : P(h)
  BY Zenon DEF LettersUpTo
<1>8. P(LettersUpTo(v))
  <2>. HIDE DEF P
  <2>. QED BY <1>6, <1>7
<1>9. /\ LettersUpTo(v)[0] = <<>>
      /\ \A i \in 1 .. n : LettersUpTo(v)[i] = Body(i, LettersUpTo(v)[i - 1])
  <2>. PICK f : f = LettersUpTo(v)
    OBVIOUS
  <2>1. \A i \in 0 .. n : f[i] = IF i = 0 THEN <<>> ELSE Body(i, f[i - 1])
    BY <1>8
  <2>2. 0 \in 0 .. n /\ \A i \in 1 .. n : i \in 0 .. n /\ i # 0
    BY <1>2
  <2>. HIDE DEF n, Body
  <2>. QED BY <2>1, <2>2
<1>10. \A i \in 0 .. n : LettersUpTo(v)[i] \in S
  <2>. DEFINE T == {i \in 0 .. n : LettersUpTo(v)[i] \in S}
  <2>1. 0 \in T
    <3>. HIDE DEF S
    <3>. QED BY <1>2, <1>9
  <2>2. \A i \in 1 .. n : i - 1 \in T => i \in T
    <3>. HIDE DEF Body, S
    <3>. QED BY <1>1, <1>9
  <2>3. \A i \in 0 .. n : i \in T
    <3>. HIDE DEF T
    <3>. QED BY <1>2, <2>1, <2>2, PrefixInduction
  <2>. QED BY <2>3
<1>. QED BY <1>9, <1>10

(* What the body of the loop makes of a character: a letter is kept in small,
   a dash is kept, and any other one becomes at most a dash.               *)
LEMMA AppendedCases ==
    ASSUME NEW xs \in Seq(Lower \cup {"-"}), NEW c \in Chars
    PROVE  /\ c \in Letters => /\ Lowered(c) \in Lower
                               /\ Appended(xs, Lowered(c)) = Append(xs, Lowered(c))
           /\ c \notin Letters => Appended(xs, Lowered(c)) \in {xs, Append(xs, "-")}
           /\ (c \notin Letters \cup {"-"} /\ xs # <<>> /\ xs[Len(xs)] = "-")
              => Appended(xs, Lowered(c)) = xs
BY NormalizeAssumption DEF Appended, Lowered, Letters, Chars, Last

(* The letters of the empty text. *)
LEMMA LettersEmpty == LettersOf(<<>>) = <<>>
<1>1. <<>> \in Seq(Chars) /\ Len(<<>>) = 0
  OBVIOUS
<1>. QED BY <1>1, LettersUnfold DEF LettersOf

(* The empty text, in small. *)
LEMMA LoweredEmpty == LoweredText(<<>>) = <<>>
BY DEF LoweredText

(* The letters of a text that has got one more character. *)
LEMMA LettersAppend ==
    ASSUME NEW xs \in Seq(Chars), NEW c \in Chars
    PROVE  LettersOf(Append(xs, c)) = IF c \in Letters THEN Append(LettersOf(xs), c)
                                                       ELSE LettersOf(xs)
<1>1. PICK ys : ys = Append(xs, c)
  OBVIOUS
<1>2. PICK n \in Nat : n = Len(xs)
  OBVIOUS
<1>3. /\ ys \in Seq(Chars) /\ Len(ys) = n + 1 /\ ys[n + 1] = c
      /\ \A i \in 1 .. n : ys[i] = xs[i]
  BY <1>1, <1>2
<1>4. PICK f : f = LettersUpTo(xs)
  OBVIOUS
<1>5. PICK g : g = LettersUpTo(ys)
  OBVIOUS
<1>6. f[0] = <<>> /\ \A i \in 1 .. n : f[i] = IF xs[i] \in Letters THEN Append(f[i - 1], xs[i])
                                                                   ELSE f[i - 1]
  BY <1>2, <1>4, LettersUnfold
<1>7. /\ g[0] = <<>>
      /\ \A i \in 1 .. n + 1 : g[i] = IF ys[i] \in Letters THEN Append(g[i - 1], ys[i])
                                                           ELSE g[i - 1]
  BY <1>3, <1>5, LettersUnfold
<1>8. g[n] = f[n]
  <2>. DEFINE T == {i \in 0 .. n : g[i] = f[i]}
  <2>1. 0 \in T
    BY <1>6, <1>7
  <2>2. \A i \in 1 .. n : i - 1 \in T => i \in T
    BY <1>3, <1>6, <1>7
  <2>3. \A i \in 0 .. n : i \in T
    <3>. HIDE DEF T
    <3>. QED BY <2>1, <2>2, PrefixInduction
  <2>. QED BY <2>3
<1>9. g[n + 1] = IF c \in Letters THEN Append(g[n], c) ELSE g[n]
  BY <1>3, <1>7
<1>10. LettersOf(xs) = f[n] /\ LettersOf(ys) = g[n + 1]
  BY <1>2, <1>3, <1>4, <1>5 DEF LettersOf
<1>. QED BY <1>1, <1>8, <1>9, <1>10

(* A text that has got one more letter, in small. *)
LEMMA LoweredAppend ==
    ASSUME NEW ls \in Seq(Letters), NEW c \in Letters
    PROVE  LoweredText(Append(ls, c)) = Append(LoweredText(ls), Lowered(c))
<1>1. \A d \in Letters : Lowered(d) \in Lower
  BY NormalizeAssumption DEF Lowered, Letters
<1>2. PICK ms : ms = Append(ls, c)
  OBVIOUS
<1>3. PICK n \in Nat : n = Len(ls)
  OBVIOUS
<1>4. /\ ms \in Seq(Letters) /\ Len(ms) = n + 1 /\ ms[n + 1] = c
      /\ \A i \in 1 .. n : ms[i] = ls[i]
  BY <1>2, <1>3
<1>5. ASSUME NEW ts \in Seq(Letters)
      PROVE  /\ LoweredText(ts) \in Seq(Lower) /\ Len(LoweredText(ts)) = Len(ts)
             /\ \A i \in 1 .. Len(ts) : LoweredText(ts)[i] = Lowered(ts[i])
  <2>1. DOMAIN ts = 1 .. Len(ts) /\ Len(ts) \in Nat
    OBVIOUS
  <2>2. \A i \in 1 .. Len(ts) : Lowered(ts[i]) \in Lower
    BY <1>1
  <2>3. LoweredText(ts) = [i \in 1 .. Len(ts) |-> Lowered(ts[i])]
    BY <2>1 DEF LoweredText
  <2>. QED BY <2>1, <2>2, <2>3
<1>6. PICK a : a = LoweredText(ls)
  OBVIOUS
<1>7. PICK b : b = LoweredText(ms)
  OBVIOUS
<1>8. /\ a \in Seq(Lower) /\ Len(a) = n /\ \A i \in 1 .. n : a[i] = Lowered(ls[i])
  BY <1>3, <1>5, <1>6
<1>9. /\ b \in Seq(Lower) /\ Len(b) = n + 1 /\ \A i \in 1 .. n + 1 : b[i] = Lowered(ms[i])
  BY <1>4, <1>5, <1>7
<1>10. PICK d \in Lower : d = Lowered(c)
  BY <1>1
<1>11. PICK e : e = Append(a, d)
  OBVIOUS
<1>12. /\ e \in Seq(Lower) /\ Len(e) = n + 1 /\ e[n + 1] = d
       /\ \A i \in 1 .. n : e[i] = a[i]
  BY <1>8, <1>11
<1>13. \A i \in 1 .. n + 1 : b[i] = e[i]
  BY <1>4, <1>8, <1>9, <1>10, <1>12
<1>14. b = e
  BY <1>9, <1>12, <1>13, SeqEqual
<1>. QED BY <1>2, <1>6, <1>7, <1>10, <1>11, <1>14

(* What the loop has made of the first i characters of v, which begins with a
   letter: it begins with that letter in small, it has the letters of v, it
   ends with the last character of v where that is a letter, and only a dash
   of v can have made two dashes in a row.                                 *)
LoopDone(v, i) ==
    LET xs == Loop(v)[i]
    IN  /\ xs \in Seq(Lower \cup {"-"})
        /\ Len(xs) <= i
        /\ i > 0 => Len(xs) > 0 /\ xs[1] = Lowered(v[1])
        /\ (i > 0 /\ v[i] \in Letters) => xs[Len(xs)] = Lowered(v[i])
        /\ LettersOf(xs) = LoweredText(LettersUpTo(v)[i])
        /\ (\A j \in 1 .. i : v[j] # "-") => ~HasDoubleDash(xs)

(* One more letter or dash makes a double dash only of two dashes. *)
LEMMA DoubleDashAppend ==
    ASSUME NEW S, NEW xs \in Seq(S), NEW c \in S,
           c # "-" \/ xs = <<>> \/ xs[Len(xs)] # "-",
           HasDoubleDash(Append(xs, c))
    PROVE  HasDoubleDash(xs)
<1>1. PICK ys : ys = Append(xs, c)
  OBVIOUS
<1>2. PICK n \in Nat : n = Len(xs)
  OBVIOUS
<1>3. /\ Len(ys) = n + 1 /\ ys[n + 1] = c
      /\ \A i \in 1 .. n : ys[i] = xs[i]
  BY <1>1, <1>2
<1>4. PICK i \in 2 .. n + 1 : ys[i - 1] = "-" /\ ys[i] = "-"
  BY <1>1, <1>3 DEF HasDoubleDash
<1>5. i # n + 1
  BY <1>2, <1>3, <1>4
<1>. QED BY <1>2, <1>3, <1>4, <1>5 DEF HasDoubleDash

(* The loop does what LoopDone says. *)
LEMMA LoopCorrect ==
    ASSUME NEW v \in Seq(Chars), v # <<>>, v[1] \in Letters
    PROVE  \A i \in 0 .. Len(v) : LoopDone(v, i)
<1>1. PICK n \in Nat : n = Len(v)
  OBVIOUS
<1>2. PICK L : L = Loop(v)
  OBVIOUS
<1>3. PICK F : F = LettersUpTo(v)
  OBVIOUS
<1>4. L[0] = <<>> /\ \A i \in 1 .. n : L[i] = Appended(L[i - 1], Lowered(v[i]))
  BY <1>1, <1>2, LoopUnfold
<1>5. /\ F[0] = <<>>
      /\ \A i \in 1 .. n : F[i] = IF v[i] \in Letters THEN Append(F[i - 1], v[i]) ELSE F[i - 1]
      /\ \A i \in 0 .. n : F[i] \in Seq(Letters)
  BY <1>1, <1>3, LettersUnfold
<1>. DEFINE T == {i \in 0 .. n : LoopDone(v, i)}
<1>6. 0 \in T
  <2>1. ~HasDoubleDash(<<>>)
    BY DEF HasDoubleDash
  <2>2. LettersOf(L[0]) = LoweredText(F[0])
    BY <1>4, <1>5, LettersEmpty, LoweredEmpty
  <2>3. LoopDone(v, 0)
    BY <1>2, <1>3, <1>4, <2>1, <2>2 DEF LoopDone
  <2>. QED BY <2>3
<1>7. ASSUME NEW i \in 1 .. n, LoopDone(v, i - 1) PROVE LoopDone(v, i)
  <2>1. PICK c \in Chars : c = v[i]
    BY <1>1
  <2>2. PICK xs : xs = L[i - 1]
    OBVIOUS
  <2>3. PICK ys : ys = L[i]
    OBVIOUS
  <2>4. ys = Appended(xs, Lowered(c))
    BY <1>4, <2>1, <2>2, <2>3
  <2>5. /\ xs \in Seq(Lower \cup {"-"})
        /\ Len(xs) <= i - 1
        /\ i > 1 => Len(xs) > 0 /\ xs[1] = Lowered(v[1])
        /\ LettersOf(xs) = LoweredText(F[i - 1])
        /\ (\A j \in 1 .. i - 1 : v[j] # "-") => ~HasDoubleDash(xs)
    BY <1>2, <1>3, <1>7, <2>2 DEF LoopDone
  <2>6. xs \in Seq(Chars)
    BY <2>5 DEF Chars, Letters
  <2>7. i = 1 => xs = <<>>
    BY <1>4, <2>2
  <2>8. /\ ys \in Seq(Lower \cup {"-"})
        /\ Len(ys) <= i /\ Len(ys) > 0 /\ ys[1] = Lowered(v[1])
        /\ c \in Letters => ys[Len(ys)] = Lowered(c)
        /\ LettersOf(ys) = LoweredText(F[i])
        /\ (\A j \in 1 .. i : v[j] # "-") => ~HasDoubleDash(ys)
    <3>1. CASE c \in Letters
      <4>1. PICK d \in Lower : d = Lowered(c)
        BY <2>5, <3>1, AppendedCases
      <4>2. ys = Append(xs, d)
        BY <2>4, <2>5, <3>1, <4>1, AppendedCases
      <4>3. /\ ys \in Seq(Lower \cup {"-"}) /\ Len(ys) = Len(xs) + 1 /\ ys[Len(ys)] = d
            /\ Len(xs) > 0 => ys[1] = xs[1]
        BY <2>5, <4>2
      <4>4. ys[1] = Lowered(v[1])
        BY <2>1, <2>5, <2>7, <4>1, <4>3
      <4>5. LettersOf(ys) = LoweredText(F[i])
        <5>1. d \in Letters /\ d \in Chars
          BY DEF Letters, Chars
        <5>2. LettersOf(ys) = Append(LettersOf(xs), d)
          BY <2>6, <4>2, <5>1, LettersAppend
        <5>3. F[i] = Append(F[i - 1], c) /\ F[i - 1] \in Seq(Letters)
          <6>1. i - 1 \in 0 .. n
            OBVIOUS
          <6>. QED BY <1>5, <2>1, <3>1, <6>1
        <5>4. LoweredText(F[i]) = Append(LoweredText(F[i - 1]), d)
          BY <3>1, <4>1, <5>3, LoweredAppend
        <5>. QED BY <2>5, <5>2, <5>4
      <4>6. d # "-"
        BY NormalizeAssumption
      <4>7. HasDoubleDash(ys) => HasDoubleDash(xs)
        BY <2>6, <4>2, <4>6, DoubleDashAppend DEF Chars, Letters
      <4>. QED BY <2>5, <4>1, <4>3, <4>4, <4>5, <4>7
    <3>2. CASE c \notin Letters
      <4>1. i # 1 /\ i > 1
        BY <2>1, <3>2
      <4>2. Len(xs) > 0 /\ xs # <<>> /\ xs[1] = Lowered(v[1])
        BY <2>5, <4>1
      <4>3. F[i] = F[i - 1]
        BY <1>5, <2>1, <3>2
      <4>4. CASE ys = xs
        BY <2>5, <3>2, <4>1, <4>2, <4>3, <4>4
      <4>5. CASE ys = Append(xs, "-")
        <5>1. /\ ys \in Seq(Lower \cup {"-"}) /\ Len(ys) = Len(xs) + 1 /\ ys[1] = xs[1]
          BY <2>5, <4>2, <4>5
        <5>2. "-" \in Chars \ Letters
          BY NormalizeAssumption DEF Chars, Letters
        <5>3. LettersOf(ys) = LettersOf(xs)
          BY <2>6, <4>5, <5>2, LettersAppend
        <5>4. ASSUME \A j \in 1 .. i : v[j] # "-" PROVE ~HasDoubleDash(ys)
          <6>1. c # "-" /\ \A j \in 1 .. i - 1 : v[j] # "-"
            BY <2>1, <5>4
          <6>2. CASE xs[Len(xs)] = "-"
            <7>1. ys = xs
              BY <2>4, <2>5, <3>2, <4>2, <6>1, <6>2, AppendedCases
            <7>. QED BY <2>5, <6>1, <7>1
          <6>3. CASE xs[Len(xs)] # "-"
            BY <2>5, <2>6, <4>5, <5>2, <6>1, <6>3, DoubleDashAppend
          <6>. QED BY <6>2, <6>3
        <5>. QED BY <2>5, <3>2, <4>2, <4>3, <5>1, <5>3, <5>4
      <4>. QED BY <2>4, <2>5, <3>2, <4>4, <4>5, AppendedCases
    <3>. QED BY <3>1, <3>2
  <2>. QED BY <1>2, <1>3, <2>1, <2>3, <2>8 DEF LoopDone
<1>8. \A i \in 0 .. n : i \in T
  <2>1. \A i \in 1 .. n : i - 1 \in T => i \in T
    BY <1>7
  <2>. HIDE DEF T
  <2>. QED BY <1>6, <2>1, PrefixInduction
<1>. QED BY <1>1, <1>8

(* A text without a dash at either end is not trimmed. *)
LEMMA TrimmedIdentity ==
    ASSUME NEW S, NEW xs \in Seq(S), xs # <<>>, xs[1] # "-", xs[Len(xs)] # "-"
    PROVE  Trimmed(xs) = xs
<1>1. PICK n \in Nat : n = Len(xs)
  OBVIOUS
<1>2. PICK kept : kept = {i \in DOMAIN xs : xs[i] # "-"}
  OBVIOUS
<1>3. kept \subseteq 1 .. n /\ 1 \in kept /\ n \in kept
  BY <1>1, <1>2
<1>4. Min(kept) = 1
  <2>1. \A y \in kept : 1 <= y
    BY <1>3
  <2>2. \A x \in kept : (\A y \in kept : x <= y) => x = 1
    BY <1>3
  <2>. QED BY <1>3, <2>1, <2>2, Zenon DEF Min
<1>5. Max(kept) = n
  <2>1. \A y \in kept : n >= y
    BY <1>3
  <2>2. \A x \in kept : (\A y \in kept : x >= y) => x = n
    BY <1>3
  <2>. QED BY <1>3, <2>1, <2>2, Zenon DEF Max
<1>6. Trimmed(xs) = SubSeq(xs, 1, n)
  <2>1. kept # {}
    BY <1>3
  <2>. QED BY <1>2, <1>4, <1>5, <2>1, Zenon DEF Trimmed
<1>. QED BY <1>1, <1>6, SubSeqFull

(* A name that is a DNS label stands for itself. *)
LEMMA LabelIsFixed ==
    ASSUME NEW m \in Seq(Lower \cup {"-"}), IsDNSLabel(m)
    PROVE  AsDNSLabelName(m) = m
<1>1. PICK n \in Nat : n = Len(m)
  OBVIOUS
<1>2. PICK L : L = Loop(m)
  OBVIOUS
<1>3. m \in Seq(Chars)
  BY DEF Chars, Letters
<1>4. \A i \in 1 .. n : m[i] \in Lower \cup {"-"} /\ Lowered(m[i]) = m[i]
  BY <1>1, NormalizeAssumption DEF Lowered
<1>5. L[0] = <<>> /\ \A i \in 1 .. n : L[i] = Appended(L[i - 1], m[i])
  BY <1>1, <1>2, <1>3, <1>4, LoopUnfold
<1>. DEFINE T == {i \in 0 .. n : /\ L[i] \in Seq(Lower \cup {"-"}) /\ Len(L[i]) = i
                                 /\ \A j \in 1 .. i : L[i][j] = m[j]}
<1>6. 0 \in T
  <2>1. <<>> \in Seq(Lower \cup {"-"}) /\ Len(<<>>) = 0
    OBVIOUS
  <2>2. L[0] \in Seq(Lower \cup {"-"}) /\ Len(L[0]) = 0
    BY <1>5, <2>1, Zenon
  <2>3. \A j \in 1 .. 0 : L[0][j] = m[j]
    OBVIOUS
  <2>4. 0 \in 0 .. n
    OBVIOUS
  <2>. QED BY <2>2, <2>3, <2>4, Zenon
<1>7. ASSUME NEW i \in 1 .. n, i - 1 \in T PROVE i \in T
  <2>1. PICK xs \in Seq(Lower \cup {"-"}) :
           xs = L[i - 1] /\ Len(xs) = i - 1 /\ \A j \in 1 .. i - 1 : xs[j] = m[j]
    BY <1>7
  <2>2. PICK c \in Lower \cup {"-"} : c = m[i]
    BY <1>4
  <2>3. L[i] = Append(xs, c)
    BY <1>5, <2>1, <2>2 DEF Appended
  <2>4. PICK ys : ys = Append(xs, c)
    OBVIOUS
  <2>5. /\ ys \in Seq(Lower \cup {"-"}) /\ Len(ys) = i /\ ys[i] = c
        /\ \A j \in 1 .. i - 1 : ys[j] = xs[j]
    BY <2>1, <2>4
  <2>6. \A j \in 1 .. i : ys[j] = m[j]
    BY <2>1, <2>2, <2>5
  <2>7. L[i] = ys
    BY <2>3, <2>4
  <2>. QED BY <2>5, <2>6, <2>7
<1>8. n \in T
  <2>1. \A i \in 1 .. n : i - 1 \in T => i \in T
    BY <1>7
  <2>. HIDE DEF T
  <2>2. \A i \in 0 .. n : i \in T
    BY <1>6, <2>1, PrefixInduction
  <2>. QED BY <2>2
<1>9. L[n] = m
  BY <1>1, <1>8, SeqEqual
<1>10. Trimmed(m) = m /\ ~(Len(m) > maxDNSLabelLength)
  <2>1. m # <<>> /\ m[1] # "-" /\ m[Len(m)] # "-" /\ Len(m) <= maxDNSLabelLength
    BY DEF IsDNSLabel, Last
  <2>2. Len(m) \in Nat /\ maxDNSLabelLength \in Nat
    BY NormalizeAssumption
  <2>. QED BY <2>1, <2>2, TrimmedIdentity
<1>. QED BY <1>1, <1>2, <1>9, <1>10, Zenon DEF AsDNSLabelName

(* Every label value that is not empty is named well. *)
LEMMA LabelsNamedWell ==
    ASSUME NEW v, IsLabelValue(v), v # <<>>
    PROVE  NamedWell(v)
<1>1. /\ v \in Seq(Chars) /\ v[1] \in Letters /\ v[Len(v)] \in Letters
      /\ Len(v) <= maxDNSLabelLength
  BY DEF IsLabelValue, Last
<1>2. PICK n \in Nat : n = Len(v) /\ n > 0
  BY <1>1
<1>3. PICK m : m = Loop(v)[n]
  OBVIOUS
<1>4. /\ m \in Seq(Lower \cup {"-"})
      /\ Len(m) <= n /\ Len(m) > 0
      /\ m[1] = Lowered(v[1]) /\ m[Len(m)] = Lowered(v[n])
      /\ LettersOf(m) = LoweredText(LettersOf(v))
      /\ (\A j \in 1 .. n : v[j] # "-") => ~HasDoubleDash(m)
  <2>1. LoopDone(v, n)
    BY <1>1, <1>2, LoopCorrect
  <2>. QED BY <1>1, <1>2, <1>3, <2>1 DEF LoopDone, LettersOf
<1>5. \A c \in Letters : Lowered(c) \in Lower /\ Lowered(c) # "-"
  BY NormalizeAssumption DEF Lowered, Letters
<1>6. m # <<>> /\ m[1] # "-" /\ m[Len(m)] # "-" /\ Len(m) <= maxDNSLabelLength
  BY <1>1, <1>2, <1>4, <1>5, NormalizeAssumption
<1>7. IsDNSLabel(m)
  BY <1>4, <1>6 DEF IsDNSLabel, Last
<1>8. AsDNSLabelName(v) = m
  <2>1. Trimmed(m) = m
    BY <1>4, <1>6, TrimmedIdentity
  <2>2. ~(Len(m) > maxDNSLabelLength)
    BY <1>4, <1>6, NormalizeAssumption
  <2>. QED BY <1>2, <1>3, <2>1, <2>2, Zenon DEF AsDNSLabelName
<1>9. HasDoubleDash(m) => "-" \in ToSet(v)
  BY <1>1, <1>2, <1>4 DEF ToSet
<1>10. AsDNSLabelName(m) = m
  BY <1>4, <1>7, LabelIsFixed
<1>. QED BY <1>4, <1>7, <1>8, <1>9, <1>10, Zenon DEF NamedWell

-----------------------------------------------------------------------------
(* The requests and the stored machine *)

(* A request at one of the steps is a live one. *)
LEMMA LiveRequest ==
    ASSUME IInv, NEW r \in Requests, reqs[r].step \in {"mutate", "validate", "write"}
    PROVE  IsRequest(reqs[r]) /\ RequestOK(reqs[r])
<1>1. Idle.step = "idle"
  BY DEF Idle
<1>2. InFlight(r)
  BY <1>1 DEF InFlight
<1>. QED BY <1>2, Zenon DEF IInv, TypeOK, RequestInv

(* A machine is stored, or there is none. *)
LEMMA StoredMachine ==
    ASSUME IInv
    PROVE  /\ machine = Absent \/ IsMachine(machine)
           /\ birth = Absent \/ IsMachine(birth)
BY Zenon DEF IInv, TypeOK

-----------------------------------------------------------------------------
(* A step that changes one request and nothing else. *)
LEMMA RequestStep ==
    ASSUME IInv, NEW r \in Requests, NEW q, RequestMoves(r, q),
           q # Idle => IsRequest(q) /\ RequestOK(q)
    PROVE  IInv'
<1>1. /\ DOMAIN reqs' = Requests
      /\ reqs'[r] = q
      /\ \A s \in Requests \ {r} : reqs'[s] = reqs[s]
  BY DEF IInv, TypeOK, RequestMoves
<1>2. \A s \in Requests : reqs'[s] # Idle => IsRequest(reqs'[s]) /\ RequestOK(reqs'[s])
  BY <1>1, Zenon DEF IInv, TypeOK, RequestInv, InFlight
<1>3. /\ UNCHANGED <<releases, moves, machine, owner, azureOperator, cached>>
      /\ UNCHANGED <<birth, unchecked, unmutated, everIgnored>>
  BY DEF RequestMoves, historyVars
<1>4. TypeOK'
  BY <1>1, <1>2, <1>3 DEF IInv, TypeOK, CatalogTypeOK, InFlight
<1>5. IgnoredInv' /\ DeletionInv' /\ PlacedForLife'
  BY <1>3 DEF IInv, IgnoredInv, DeletionInv, PlacedForLife
<1>6. RequestInv'
  BY <1>2, <1>3 DEF RequestInv, InFlight, RequestOK, MayFollow, Forward
<1>. QED BY <1>4, <1>5, <1>6 DEF IInv

(* A step that leaves the requests and the machine alone, and forgets no
   ignored release.                                                        *)
LEMMA SurroundingsStep ==
    ASSUME IInv, CatalogTypeOK', owner' \in Versions,
           azureOperator' \in Operators, cached' \subseteq Versions,
           everIgnored' \subseteq Versions, everIgnored \subseteq everIgnored',
           releases'.ignored \subseteq everIgnored',
           UNCHANGED <<machine, reqs, birth, unchecked, unmutated>>
    PROVE  IInv'
<1>1. TypeOK'
  BY DEF IInv, TypeOK, InFlight
<1>2. IgnoredInv' /\ DeletionInv' /\ PlacedForLife'
  BY DEF IInv, IgnoredInv, DeletionInv, PlacedForLife
<1>3. RequestInv'
  <2>1. \A u, v : Forward(u, v) => Forward(u, v)'
    BY Zenon DEF Forward
  <2>2. \A q : RequestOK(q) => RequestOK(q)'
    <3>. SUFFICES ASSUME NEW q, RequestOK(q) PROVE RequestOK(q)'
      OBVIOUS
    <3>1. MayFollow(machine, q.new) => MayFollow(machine, q.new)'
      BY <2>1, Zenon DEF MayFollow
    <3>. QED BY <3>1 DEF RequestOK
  <2>. QED BY <2>2 DEF IInv, RequestInv, InFlight
<1>. QED BY <1>1, <1>2, <1>3 DEF IInv

-----------------------------------------------------------------------------
(* What the mutators do to a machine *)

(* A missing location is filled in. *)
LEMMA LocationEnsured ==
    ASSUME NEW o, IsMachine(o)
    PROVE  /\ IsMachine(ensureLocation(o))
           /\ ensureLocation(o).deleting = o.deleting
BY DEF IsMachine, ensureLocation

(* A missing caching type is filled in. *)
LEMMA CachingEnsured ==
    ASSUME NEW o, IsMachine(o)
    PROVE  /\ IsMachine(ensureOSDiskCachingType(o))
           /\ ensureOSDiskCachingType(o).deleting = o.deleting
           /\ ensureOSDiskCachingType(o).caching # ""
BY DEF IsMachine, ensureOSDiskCachingType, OSDiskCachingType

(* A missing operator label is copied. *)
LEMMA OperatorCopied ==
    ASSUME NEW o, IsMachine(o), azureOperator \in Operators
    PROVE  LET m == CopyAzureOperatorVersionLabelFromAzureClusterCR(o)
           IN  IsMachine(m) /\ m.deleting = o.deleting /\ m.caching = o.caching
BY DEF IsMachine, CopyAzureOperatorVersionLabelFromAzureClusterCR

(* A machine that was mutated for its creation. *)
LEMMA CreateMutated ==
    ASSUME NEW o, IsMachine(o), azureOperator \in Operators
    PROVE  LET m == MutatedForCreate(o)
           IN  IsMachine(m) /\ m.deleting = o.deleting /\ m.caching # ""
<1>1. PICK a : a = ensureLocation(o)
  OBVIOUS
<1>2. PICK b : b = ensureOSDiskCachingType(a)
  OBVIOUS
<1>3. PICK m : m = CopyAzureOperatorVersionLabelFromAzureClusterCR(b)
  OBVIOUS
<1>4. MutatedForCreate(o) = m
  BY <1>1, <1>2, <1>3, Zenon DEF MutatedForCreate
<1>5. IsMachine(a) /\ a.deleting = o.deleting
  BY <1>1, LocationEnsured
<1>6. IsMachine(b) /\ b.deleting = a.deleting /\ b.caching # ""
  BY <1>2, <1>5, CachingEnsured
<1>7. IsMachine(m) /\ m.deleting = b.deleting /\ m.caching = b.caching
  BY <1>3, <1>6, OperatorCopied
<1>. QED BY <1>4, <1>5, <1>6, <1>7

-----------------------------------------------------------------------------
(* What the validators see *)

(* The only objection of CAPZ is the missing SSH key. *)
LEMMA OnlySSHKey ==
    ASSUME NEW o, CapzAccepts(o), checkSSHKeyIsEmpty(o)
    PROVE  CapzErrors(o) = {SSHField}
BY DEF CapzAccepts, checkSSHKeyIsEmpty, CapzErrors, IgnoreCAPIErrorForField

(* Validate goes back only over an ignored release. *)
LEMMA ValidateForward ==
    ASSUME IInv, NEW u \in Versions, NEW v \in Versions, Validate(releases, u, v)
    PROVE  Forward(u, v)
<1>1. u \in Semver /\ v \in Semver
  BY CatalogAssumption
<1>2. CASE u = v
  BY <1>1, <1>2, LTAsymmetric DEF Forward
<1>3. CASE isOldOrNewReleaseIgnored(releases, u, v)
  BY <1>3, Zenon DEF isOldOrNewReleaseIgnored, isIgnoredRelease, IInv, IgnoredInv, Forward
<1>4. CASE ~LT(v, u)
  BY <1>4 DEF Forward
<1>. QED BY <1>2, <1>3, <1>4, Zenon DEF Validate

(* An update that OnUpdateValidate accepts, and that is no part of a deletion,
   may follow.                                                             *)
LEMMA UpdateMayFollow ==
    ASSUME IInv, NEW old, IsMachine(old), NEW new, IsMachine(new),
           OnUpdateValidate(old, new), ~new.deleting
    PROVE  MayFollow(old, new)
<1>1. /\ CapzAccepts(new) /\ checkSSHKeyIsEmpty(new)
      /\ ValidateOrganizationLabelUnchanged(old, new)
      /\ old.location = new.location
      /\ validateFailureDomainUnchanged(old, new)
      /\ NoRelease \notin {old.release, new.release}
      /\ Validate(releases, old.release, new.release)
  BY Zenon DEF OnUpdateValidate
<1>2. Zone(old) = Zone(new)
  BY <1>1 DEF validateFailureDomainUnchanged, Zone
<1>3. old.release \in Versions /\ new.release \in Versions
  BY <1>1 DEF IsMachine
<1>4. Forward(old.release, new.release)
  BY <1>1, <1>3, ValidateForward
<1>. QED
  BY <1>1, <1>2, <1>4, OnlySSHKey, Zenon DEF MayFollow, ValidateOrganizationLabelUnchanged

-----------------------------------------------------------------------------
(* The steps of a request *)

(* A new request has the deletion timestamp of the stored object. *)
LEMMA SubmitStep ==
    ASSUME IInv, NEW r \in Requests, NEW o \in NewMachines \cup Edits, Submit(r, o)
    PROVE  IInv'
<1>. DEFINE new == IF machine = Absent THEN o ELSE [o EXCEPT !.deleting = machine.deleting]
<1>1. IsMachine(o)
  BY AzureMachineAssumption
<1>2. IsMachine(new) /\ (new.deleting <=> (machine # Absent /\ machine.deleting))
  <2>1. CASE machine = Absent
    <3>1. o \in NewMachines /\ new = o
      BY <2>1, Zenon DEF Submit
    <3>2. ~o.deleting
      BY <3>1, AzureMachineAssumption
    <3>. QED BY <1>1, <2>1, <3>1, <3>2
  <2>2. CASE machine # Absent
    <3>1. new = [o EXCEPT !.deleting = machine.deleting]
      BY <2>2
    <3>2. machine.deleting \in BOOLEAN
      BY <2>2, StoredMachine DEF IsMachine
    <3>. HIDE DEF new
    <3>. QED BY <1>1, <2>2, <3>1, <3>2 DEF IsMachine
  <2>. QED BY <2>1, <2>2
<1>3. PICK q : q = [step |-> "mutate", mutated |-> FALSE, checked |-> FALSE, new |-> new]
  OBVIOUS
<1>4. RequestMoves(r, q)
  BY <1>3, Zenon DEF Submit, RequestMoves
<1>. HIDE DEF new
<1>5. /\ q.new = new /\ ~q.mutated /\ ~q.checked
      /\ q \in [step : {"mutate", "validate", "write"}, new : {q.new},
                mutated : BOOLEAN, checked : BOOLEAN]
  BY <1>3
<1>6. IsRequest(q) /\ RequestOK(q)
  BY <1>2, <1>5, Zenon DEF IsRequest, RequestOK
<1>. QED BY <1>4, <1>6, RequestStep

(* The mutating webhook leaves no caching type out. *)
LEMMA MutateStep ==
    ASSUME IInv, NEW r \in Requests, Mutate(r)
    PROVE  IInv'
<1>. DEFINE q == reqs[r]
<1>1. q.step = "mutate" /\ IsRequest(q) /\ RequestOK(q)
  BY LiveRequest DEF Mutate
<1>2. ~q.checked
  BY <1>1 DEF RequestOK
<1>3. CASE RequestMoves(r, [q EXCEPT !.step = "validate"])
  <2>1. PICK p : p = [q EXCEPT !.step = "validate"]
    OBVIOUS
  <2>2. p.new = q.new /\ p.mutated = q.mutated /\ p.checked = q.checked
    BY <1>1, <2>1 DEF IsRequest
  <2>3. IsRequest(p)
    BY <1>1, <2>1 DEF IsRequest
  <2>4. RequestOK(p)
    <3>1. /\ q.mutated => q.new.caching # ""
          /\ q.new.deleting <=> (machine # Absent /\ machine.deleting)
      BY <1>1, Zenon DEF RequestOK
    <3>2. (p.mutated => q.mutated) /\ ~p.checked
      BY <1>2, <2>2
    <3>. QED BY <2>2, <3>1, <3>2, Zenon DEF RequestOK
  <2>. QED BY <1>3, <2>1, <2>3, <2>4, RequestStep
<1>4. CASE RequestMoves(r, [q EXCEPT !.step = "validate", !.mutated = TRUE,
                                     !.new = IF machine = Absent THEN MutatedForCreate(@)
                                                                 ELSE MutatedForUpdate(@)])
  <2>. DEFINE m == IF machine = Absent THEN MutatedForCreate(q.new) ELSE MutatedForUpdate(q.new)
  <2>1. IsMachine(m) /\ m.deleting = q.new.deleting /\ m.caching # ""
    <3>1. IsMachine(q.new) /\ azureOperator \in Operators
      BY <1>1 DEF IsRequest, IInv, TypeOK
    <3>2. CASE machine = Absent
      BY <3>1, <3>2, CreateMutated
    <3>3. CASE machine # Absent
      BY <3>1, <3>3, CachingEnsured DEF MutatedForUpdate
    <3>. QED BY <3>2, <3>3
  <2>2. PICK p : p = [q EXCEPT !.step = "validate", !.mutated = TRUE, !.new = m]
    OBVIOUS
  <2>3. RequestMoves(r, p)
    BY <1>4, <2>2, Zenon
  <2>. HIDE DEF m
  <2>4. /\ p.new = m /\ p.checked = q.checked
        /\ p \in [step : {"mutate", "validate", "write"}, new : {p.new},
                  mutated : BOOLEAN, checked : BOOLEAN]
    BY <1>1, <2>2 DEF IsRequest
  <2>5. IsRequest(p)
    BY <2>1, <2>4, Zenon DEF IsRequest
  <2>6. RequestOK(p)
    BY <1>1, <1>2, <2>1, <2>4, Zenon DEF RequestOK
  <2>. QED BY <2>3, <2>5, <2>6, RequestStep
<1>. QED BY <1>3, <1>4, Zenon DEF Mutate

(* The validating webhook remembers what it has accepted. *)
LEMMA ValidateStep ==
    ASSUME IInv, NEW r \in Requests, ValidateRequest(r)
    PROVE  IInv'
<1>. DEFINE q == reqs[r]
<1>1. q.step = "validate" /\ IsRequest(q) /\ RequestOK(q)
  BY LiveRequest DEF ValidateRequest
<1>2. ~q.checked
  BY <1>1 DEF RequestOK
<1>3. CASE RequestMoves(r, [q EXCEPT !.step = "write"])
  <2>1. PICK p : p = [q EXCEPT !.step = "write"]
    OBVIOUS
  <2>2. p.new = q.new /\ p.mutated = q.mutated /\ p.checked = q.checked
    BY <1>1, <2>1 DEF IsRequest
  <2>3. IsRequest(p)
    BY <1>1, <2>1 DEF IsRequest
  <2>4. RequestOK(p)
    <3>1. /\ q.mutated => q.new.caching # ""
          /\ q.new.deleting <=> (machine # Absent /\ machine.deleting)
      BY <1>1, Zenon DEF RequestOK
    <3>2. (p.mutated => q.mutated) /\ ~p.checked
      BY <1>2, <2>2
    <3>. QED BY <2>2, <3>1, <3>2, Zenon DEF RequestOK
  <2>. QED BY <1>3, <2>1, <2>3, <2>4, RequestStep
<1>4. CASE Accepts(q) /\ RequestMoves(r, [q EXCEPT !.step = "write", !.checked = TRUE])
  <2>1. PICK p : p = [q EXCEPT !.step = "write", !.checked = TRUE]
    OBVIOUS
  <2>2. p.new = q.new /\ p.mutated = q.mutated /\ p.step = "write"
    BY <1>1, <2>1 DEF IsRequest
  <2>3. IsRequest(p)
    BY <1>1, <2>1 DEF IsRequest
  <2>4. IF machine = Absent THEN OnCreateValidate(q.new)
                            ELSE q.new.deleting \/ MayFollow(machine, q.new)
    <3>1. CASE machine = Absent
      BY <1>4, <3>1, Zenon DEF Accepts
    <3>2. CASE machine # Absent
      <4>1. OnUpdateValidate(machine, q.new)
        BY <1>4, <3>2, Zenon DEF Accepts
      <4>2. IsMachine(machine) /\ IsMachine(q.new)
        BY <1>1, <3>2, StoredMachine, Zenon DEF IsRequest
      <4>3. q.new.deleting \/ MayFollow(machine, q.new)
        BY <4>1, <4>2, UpdateMayFollow
      <4>. QED BY <3>2, <4>3
    <3>. QED BY <3>1, <3>2
  <2>5. RequestOK(p)
    BY <1>1, <2>2, <2>4, Zenon DEF RequestOK
  <2>. QED BY <1>4, <2>1, <2>3, <2>5, RequestStep
<1>. QED BY <1>3, <1>4, Zenon DEF ValidateRequest

(* The first write of a machine that was validated. *)
LEMMA CreatedPlaced ==
    ASSUME NEW o, OnCreateValidate(o)
    PROVE  /\ Zone(o) \in SupportedAZs[o.vmSize] \cup {""}
           /\ o.location = Home
           /\ AsDNSLabelName(o.organization) \in Organizations
           /\ CapzErrors(o) = {SSHField}
<1>1. Zone(o) \in SupportedAZs[o.vmSize] \cup {""}
  BY DEF OnCreateValidate, validateFailureDomain, Zone
<1>2. CapzErrors(o) = {SSHField}
  BY OnlySSHKey DEF OnCreateValidate
<1>. QED
  BY <1>1, <1>2, Zenon DEF OnCreateValidate, validateLocation,
                           ValidateOrganizationLabelContainsExistingOrganization

(* A write, after which every other request ends in a conflict. *)
LEMMA WriteStep ==
    ASSUME IInv, NEW r \in Requests, Write(r)
    PROVE  IInv'
<1>. DEFINE q == reqs[r]
<1>1. q.step = "write" /\ IsRequest(q) /\ RequestOK(q)
  BY LiveRequest DEF Write
<1>2. IsMachine(q.new) /\ q.mutated \in BOOLEAN /\ q.checked \in BOOLEAN
  BY <1>1 DEF IsRequest
<1>3. /\ machine' = q.new
      /\ unchecked' = (~q.checked \/ (machine # Absent /\ unchecked))
      /\ birth' = IF unchecked' THEN Absent ELSE IF machine = Absent THEN q.new ELSE birth
      /\ unmutated' = ~q.mutated
      /\ UNCHANGED <<releases, moves, owner, azureOperator, cached, everIgnored>>
  BY DEF Write
<1>4. DOMAIN reqs' = Requests /\ \A s \in Requests : reqs'[s] = Idle
  BY DEF Write, Conflicts
<1>5. birth' = Absent \/ IsMachine(birth')
  BY <1>2, <1>3, StoredMachine, Zenon
<1>6. TypeOK'
  <2>1. unchecked' \in BOOLEAN /\ unmutated' \in BOOLEAN
    BY <1>3
  <2>2. CatalogTypeOK' /\ owner' \in Versions /\ azureOperator' \in Operators /\ cached' \subseteq Versions
        /\ everIgnored' \subseteq Versions
    BY <1>3 DEF IInv, TypeOK, CatalogTypeOK
  <2>3. \A o \in {machine', birth'} : o = Absent \/ IsMachine(o)
    BY <1>2, <1>3, <1>5, Zenon
  <2>. QED BY <1>4, <2>1, <2>2, <2>3 DEF TypeOK, InFlight
<1>7. IgnoredInv'
  BY <1>3 DEF IInv, IgnoredInv
<1>8. RequestInv'
  BY <1>4 DEF RequestInv, InFlight
<1>9. ASSUME ~unchecked'
      PROVE  /\ ~q.new.deleting
             /\ Zone(q.new) = Zone(birth')
             /\ Zone(birth') \in SupportedAZs[birth'.vmSize] \cup {""}
             /\ q.new.location = Home
             /\ q.new.organization = birth'.organization
             /\ AsDNSLabelName(q.new.organization) \in Organizations
             /\ CapzErrors(q.new) = {SSHField}
  <2>1. q.checked /\ (machine # Absent => ~unchecked)
    BY <1>3, <1>9, Zenon
  <2>2. CASE machine = Absent
    <3>1. birth' = q.new
      BY <1>3, <1>9, <2>2, Zenon
    <3>2. OnCreateValidate(q.new) /\ ~q.new.deleting
      BY <1>1, <2>1, <2>2, Zenon DEF RequestOK
    <3>. QED BY <3>1, <3>2, CreatedPlaced
  <2>3. CASE machine # Absent
    <3>1. birth' = birth
      BY <1>3, <1>9, <2>3, Zenon
    <3>2. ~q.new.deleting
      BY <1>1, <2>1, <2>3, Zenon DEF RequestOK, IInv, DeletionInv
    <3>3. MayFollow(machine, q.new)
      BY <1>1, <2>1, <2>3, <3>2, Zenon DEF RequestOK
    <3>4. /\ Zone(machine) = Zone(birth)
          /\ Zone(birth) \in SupportedAZs[birth.vmSize] \cup {""}
          /\ machine.location = Home
          /\ machine.organization = birth.organization
          /\ AsDNSLabelName(machine.organization) \in Organizations
      BY <2>1, <2>3, Zenon DEF IInv, PlacedForLife
    <3>. QED BY <3>1, <3>2, <3>3, <3>4, Zenon DEF MayFollow
  <2>. QED BY <2>2, <2>3
<1>10. DeletionInv'
  BY <1>3, <1>9 DEF DeletionInv
<1>11. PlacedForLife'
  <2>1. q.mutated => q.new.caching # ""
    BY <1>1, Zenon DEF RequestOK
  <2>. QED BY <1>3, <1>9, <2>1 DEF PlacedForLife
<1>. QED BY <1>6, <1>7, <1>8, <1>10, <1>11 DEF IInv

(* The deletion, at its beginning and at its end. *)
LEMMA DeleteStep ==
    ASSUME IInv, Delete
    PROVE  IInv'
<1>1. /\ machine' = Absent \/ IsMachine(machine')
      /\ machine' = Absent \/ unchecked'
      /\ unchecked' \in BOOLEAN
  <2>1. IsMachine(machine)
    BY StoredMachine DEF Delete
  <2>2. IsMachine([machine EXCEPT !.deleting = TRUE])
    BY <2>1 DEF IsMachine
  <2>. QED BY <2>2, Zenon DEF Delete
<1>2. /\ birth' = Absent /\ unmutated' = FALSE
      /\ UNCHANGED <<releases, moves, owner, azureOperator, cached, everIgnored>>
  BY DEF Delete
<1>3. DOMAIN reqs' = Requests /\ \A s \in Requests : reqs'[s] = Idle
  BY DEF Delete, Conflicts
<1>4. TypeOK'
  <2>1. CatalogTypeOK' /\ owner' \in Versions /\ azureOperator' \in Operators /\ cached' \subseteq Versions
        /\ everIgnored' \subseteq Versions
    BY <1>2 DEF IInv, TypeOK, CatalogTypeOK
  <2>2. \A o \in {machine', birth'} : o = Absent \/ IsMachine(o)
    BY <1>1, <1>2, Zenon
  <2>. QED BY <1>1, <1>2, <1>3, <2>1, <2>2 DEF TypeOK, InFlight
<1>5. IgnoredInv' /\ DeletionInv' /\ PlacedForLife'
  BY <1>1, <1>2 DEF IInv, IgnoredInv, DeletionInv, PlacedForLife
<1>6. RequestInv'
  BY <1>3 DEF RequestInv, InFlight
<1>. QED BY <1>4, <1>5, <1>6 DEF IInv

-----------------------------------------------------------------------------
(* IInv is an inductive invariant: the requests, the deletion, the upgrades of
   the cluster and the edits of Release CRs keep it, in any order.         *)
THEOREM InductiveInvariant == Spec => []IInv
<1>1. Init => IInv
  <2>. SUFFICES ASSUME Init PROVE IInv
    OBVIOUS
  <2>1. CatalogTypeOK
    BY CatalogAssumption DEF Init, CatalogInit, CatalogTypeOK, Listing
  <2>2. TypeOK
    <3>1. owner \in Versions /\ azureOperator \in Operators
      BY CatalogAssumption, AzureMachineAssumption DEF Init
    <3>. QED BY <2>1, <3>1, CatalogAssumption DEF Init, TypeOK, InFlight
  <2>3. IgnoredInv /\ DeletionInv /\ PlacedForLife /\ RequestInv
    BY DEF Init, CatalogInit, IgnoredInv, DeletionInv, PlacedForLife, RequestInv, InFlight
  <2>. QED BY <2>2, <2>3 DEF IInv
<1>2. IInv /\ [Next]_vars => IInv'
  <2>. SUFFICES ASSUME IInv, [Next]_vars PROVE IInv'
    OBVIOUS
  <2>0. /\ CatalogTypeOK /\ owner \in Versions
        /\ azureOperator \in Operators /\ cached \subseteq Versions
        /\ everIgnored \subseteq Versions /\ releases.ignored \subseteq everIgnored
    BY DEF IInv, TypeOK, IgnoredInv
  <2>1. ASSUME NEW r \in Requests, NEW o \in NewMachines \cup Edits, Submit(r, o) PROVE IInv'
    BY <2>1, SubmitStep
  <2>2. ASSUME NEW r \in Requests, Mutate(r) PROVE IInv'
    BY <2>2, MutateStep
  <2>3. ASSUME NEW r \in Requests, ValidateRequest(r) PROVE IInv'
    BY <2>3, ValidateStep
  <2>4. ASSUME NEW r \in Requests, Write(r) PROVE IInv'
    BY <2>4, WriteStep
  <2>5. ASSUME NEW r \in Requests, Refuse(r) PROVE IInv'
    BY <2>5, RequestStep DEF Refuse
  <2>6. ASSUME NEW v \in Versions, UpgradeOwner(v) PROVE IInv'
    <3>1. CatalogTypeOK'
      BY <2>0, <2>6, CatalogAssumption DEF UpgradeOwner, CatalogTypeOK, CountMove
    <3>. QED BY <2>0, <2>6, <3>1, SurroundingsStep DEF UpgradeOwner, historyVars
  <2>7. ASSUME NEW a \in Operators, UpdateAzureCluster(a) PROVE IInv'
    <3>1. CatalogTypeOK'
      BY <2>0, <2>7, CatalogAssumption DEF UpdateAzureCluster, CatalogTypeOK, CountMove
    <3>. QED BY <2>0, <2>7, <3>1, SurroundingsStep DEF UpdateAzureCluster, historyVars
  <2>8. CASE Delete
    BY <2>8, DeleteStep
  <2>9. CASE EditReleases
    <3>1. CatalogTypeOK'
      BY <2>0, <2>9, CatalogStep DEF EditReleases
    <3>2. releases'.ignored \subseteq Versions
      BY <3>1 DEF CatalogTypeOK, Listing
    <3>. QED BY <2>0, <2>9, <3>1, <3>2, SurroundingsStep DEF EditReleases
  <2>10. CASE SyncCache
    <3>1. cached' \subseteq Versions
      BY <2>0, <2>10 DEF SyncCache, CatalogTypeOK, Listing
    <3>. QED BY <2>0, <2>10, <3>1, SurroundingsStep DEF SyncCache, historyVars, CatalogTypeOK
  <2>11. CASE UNCHANGED vars
    BY <2>0, <2>11, SurroundingsStep DEF vars, CatalogTypeOK
  <2>. QED BY <2>1, <2>2, <2>3, <2>4, <2>5, <2>6, <2>7, <2>8, <2>9, <2>10, <2>11 DEF Next
<1>. QED BY <1>1, <1>2, PTL DEF Spec

(* The stored machine and every request are well formed. *)
THEOREM TypeCorrect == Spec => []TypeOK
<1>1. IInv => TypeOK
  BY DEF IInv
<1>. QED BY <1>1, InductiveInvariant, PTL

(* A machine whose writes were all validated stays in the location, the zone
   and the organization its creation was checked for.                      *)
THEOREM PlacementCorrect == Spec => []PlacedForLife
<1>1. IInv => PlacedForLife
  BY DEF IInv
<1>. QED BY <1>1, InductiveInvariant, PTL

(* A machine that is validated goes back only over a release that was ever
   ignored, and neither gains nor loses its release label.                 *)
THEOREM LabelCorrect == Spec => ReleaseLabelForLife
<1>. DEFINE P == (/\ machine # Absent /\ machine' # Absent
                  /\ ~unchecked /\ ~unchecked')
                 => \/ machine' = machine
                    \/ /\ NoRelease \notin {machine.release, machine'.release}
                       /\ \/ ~LT(machine'.release, machine.release)
                          \/ {machine.release, machine'.release} \cap everIgnored # {}
<1>1. IInv /\ [Next]_vars => [P]_vars
  <2>. SUFFICES ASSUME IInv, Next, machine # Absent, machine' # Absent,
                       ~unchecked, ~unchecked', machine' # machine
                PROVE  /\ NoRelease \notin {machine.release, machine'.release}
                       /\ Forward(machine.release, machine'.release)
    BY Zenon DEF Forward
  <2>1. ~Delete
    BY Zenon DEF Delete
  <2>2. PICK r \in Requests : Write(r)
    BY <2>1 DEF Next, Submit, Mutate, ValidateRequest, Refuse, RequestMoves,
                UpgradeOwner, UpdateAzureCluster, EditReleases, SyncCache
  <2>3. RequestOK(reqs[r]) /\ machine' = reqs[r].new /\ reqs[r].checked
    <3>1. reqs[r].step \in {"mutate", "validate", "write"}
      BY <2>2 DEF Write
    <3>2. RequestOK(reqs[r])
      BY <3>1, LiveRequest
    <3>. QED BY <2>2, <3>2, Zenon DEF Write
  <2>4. ~reqs[r].new.deleting
    BY <2>3, Zenon DEF RequestOK, IInv, DeletionInv
  <2>5. MayFollow(machine, machine')
    BY <2>3, <2>4, Zenon DEF RequestOK
  <2>. QED BY <2>5, Zenon DEF MayFollow
<1>. QED BY <1>1, InductiveInvariant, PTL DEF Spec, ReleaseLabelForLife

(* The Organization that is looked up for a label the API server has let
   through has a name that can exist, with the letters of the label.       *)
THEOREM NamesCorrect == Spec => []NamesAreLabels
<1>1. IInv => NamesAreLabels
  <2>. SUFFICES ASSUME IInv, NEW r \in Requests, InFlight(r),
                       reqs[r].new.organization \notin {NoLabel, <<>>}
                PROVE  NamedWell(reqs[r].new.organization)
    BY DEF NamesAreLabels
  <2>1. IsMachine(reqs[r].new)
    BY DEF IInv, TypeOK, IsRequest
  <2>2. IsLabelValue(reqs[r].new.organization)
    BY <2>1 DEF IsMachine
  <2>. QED BY <2>2, LabelsNamedWell
<1>. QED BY <1>1, InductiveInvariant, PTL
=============================================================================
