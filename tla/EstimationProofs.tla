-------------------------- MODULE EstimationProofs --------------------------
(***************************************************************************)
(* Theorems about the two halves of an estimate.                           *)
(*                                                                         *)
(* Timing: a window is what LastN says of the whole history, because       *)
(* taking the last n of a sequence can be done one point at a time         *)
(* (LastNStep).  That a model's regression is never given up follows: a    *)
(* window is short only while the history is.  That a steady model gets    *)
(* its reports back is a fact about sums: the normal equations of a window *)
(* on a line come to that line (PredictsTheLine).                          *)
(*                                                                         *)
(* Signals: the row that is stored for a call is a function of the call    *)
(* and of a prediction that is well formed (PalaceInv), so each property   *)
(* of the row is a fact about whole numbers and their quotients.           *)
(***************************************************************************)
EXTENDS Timing, Signals, DataTheorems

\* The last n of a sequence, one by one.
LEMMA LastNType ==
    ASSUME NEW S, NEW s \in Seq(S), NEW n \in Nat
    PROVE  /\ LastN(s, n) \in Seq(S)
           /\ Len(LastN(s, n)) = IF Len(s) > n THEN n ELSE Len(s)
           /\ \A i \in 1..Len(LastN(s, n)) :
                 LastN(s, n)[i] = s[Len(s) - Len(LastN(s, n)) + i]
  <1>1. CASE Len(s) > n
    <2> DEFINE m == Len(s) - n + 1
    <2>1. m \in 1..(Len(s) + 1) /\ m \in Nat /\ Len(s) - m + 1 = n
      BY <1>1
    <2>2. LastN(s, n) = SubSeq(s, m, Len(s))
      BY <1>1 DEF LastN
    <2>3. /\ SubSeq(s, m, Len(s)) \in Seq(S)
          /\ Len(SubSeq(s, m, Len(s))) = n
          /\ \A i \in 1..n : SubSeq(s, m, Len(s))[i] = s[m + i - 1]
      BY <2>1, SubSeqProperties
    <2> QED
      BY <1>1, <2>1, <2>2, <2>3
  <1>2. CASE ~(Len(s) > n)
    BY <1>2 DEF LastN
  <1> QED
    BY <1>1, <1>2

\* Cutting after every point keeps what cutting once would.
LEMMA LastNStep ==
    ASSUME NEW S, NEW s \in Seq(S), NEW p \in S, NEW n \in Nat \ {0}
    PROVE  LastN(Append(LastN(s, n), p), n) = LastN(Append(s, p), n)
  <1> DEFINE w == LastN(s, n)
             x == Append(w, p)
             y == Append(s, p)
             a == LastN(x, n)
             b == LastN(y, n)
  <1>1. /\ w \in Seq(S)
        /\ Len(w) = IF Len(s) > n THEN n ELSE Len(s)
        /\ \A i \in 1..Len(w) : w[i] = s[Len(s) - Len(w) + i]
    BY LastNType
  <1> HIDE DEF w
  <1>2. /\ x \in Seq(S) /\ Len(x) = Len(w) + 1
        /\ x[Len(w) + 1] = p /\ \A i \in 1..Len(w) : x[i] = w[i]
    BY <1>1
  <1>3. /\ y \in Seq(S) /\ Len(y) = Len(s) + 1
        /\ y[Len(s) + 1] = p /\ \A i \in 1..Len(s) : y[i] = s[i]
    OBVIOUS
  <1> HIDE DEF x, y
  <1>4. /\ a \in Seq(S)
        /\ Len(a) = IF Len(x) > n THEN n ELSE Len(x)
        /\ \A i \in 1..Len(a) : a[i] = x[Len(x) - Len(a) + i]
    BY <1>2, LastNType
  <1>5. /\ b \in Seq(S)
        /\ Len(b) = IF Len(y) > n THEN n ELSE Len(y)
        /\ \A i \in 1..Len(b) : b[i] = y[Len(y) - Len(b) + i]
    BY <1>3, LastNType
  <1> HIDE DEF a, b
  <1>6. /\ Len(s) \in Nat /\ Len(w) \in Nat /\ Len(a) \in Nat
        /\ Len(a) = Len(b) /\ Len(w) <= Len(s)
        /\ 1 <= Len(a) /\ Len(a) <= Len(w) + 1
        /\ \A i \in 1..Len(a) : a[i] = x[Len(w) + 1 - Len(a) + i]
        /\ \A i \in 1..Len(a) : b[i] = y[Len(s) + 1 - Len(a) + i]
    <2>1. Len(s) \in Nat /\ Len(w) \in Nat /\ Len(a) \in Nat /\ Len(b) \in Nat
      BY <1>1, <1>4, <1>5
    <2>2. Len(w) = IF Len(s) > n THEN n ELSE Len(s)
      BY <1>1
    <2>3. Len(a) = IF Len(w) + 1 > n THEN n ELSE Len(w) + 1
      BY <1>2, <1>4
    <2>4. Len(b) = IF Len(s) + 1 > n THEN n ELSE Len(s) + 1
      BY <1>3, <1>5
    <2>5. Len(a) = Len(b) /\ Len(w) <= Len(s) /\ 1 <= Len(a) /\ Len(a) <= Len(w) + 1
      BY <2>1, <2>2, <2>3, <2>4
    <2>6. Len(x) = Len(w) + 1 /\ \A i \in 1..Len(a) : a[i] = x[Len(x) - Len(a) + i]
      BY <1>2, <1>4
    <2>7. \A i \in 1..Len(a) : a[i] = x[Len(w) + 1 - Len(a) + i]
      BY <2>6
    <2>8. Len(y) = Len(s) + 1 /\ \A i \in 1..Len(b) : b[i] = y[Len(y) - Len(b) + i]
      BY <1>3, <1>5
    <2>9. \A i \in 1..Len(a) : b[i] = y[Len(s) + 1 - Len(a) + i]
      BY <2>5, <2>8
    <2> QED
      BY <2>1, <2>5, <2>7, <2>9
  <1>7. ASSUME NEW i \in 1..Len(a) PROVE a[i] = b[i]
    <2>1. CASE i = Len(a)
      <3>1. Len(w) + 1 - Len(a) + i = Len(w) + 1 /\ Len(s) + 1 - Len(a) + i = Len(s) + 1
        BY <1>6, <2>1
      <3> QED
        BY <1>2, <1>3, <1>6, <3>1
    <2>2. CASE i < Len(a)
      <3> DEFINE k == Len(w) + 1 - Len(a) + i
                 l == Len(s) + 1 - Len(a) + i
      <3>1. k \in 1..Len(w) /\ l \in 1..Len(s) /\ Len(s) - Len(w) + k = l
        BY <1>6, <2>2
      <3>2. a[i] = x[k] /\ b[i] = y[l]
        BY <1>6
      <3> HIDE DEF k, l
      <3>3. x[k] = w[k] /\ w[k] = s[l] /\ y[l] = s[l]
        BY <1>1, <1>2, <1>3, <3>1
      <3> QED
        BY <3>2, <3>3
    <2> QED
      BY <1>6, <2>1, <2>2
  <1>8. a = b
    BY <1>4, <1>5, <1>6, <1>7, SeqEqual
  <1> QED
    BY <1>8 DEF a, b, x, y, w
-----------------------------------------------------------------------------
WindowInv ==
    /\ windows \in [Models -> Seq(Points)]
    /\ profiled \in [Models -> Seq(Points)]
    /\ WindowIsRecent

\* A report that counts is a point, and it joins window and history alike.
LEMMA EstimateWindow ==
    ASSUME WindowInv, NEW m \in Models, NEW r \in Reports, EstimateAndUpdate(m, r)
    PROVE  WindowInv'
  <1> DEFINE p == [tokens |-> r.output, latency |-> r.latency]
  <1>1. /\ r.output \in Nat /\ r.latency \in Nat /\ p \in Points
        /\ MaxWindow \in Nat \ {0}
    BY TimingAssumption DEF Points
  <1>2. windows' = [windows EXCEPT ![m] = Updated(m, r)]
    BY DEF EstimateAndUpdate
  <1>3. CASE r.output > 0 /\ r.latency > 0
    <2>1. profiled' = [profiled EXCEPT ![m] = Append(@, p)]
      BY <1>3 DEF EstimateAndUpdate
    <2>2. Updated(m, r) = LastN(Append(windows[m], p), MaxWindow)
      BY <1>3 DEF Updated
    <2>3. windows[m] \in Seq(Points) /\ profiled[m] \in Seq(Points)
      BY DEF WindowInv
    <2>4. Append(windows[m], p) \in Seq(Points) /\ Append(profiled[m], p) \in Seq(Points)
      BY <1>1, <2>3
    <2>5. Updated(m, r) \in Seq(Points)
      BY <1>1, <2>2, <2>4, LastNType
    <2>6. windows[m] = LastN(profiled[m], MaxWindow)
      BY DEF WindowInv, WindowIsRecent
    <2>7. Updated(m, r) = LastN(Append(profiled[m], p), MaxWindow)
      BY <1>1, <2>2, <2>3, <2>6, LastNStep
    <2>8. windows' \in [Models -> Seq(Points)] /\ profiled' \in [Models -> Seq(Points)]
      BY <1>2, <2>1, <2>4, <2>5 DEF WindowInv
    <2>9. WindowIsRecent'
      BY <1>2, <2>1, <2>7 DEF WindowInv, WindowIsRecent
    <2> QED
      BY <2>8, <2>9 DEF WindowInv
  <1>4. CASE ~(r.output > 0 /\ r.latency > 0)
    <2>1. profiled' = profiled /\ Updated(m, r) = windows[m]
      BY <1>4 DEF EstimateAndUpdate, Updated
    <2>2. windows' = windows
      BY <1>2, <2>1 DEF WindowInv
    <2> QED
      BY <2>1, <2>2 DEF WindowInv, WindowIsRecent
  <1> QED
    BY <1>3, <1>4

\* Nothing is the window of nothing.
LEMMA EmptyWindow == LastN(<<>>, MaxWindow) = <<>>
  BY TimingAssumption DEF LastN

\* The window held for a model is what LastN says of its whole history.
LEMMA Windows == Spec => []WindowInv
  <1>1. Init => WindowInv
    BY EmptyWindow DEF Init, WindowInv, WindowIsRecent
  <1>2. WindowInv /\ [Next]_vars => WindowInv'
    <2> SUFFICES ASSUME WindowInv, [Next]_vars
                 PROVE  WindowInv'
      OBVIOUS
    <2>1. ASSUME NEW m \in Models, NEW r \in Reports, EstimateAndUpdate(m, r)
          PROVE  WindowInv'
      BY <2>1, EstimateWindow
    <2>2. ASSUME NEW m \in Models, NEW r \in Reports, RegressionRaises(m, r)
          PROVE  WindowInv'
      BY <2>2 DEF RegressionRaises, WindowInv, WindowIsRecent
    <2>3. CASE Restart
      BY <2>3, EmptyWindow DEF Restart, WindowInv, WindowIsRecent
    <2>4. CASE UNCHANGED vars
      BY <2>4 DEF vars, WindowInv, WindowIsRecent
    <2> QED
      BY <2>1, <2>2, <2>3, <2>4 DEF Next
  <1> QED
    BY <1>1, <1>2, PTL DEF Spec

\* A model's window is its latest MaxWindow reports, no other model's, in the
\* order they came: what profile_update evicts is the oldest point.
THEOREM KeepsTheLatest == Spec => []WindowIsRecent
  <1>1. WindowInv => WindowIsRecent
    BY DEF WindowInv
  <1> QED
    BY <1>1, Windows, PTL
-----------------------------------------------------------------------------
\* What the estimate chooses, said of the history: the window has MinPoints
\* points exactly when the model has had as many.
LEMMA EnoughPoints ==
    ASSUME WindowInv, NEW m \in Models
    PROVE  Len(windows[m]) >= MinPoints <=> Len(profiled[m]) >= MinPoints
  <1>1. profiled[m] \in Seq(Points) /\ windows[m] = LastN(profiled[m], MaxWindow)
    BY DEF WindowInv, WindowIsRecent
  <1>2. Len(windows[m]) = IF Len(profiled[m]) > MaxWindow THEN MaxWindow ELSE Len(profiled[m])
    BY <1>1, TimingAssumption, LastNType
  <1> QED
    BY <1>1, <1>2, TimingAssumption

\* Whoever has been learned about is estimated by a regression.
LEMMA EstimateFits ==
    ASSUME WindowInv, NEW m \in Models, NEW r \in Reports, EstimateAndUpdate(m, r)
    PROVE  FittedOnceLearned'
  <1>1. /\ answer'.model = m /\ answer'.report = r /\ answer'.basis = Basis(m, r)
    BY DEF EstimateAndUpdate
  <1>2. /\ r.output \in Nat /\ r.latency \in Nat /\ profiled[m] \in Seq(Points)
        /\ [tokens |-> r.output, latency |-> r.latency] \in Points
    BY TimingAssumption DEF WindowInv, Points
  <1> SUFFICES ASSUME r.latency > 0
               PROVE  Basis(m, r) = "regression"
                         <=> Len(profiled'[m]) - (IF r.output > 0 THEN 1 ELSE 0) >= MinPoints
    BY <1>1 DEF FittedOnceLearned
  <1>3. Basis(m, r) = "regression" <=> Len(windows[m]) >= MinPoints
    BY <1>2 DEF Basis
  <1> DEFINE added == IF r.output > 0 THEN 1 ELSE 0
  <1>4. CASE r.output > 0
    <2>1. profiled'[m] = Append(profiled[m], [tokens |-> r.output, latency |-> r.latency])
      BY <1>4 DEF EstimateAndUpdate, WindowInv
    <2>2. Len(profiled'[m]) = Len(profiled[m]) + 1
      BY <1>2, <2>1
    <2>3. Len(profiled[m]) \in Nat
      BY <1>2
    <2>4. added = 1
      BY <1>4
    <2> HIDE DEF added
    <2>5. Len(profiled'[m]) - added = Len(profiled[m])
      BY <2>2, <2>3, <2>4
    <2>6. Basis(m, r) = "regression" <=> Len(profiled'[m]) - added >= MinPoints
      BY <1>3, <2>5, EnoughPoints
    <2> QED
      BY <2>6 DEF added
  <1>5. CASE r.output = 0
    <2>1. profiled' = profiled
      BY <1>5 DEF EstimateAndUpdate
    <2> QED
      BY <1>2, <1>3, <1>5, <2>1, EnoughPoints
  <1>6. r.output > 0 \/ r.output = 0
    BY <1>2
  <1> QED
    BY <1>4, <1>5, <1>6

\* The regression answers from the MinPoints-th report of a model on, and never
\* steps back to the table of rates within one life of the process, whatever
\* is evicted and whatever other models report.
THEOREM NeverUnlearned == Spec => []FittedOnceLearned
  <1>1. Init => FittedOnceLearned
    BY DEF Init, FittedOnceLearned
  <1>2. WindowInv /\ FittedOnceLearned /\ [Next]_vars => FittedOnceLearned'
    <2> SUFFICES ASSUME WindowInv, FittedOnceLearned, [Next]_vars
                 PROVE  FittedOnceLearned'
      OBVIOUS
    <2>1. ASSUME NEW m \in Models, NEW r \in Reports, EstimateAndUpdate(m, r)
          PROVE  FittedOnceLearned'
      BY <2>1, EstimateFits
    <2>2. ASSUME NEW m \in Models, NEW r \in Reports, RegressionRaises(m, r)
          PROVE  FittedOnceLearned'
      BY <2>2 DEF RegressionRaises, FittedOnceLearned
    <2>3. CASE Restart
      BY <2>3 DEF Restart, FittedOnceLearned
    <2>4. CASE UNCHANGED vars
      BY <2>4 DEF vars, FittedOnceLearned
    <2> QED
      BY <2>1, <2>2, <2>3, <2>4 DEF Next
  <1> QED
    BY <1>1, <1>2, Windows, PTL DEF Spec
-----------------------------------------------------------------------------
\* The whole part of a quotient that has none but a whole part may be one less,
\* as floats go.
LEMMA TruncatesMultiple ==
    ASSUME NEW o \in Int, NEW b \in Nat \ {0}
    PROVE  Truncated(o * b, b) \subseteq {o, o - 1}
  <1> DEFINE a == o * b
             q == a \div b
  <1>1. a \in Int /\ a = b * o /\ a < b * (o + 1)
    OBVIOUS
  <1> HIDE DEF a
  <1>2. q \in Int /\ q >= o /\ ~(q >= o + 1)
    BY <1>1, DivBounds, DivAtLeast
  <1>3. q = o
    BY <1>2
  <1> QED
    BY <1>3 DEF Truncated, a

\* A window on a line through the origin predicts by that line.
LEMMA PredictsTheLine ==
    ASSUME NEW w \in Seq(Points), Fits(w), NEW o \in Nat, NEW l \in Nat \ {0},
           \A i \in DOMAIN w : w[i].tokens * l = o * w[i].latency
    PROVE  Predicted(w, l) \subseteq {o, o - 1}
  <1> DEFINE I == 1..Len(w)
             x == Latencies(w)
             y == Tokens(w)
             xx == Times(x, x)
             xy == Times(x, y)
             n == Len(w)
             sx == SumFunction(x)
             sy == SumFunction(y)
             sxx == SumFunction(xx)
             sxy == SumFunction(xy)
             d == Spread(w)
  <1>1. /\ DOMAIN w = I /\ DOMAIN x = I /\ DOMAIN y = I /\ DOMAIN xx = I /\ DOMAIN xy = I
        /\ IsFiniteSet(I) /\ n \in Nat
    BY FS_Interval DEF Latencies, Tokens, Times
  <1>2. ASSUME NEW i \in I
        PROVE  /\ x[i] \in Nat /\ y[i] \in Nat /\ xx[i] = x[i] * x[i] /\ xy[i] = x[i] * y[i]
               /\ l * y[i] = o * x[i]
    <2>1. w[i] \in Points /\ x[i] = w[i].latency /\ y[i] = w[i].tokens
      BY <1>1 DEF Latencies, Tokens
    <2>2. x[i] \in Nat /\ y[i] \in Nat
      BY <2>1 DEF Points
    <2>3. y[i] * l = o * x[i]
      BY <1>1, <2>1
    <2>4. xx[i] = x[i] * x[i] /\ xy[i] = x[i] * y[i]
      BY <1>1 DEF Times
    <2> QED
      BY <2>2, <2>3, <2>4
  <1> HIDE DEF x, y, xx, xy, I
  <1>3. /\ sx = SumFunctionOnSet(x, I) /\ sy = SumFunctionOnSet(y, I)
        /\ sxx = SumFunctionOnSet(xx, I) /\ sxy = SumFunctionOnSet(xy, I)
    BY <1>1 DEF SumFunction
  <1>4. \A i \in I : /\ x[i] \in Int /\ y[i] \in Int /\ xx[i] \in Int /\ xy[i] \in Int
                     /\ l * y[i] = o * x[i]
    BY <1>2
  <1>5. \A i \in I : l * xy[i] = o * xx[i]
    <2> SUFFICES ASSUME NEW i \in I PROVE l * xy[i] = o * xx[i]
      OBVIOUS
    <2>1. l * (x[i] * y[i]) = x[i] * (l * y[i])
      BY <1>4
    <2>2. o * (x[i] * x[i]) = x[i] * (o * x[i])
      BY <1>4
    <2> QED
      BY <1>2, <2>1, <2>2
  <1>6. sx \in Int /\ sy \in Int /\ sxx \in Int /\ sxy \in Int
    BY <1>1, <1>3, <1>4, SumIsInt
  <1>7. l * sy = o * sx
    <2> HIDE DEF sx, sy
    <2>1. l \in Int /\ o \in Int
      OBVIOUS
    <2>2. \A i \in I : y[i] \in Int /\ x[i] \in Int
      BY <1>4
    <2>3. \A i \in I : l * y[i] = o * x[i]
      BY <1>4
    <2>4. l * SumFunctionOnSet(y, I) = o * SumFunctionOnSet(x, I)
      BY <1>1, <2>1, <2>2, <2>3, SumIsLinear
    <2> QED
      BY <1>3, <2>4
  <1>8. l * sxy = o * sxx
    <2> HIDE DEF sxx, sxy
    <2>1. l \in Int /\ o \in Int
      OBVIOUS
    <2>2. \A i \in I : xy[i] \in Int /\ xx[i] \in Int
      BY <1>4
    <2>3. l * SumFunctionOnSet(xy, I) = o * SumFunctionOnSet(xx, I)
      BY <1>1, <1>5, <2>1, <2>2, SumIsLinear
    <2> QED
      BY <1>3, <2>3
  <1>9. d = n * sxx - sx * sx
    BY DEF Spread, x, xx
  <1>10. Predicted(w, l) = Truncated(sy * d + (n * sxy - sx * sy) * (n * l - sx), n * d)
    BY DEF Predicted, x, y, xy
  <1>11. d > 0
    BY DEF Fits
  <1> HIDE DEF n, sx, sy, sxx, sxy, d
  <1>12. d \in Int
    BY <1>1, <1>6, <1>9
  <1>13. sy * d + (n * sxy - sx * sy) * (n * l - sx) = o * (n * d)
    <2>0. /\ n \in Int /\ l \in Int /\ l # 0 /\ o \in Int
          /\ sx \in Int /\ sy \in Int /\ sxx \in Int /\ sxy \in Int /\ d \in Int
      BY <1>1, <1>6, <1>12
    <2> DEFINE a == sy * d + (n * sxy - sx * sy) * (n * l - sx)
               b == o * (n * d)
               c == n * sxy - sx * sy
               e == n * l - sx
    <2>1. l * c = o * d
      <3>1. l * c = n * (l * sxy) - sx * (l * sy)
        BY <2>0
      <3>2. o * d = n * (o * sxx) - sx * (o * sx)
        BY <1>9, <2>0
      <3> QED
        BY <1>7, <1>8, <3>1, <3>2
    <2>2. c \in Int /\ e \in Int
      BY <2>0
    <2>3. l * a = (l * sy) * d + (l * c) * e
      BY <2>0, <2>2
    <2> HIDE DEF c
    <2>4. l * a = (o * sx) * d + (o * d) * e
      BY <1>7, <2>1, <2>3
    <2>5. (o * sx) * d + (o * d) * e = l * b
      BY <2>0
    <2>6. a \in Int /\ b \in Int /\ l * a = l * b
      BY <2>0, <2>2, <2>4, <2>5
    <2> HIDE DEF a, b
    <2>7. a = b
      <3>1. l * (a - b) = 0
        BY <2>0, <2>6
      <3>2. \A i, j \in Int : i * j = 0 => i = 0 \/ j = 0
        OBVIOUS
      <3>3. a - b = 0
        BY <2>0, <2>6, <3>1, <3>2
      <3> QED
        BY <2>6, <3>3
    <2> QED
      BY <2>7 DEF a, b, c
  <1>14. n # 0
    <2> SUFFICES ASSUME n = 0 PROVE FALSE
      OBVIOUS
    <2>1. d = 0 - sx * sx
      BY <1>6, <1>9
    <2>2. sx * sx >= 0
      BY <1>6
    <2> QED
      BY <1>6, <1>11, <2>1, <2>2
  <1>15. n * d \in Nat \ {0}
    BY <1>1, <1>11, <1>12, <1>14
  <1>16. Predicted(w, l) = Truncated(o * (n * d), n * d)
    BY <1>10, <1>13
  <1> QED
    BY <1>15, <1>16, TruncatesMultiple

\* What is left for reasoning of a prediction that is at most one token short.
LEMMA ReasoningOfTotal ==
    ASSUME NEW r \in Reports, NEW t \in {r.output, r.output - 1}
    PROVE  Reasoning(t, r) \in (r.reasoning - 1)..r.reasoning
  <1>1. r.output \in Nat /\ r.reasoning \in Nat
    BY TimingAssumption
  <1>2. \A i \in Int : Max({0, i}) = IF i < 0 THEN 0 ELSE i
    BY DEF Max
  <1> QED
    BY <1>1, <1>2 DEF Reasoning

\* The window an estimate was fitted to is among the points that are still
\* in the history afterwards.
LEMMA WindowAmongSeen ==
    ASSUME NEW s \in Seq(Points), NEW h \in Seq(Points), NEW p \in Points,
           h = s \/ h = Append(s, p), NEW n \in Nat \ {0}
    PROVE  \A i \in DOMAIN LastN(s, n) :
              \E j \in DOMAIN LastN(h, n + 1) : LastN(h, n + 1)[j] = LastN(s, n)[i]
  <1> DEFINE a == LastN(s, n)
             b == LastN(h, n + 1)
  <1>1. /\ a \in Seq(Points) /\ Len(a) = IF Len(s) > n THEN n ELSE Len(s)
        /\ \A i \in 1..Len(a) : a[i] = s[Len(s) - Len(a) + i]
    BY LastNType
  <1>2. /\ b \in Seq(Points) /\ Len(b) = IF Len(h) > n + 1 THEN n + 1 ELSE Len(h)
        /\ \A i \in 1..Len(b) : b[i] = h[Len(h) - Len(b) + i]
    BY LastNType
  <1> HIDE DEF a, b
  <1>3. /\ Len(s) \in Nat /\ Len(h) \in Nat /\ Len(h) >= Len(s) /\ Len(h) <= Len(s) + 1
        /\ \A i \in 1..Len(s) : h[i] = s[i]
    OBVIOUS
  <1> SUFFICES ASSUME NEW i \in 1..Len(a) PROVE \E j \in 1..Len(b) : b[j] = a[i]
    BY <1>1, <1>2 DEF a, b
  <1> DEFINE j == Len(s) - Len(a) + i - (Len(h) - Len(b))
  <1>4. Len(a) \in Nat /\ Len(b) \in Nat
    BY <1>1, <1>2
  <1>5. j \in 1..Len(b) /\ Len(h) - Len(b) + j = Len(s) - Len(a) + i
    <2>1. i \in Int /\ 1 <= i /\ i <= Len(a) /\ n \in Int /\ n >= 1
      BY <1>4
    <2>2. CASE Len(h) = Len(s)
      <3>1. Len(h) - Len(b) <= Len(s) - Len(a)
        BY <1>1, <1>2, <1>3, <1>4, <2>2
      <3>2. Len(b) - Len(h) + Len(s) >= 1
        BY <1>1, <1>2, <1>3, <1>4, <2>2
      <3> QED
        BY <1>3, <1>4, <2>1, <2>2, <3>1
    <2>3. CASE Len(h) = Len(s) + 1
      <3>1. Len(h) - Len(b) = Len(s) - Len(a)
        <4>1. CASE Len(s) > n
          <5>1. Len(a) = n /\ Len(b) = n + 1
            BY <1>1, <1>2, <1>3, <2>1, <2>3, <4>1
          <5> QED
            BY <1>3, <2>1, <2>3, <5>1
        <4>2. CASE ~(Len(s) > n)
          <5>1. Len(a) = Len(s) /\ Len(b) = Len(h)
            BY <1>1, <1>2, <1>3, <2>1, <2>3, <4>2
          <5> QED
            BY <1>3, <5>1
        <4> QED
          BY <4>1, <4>2
      <3> QED
        BY <1>3, <1>4, <2>1, <2>3, <3>1
    <2> QED
      BY <1>3, <2>2, <2>3
  <1>6. Len(s) - Len(a) + i \in 1..Len(s)
    BY <1>1, <1>3, <1>4
  <1> HIDE DEF j
  <1>7. b[j] = h[Len(s) - Len(a) + i] /\ a[i] = s[Len(s) - Len(a) + i]
    BY <1>1, <1>2, <1>5
  <1> QED
    BY <1>3, <1>5, <1>6, <1>7

\* The estimate that a steady model gets is its report, or one less.
LEMMA EstimateIsSteady ==
    ASSUME WindowInv, NEW m \in Models, NEW r \in Reports, EstimateAndUpdate(m, r)
    PROVE  SteadyIsReproduced'
  <1>1. /\ answer'.model = m /\ answer'.report = r /\ answer'.basis = Basis(m, r)
        /\ answer'.tokens \in Estimates(m, r)
    BY DEF EstimateAndUpdate
  <1> DEFINE seen == LastN(profiled'[m], MaxWindow + 1)
             p == [tokens |-> r.output, latency |-> r.latency]
  <1> SUFFICES ASSUME Basis(m, r) = "regression",
                      \A i \in DOMAIN seen :
                         seen[i].tokens * r.latency = r.output * seen[i].latency
               PROVE  answer'.tokens \in (r.reasoning - 1)..r.reasoning
    BY <1>1 DEF SteadyIsReproduced
  <1>2. /\ r.output \in Nat /\ r.latency \in Nat /\ p \in Points
        /\ MaxWindow \in Nat \ {0}
        /\ profiled[m] \in Seq(Points) /\ windows[m] \in Seq(Points)
        /\ windows[m] = LastN(profiled[m], MaxWindow)
    BY TimingAssumption DEF WindowInv, WindowIsRecent, Points
  <1>3. r.latency > 0 /\ Fits(windows[m])
    BY <1>2 DEF Basis, EstimateAndUpdate
  <1>4. profiled'[m] = profiled[m] \/ profiled'[m] = Append(profiled[m], p)
    BY <1>2 DEF EstimateAndUpdate, WindowInv
  <1>5. profiled'[m] \in Seq(Points)
    <2> HIDE DEF p
    <2>1. Append(profiled[m], p) \in Seq(Points)
      BY <1>2
    <2> QED
      BY <1>2, <1>4, <2>1
  <1>6. \A i \in DOMAIN windows[m] : \E j \in DOMAIN seen : seen[j] = windows[m][i]
    <2> DEFINE s == profiled[m]
               h == profiled'[m]
    <2>1. s \in Seq(Points) /\ h \in Seq(Points) /\ (h = s \/ h = Append(s, p))
      BY <1>2, <1>4, <1>5
    <2> HIDE DEF s, h, p
    <2>2. \A i \in DOMAIN LastN(s, MaxWindow) :
             \E j \in DOMAIN LastN(h, MaxWindow + 1) :
                LastN(h, MaxWindow + 1)[j] = LastN(s, MaxWindow)[i]
      BY <1>2, <2>1, WindowAmongSeen
    <2> QED
      BY <1>2, <2>2 DEF s, h
  <1> HIDE DEF seen
  <1>7. \A i \in DOMAIN windows[m] :
           windows[m][i].tokens * r.latency = r.output * windows[m][i].latency
    BY <1>6
  <1>8. Predicted(windows[m], r.latency) \subseteq {r.output, r.output - 1}
    <2>1. r.latency \in Nat \ {0}
      BY <1>2, <1>3
    <2> QED
      BY <1>2, <1>3, <1>7, <2>1, PredictsTheLine
  <1>9. \E t \in Predicted(windows[m], r.latency) : answer'.tokens = Reasoning(t, r)
    BY <1>1 DEF Estimates
  <1> QED
    BY <1>8, <1>9, ReasoningOfTotal

\* A model whose reports all take the same time per token gets them back, to
\* within a token, whatever factor they are padded by: the least-squares line
\* through such a window is the line of the reports.
THEOREM SteadyIsNeverFlagged == Spec => []SteadyIsReproduced
  <1>1. Init => SteadyIsReproduced
    BY DEF Init, SteadyIsReproduced
  <1>2. WindowInv /\ SteadyIsReproduced /\ [Next]_vars => SteadyIsReproduced'
    <2> SUFFICES ASSUME WindowInv, SteadyIsReproduced, [Next]_vars
                 PROVE  SteadyIsReproduced'
      OBVIOUS
    <2>1. ASSUME NEW m \in Models, NEW r \in Reports, EstimateAndUpdate(m, r)
          PROVE  SteadyIsReproduced'
      BY <2>1, EstimateIsSteady
    <2>2. ASSUME NEW m \in Models, NEW r \in Reports, RegressionRaises(m, r)
          PROVE  SteadyIsReproduced'
      BY <2>2 DEF RegressionRaises, SteadyIsReproduced
    <2>3. CASE Restart
      BY <2>3 DEF Restart, SteadyIsReproduced
    <2>4. CASE UNCHANGED vars
      BY <2>4 DEF vars, SteadyIsReproduced
    <2> QED
      BY <2>1, <2>2, <2>3, <2>4 DEF Next
  <1> QED
    BY <1>1, <1>2, Windows, PTL DEF Spec
-----------------------------------------------------------------------------
\* The first position that passes a test is a position, or 0.
LEMMA FirstOf ==
    ASSUME NEW n \in Nat, NEW I \in SUBSET (1..n)
    PROVE  (IF I # {} THEN Min(I) ELSE 0) \in 0..n
  <1>1. CASE I # {}
    <2>1. \E x \in I : \A y \in I : x <= y
      BY <1>1, LeastOf
    <2>2. Min(I) \in I
      BY <2>1 DEF Min
    <2>3. \A x \in I : x \in 0..n
      OBVIOUS
    <2>4. Min(I) \in 0..n
      BY <2>2, <2>3, Zenon
    <2> QED
      BY <1>1, <2>4
  <1> QED
    BY <1>1

\* A default rate is one of the table's, or there is none.
LEMMA RateIs == \A m : DefaultTPS(m) \in Nat \cup {None}
  <1> SUFFICES ASSUME NEW m PROVE DefaultTPS(m) \in Nat \cup {None}
    OBVIOUS
  <1> DEFINE Row == [name : Seq(STRING), tps : Nat]
             I == {i \in 1..Len(Rates) : Rates[i].name = m}
             J == {i \in 1..Len(Rates) : IsPrefix(Rates[i].name, m)}
             exact == IF I # {} THEN Min(I) ELSE 0
             first == IF J # {} THEN Min(J) ELSE 0
  <1>1. /\ Len(Rates) \in Nat
        /\ \A i \in 1..Len(Rates) : Rates[i].tps \in Nat
    <2>1. \A x \in Row : x.tps \in Nat
      OBVIOUS
    <2>2. Rates \in Seq(Row)
      BY TimingAssumption
    <2> HIDE DEF Row
    <2>3. Len(Rates) \in Nat /\ \A i \in 1..Len(Rates) : Rates[i] \in Row
      BY <2>2
    <2> QED
      BY <2>1, <2>3
  <1>2. I \in SUBSET (1..Len(Rates)) /\ J \in SUBSET (1..Len(Rates))
    OBVIOUS
  <1>3. DefaultTPS(m) = CASE exact # 0 -> Rates[exact].tps
                          [] exact = 0 /\ first # 0 -> Rates[first].tps
                          [] OTHER -> None
    BY DEF DefaultTPS, SelectInSeq
  <1> HIDE DEF I, J
  <1>4. exact \in 0..Len(Rates) /\ first \in 0..Len(Rates)
    BY <1>1, <1>2, FirstOf
  <1> HIDE DEF exact, first
  <1> QED
    BY <1>1, <1>3, <1>4

\* What int() makes of a quotient is whole.
LEMMA TruncatedIsInt ==
    ASSUME NEW a \in Int, NEW b \in Nat \ {0}, NEW t \in Truncated(a, b)
    PROVE  t \in Int
  <1>1. a \div b \in Int
    BY DivBounds
  <1> QED
    BY <1>1 DEF Truncated

\* What is left for reasoning is never negative.
LEMMA ReasoningIsNat ==
    ASSUME NEW r \in Reports, NEW t \in Int PROVE Reasoning(t, r) \in Nat
  <1>1. r.output \in Nat /\ r.reasoning \in Nat
    BY TimingAssumption
  <1>2. \A i \in Int : Max({0, i}) = IF i < 0 THEN 0 ELSE i
    BY DEF Max
  <1> QED
    BY <1>1, <1>2 DEF Reasoning

\* The sums of a window are whole, and so is what its line predicts.
LEMMA PredictedIsInt ==
    ASSUME NEW w \in Seq(Points), Fits(w), NEW l \in Nat, NEW t \in Predicted(w, l)
    PROVE  t \in Int
  <1> DEFINE I == 1..Len(w)
             x == Latencies(w)
             y == Tokens(w)
             n == Len(w)
             sx == SumFunction(x)
             sy == SumFunction(y)
             sxx == SumFunction(Times(x, x))
             sxy == SumFunction(Times(x, y))
             d == Spread(w)
  <1>1. /\ DOMAIN w = I /\ DOMAIN x = I /\ DOMAIN y = I
        /\ DOMAIN Times(x, x) = I /\ DOMAIN Times(x, y) = I
        /\ IsFiniteSet(I) /\ n \in Nat
    BY FS_Interval DEF Latencies, Tokens, Times
  <1>2. ASSUME NEW i \in I
        PROVE  /\ x[i] \in Int /\ y[i] \in Int
               /\ Times(x, x)[i] \in Int /\ Times(x, y)[i] \in Int
    <2>1. w[i] \in Points /\ x[i] = w[i].latency /\ y[i] = w[i].tokens
      BY <1>1 DEF Latencies, Tokens
    <2>2. x[i] \in Int /\ y[i] \in Int
      BY <2>1 DEF Points
    <2>3. Times(x, x)[i] = x[i] * x[i] /\ Times(x, y)[i] = x[i] * y[i]
      BY <1>1 DEF Times
    <2> QED
      BY <2>2, <2>3
  <1> HIDE DEF x, y
  <1>3. sx \in Int /\ sy \in Int /\ sxx \in Int /\ sxy \in Int
    BY <1>1, <1>2, SumIsInt DEF SumFunction
  <1>4. d = n * sxx - sx * sx
    BY DEF Spread, x
  <1>5. Predicted(w, l) = Truncated(sy * d + (n * sxy - sx * sy) * (n * l - sx), n * d)
    BY DEF Predicted, x, y
  <1> HIDE DEF I, n, sx, sy, sxx, sxy, d
  <1>6. d \in Int /\ d > 0
    BY <1>1, <1>3, <1>4 DEF Fits, d
  <1>7. n # 0
    <2> SUFFICES ASSUME n = 0 PROVE FALSE
      OBVIOUS
    <2>1. \A g, h : DOMAIN g = {} => SumFunction(g) = 0
      BY SumEmpty DEF SumFunction
    <2>2. I = {}
      BY DEF I, n
    <2>3. sx = 0
      BY <1>1, <2>1, <2>2 DEF sx
    <2> QED
      BY <1>3, <1>4, <1>6, <2>3
  <1>8. n * d \in Nat \ {0}
    BY <1>1, <1>6, <1>7
  <1>9. sy * d + (n * sxy - sx * sy) * (n * l - sx) \in Int
    BY <1>1, <1>3, <1>6
  <1> QED
    BY <1>5, <1>8, <1>9, TruncatedIsInt

\* Every estimate of the timing signal is a natural number, from a rate of the
\* table, from a regression whose sums are whole and whose denominator is not
\* zero, or for want of either (estimate, _estimate_from_regression).
THEOREM TypeCorrect == Spec => []TypeOK
  <1>1. Init => TypeOK
    BY TimingAssumption DEF Init, TypeOK
  <1>2. WindowInv /\ WindowInv' /\ TypeOK /\ [Next]_vars => TypeOK'
    <2> DEFINE Answers == [model : Models, report : Reports, points : Nat,
                           basis : {"none", "default", "regression"}, tokens : Nat]
    <2> SUFFICES ASSUME WindowInv, WindowInv', TypeOK, [Next]_vars
                 PROVE  /\ boot' \in 0..MaxBoots
                        /\ answer' = None \/ answer' \in Answers
      BY DEF WindowInv, TypeOK
    <2>1. ASSUME NEW m \in Models, NEW r \in Reports, EstimateAndUpdate(m, r)
          PROVE  boot' = boot /\ answer' \in Answers
      <3>1. PICK t \in Estimates(m, r) :
               answer' = [model |-> m, report |-> r, points |-> Len(windows[m]),
                          basis |-> Basis(m, r), tokens |-> t]
        BY <2>1 DEF EstimateAndUpdate
      <3>2. r.latency \in Nat /\ windows[m] \in Seq(Points)
        BY TimingAssumption DEF WindowInv
      <3>3. Basis(m, r) \in {"none", "default", "regression"}
        BY DEF Basis
      <3>4. CASE Basis(m, r) = "none"
        <4>1. t = 0
          BY <3>4 DEF Estimates
        <4> QED
          BY <2>1, <3>1, <3>2, <3>3, <4>1 DEF EstimateAndUpdate
      <3>5. CASE Basis(m, r) = "default"
        <4>1. DefaultTPS(m) # None
          BY <3>5 DEF Basis
        <4>2. DefaultTPS(m) \in Nat
          BY <4>1, RateIs
        <4>3. PICK q \in Truncated(r.latency * DefaultTPS(m), TicksPerSecond) :
                 t = Reasoning(q, r)
          BY <3>5 DEF Estimates
        <4>4. q \in Int
          <5>1. r.latency * DefaultTPS(m) \in Int /\ TicksPerSecond \in Nat \ {0}
            BY <3>2, <4>2, TimingAssumption
          <5> QED
            BY <4>3, <5>1, TruncatedIsInt
        <4>5. t \in Nat
          BY <4>3, <4>4, ReasoningIsNat
        <4> QED
          BY <2>1, <3>1, <3>2, <3>3, <4>5 DEF EstimateAndUpdate
      <3>6. CASE Basis(m, r) = "regression"
        <4>1. Fits(windows[m])
          BY <2>1, <3>6 DEF EstimateAndUpdate
        <4>2. PICK q \in Predicted(windows[m], r.latency) : t = Reasoning(q, r)
          BY <3>6 DEF Estimates
        <4>3. t \in Nat
          BY <3>2, <4>1, <4>2, PredictedIsInt, ReasoningIsNat
        <4> QED
          BY <2>1, <3>1, <3>2, <3>3, <4>3 DEF EstimateAndUpdate
      <3> QED
        BY <3>3, <3>4, <3>5, <3>6
    <2>2. ASSUME NEW m \in Models, NEW r \in Reports, RegressionRaises(m, r)
          PROVE  boot' = boot /\ answer' = None
      BY <2>2 DEF RegressionRaises
    <2>3. CASE Restart
      BY <2>3, TimingAssumption DEF Restart, TypeOK
    <2>4. CASE UNCHANGED vars
      BY <2>4 DEF vars, TypeOK
    <2> QED
      BY <2>1, <2>2, <2>3, <2>4 DEF Next, TypeOK
  <1> QED
    BY <1>1, <1>2, Windows, PTL DEF Spec
-----------------------------------------------------------------------------
(* Signals *)

\* What the signals say of a call before they are combined.
PalaceInv ==
    /\ loaded \in BOOLEAN
    /\ call \in Calls \cup {Null}
    /\ palace = Due => call \in Calls
    /\ palace \notin {Null, Due} =>
          \E e \in Nat, d \in Domains :
             palace = [tokens |-> e, low |-> Interval(e).low, high |-> Interval(e).high,
                       domain |-> d]

\* The interval around an estimate holds it, also where a float falls short.
LEMMA IntervalIs ==
    ASSUME NEW e \in Nat
    PROVE  /\ Interval(e).low \in Nat /\ Interval(e).high \in Nat
           /\ Interval(e).low <= e /\ e <= Interval(e).high
  <1>1. Interval(e).low = (e * 85) \div 100
    BY DEF Interval
  <1>2. Interval(e).high = (e * 115) \div 100 - (IF e \in ShortHighs THEN 1 ELSE 0)
    BY DEF Interval
  <1>3. (e * 85) \div 100 \in Nat /\ (e * 85) \div 100 <= e
    OBVIOUS
  <1>4. CASE e \in ShortHighs
    <2>1. e > 0 /\ (115 * e) % 100 = 0
      BY <1>4, SignalsAssumption
    <2>2. (e * 115) \div 100 - 1 >= e
      BY <2>1
    <2> QED
      BY <1>1, <1>2, <1>3, <1>4, <2>2
  <1>5. CASE e \notin ShortHighs
    <2>1. (e * 115) \div 100 >= e
      OBVIOUS
    <2> QED
      BY <1>1, <1>2, <1>3, <1>5, <2>1
  <1> QED
    BY <1>4, <1>5

\* A prediction is an estimate, its interval and a domain.
LEMMA PredictionIs ==
    ASSUME NEW e \in Nat, NEW prompt \in Prompts
    PROVE  \E d \in Domains :
              Prediction(e, prompt) =
                 [tokens |-> e, low |-> Interval(e).low, high |-> Interval(e).high, domain |-> d]
  <1>1. prompt.hits \in SUBSET {"math", "code", "logic", "creative"}
    BY SignalsAssumption
  <1>2. Domain(prompt) \in Domains
    <2> DEFINE h == prompt.hits
    <2>1. CASE "math" \in h
      BY <2>1 DEF Domain, Domains
    <2>2. CASE "math" \notin h /\ "code" \in h
      BY <2>2 DEF Domain, Domains
    <2>3. CASE h \in SUBSET {"logic", "creative"} /\ "logic" \in h
      BY <2>3 DEF Domain, Domains
    <2>4. CASE h = {"creative"}
      BY <2>4 DEF Domain, Domains
    <2>5. CASE h = {}
      BY <2>5 DEF Domain, Domains
    <2> QED
      BY <1>1, <2>1, <2>2, <2>3, <2>4, <2>5
  <1> QED
    BY <1>2 DEF Prediction

\* There is no prediction yet.
LEMMA PalaceInit == EstimateInit => PalaceInv
  BY SignalsAssumption DEF EstimateInit, PalaceInv

\* Every step keeps a prediction one of those that predict makes.
LEMMA PalaceStep == PalaceInv /\ [EstimateNext]_estimateVars => PalaceInv'
  <1> SUFFICES ASSUME PalaceInv, [EstimateNext]_estimateVars PROVE PalaceInv'
    OBVIOUS
  <1>1. CASE LoadModel
    BY <1>1 DEF LoadModel, PalaceInv
  <1>2. ASSUME NEW c \in Calls, Record(c) PROVE PalaceInv'
    BY <1>2 DEF Record, PalaceInv
  <1>3. CASE PredictPlaceholder
    <2>1. call \in Calls /\ call' = call /\ loaded' = loaded
          /\ palace' = Placeholder(call.prompt)
      BY <1>3 DEF PredictPlaceholder, PalaceInv
    <2>2. call.prompt \in Prompts
      BY <2>1 DEF Calls
    <2>5. call.prompt.length \in Nat /\ call.prompt.hash \in Nat
      <3>1. call.prompt \in [length : Nat, hash : 0..499,
                             hits : SUBSET {"math", "code", "logic", "creative"}]
        BY <2>2, SignalsAssumption
      <3> QED
        BY <3>1
    <2> DEFINE e == AtMost(500000, AtLeast(1, AtLeast(1, call.prompt.length \div 40)
                                                + call.prompt.hash))
    <2>3. e \in Nat
      BY <2>5 DEF AtMost, AtLeast
    <2>4. palace' = Prediction(e, call.prompt)
      BY <2>1 DEF Placeholder
    <2> HIDE DEF e
    <2> QED
      BY <2>1, <2>2, <2>3, <2>4, PredictionIs DEF PalaceInv
  <1>4. ASSUME NEW o \in Outputs, PredictModel(o) PROVE PalaceInv'
    <2>1. call \in Calls /\ call' = call /\ loaded' = loaded
          /\ palace' = Prediction(Parsed(o), call.prompt)
      BY <1>4 DEF PredictModel, PalaceInv
    <2>2. call.prompt \in Prompts /\ o \in Seq(Nat)
      BY <2>1, SignalsAssumption DEF Calls
    <2>3. Parsed(o) \in Nat
      BY <2>2 DEF Parsed
    <2> QED
      BY <2>1, <2>2, <2>3, PredictionIs DEF PalaceInv
  <1>5. CASE PredictFails
    BY <1>5, SignalsAssumption DEF PredictFails, PalaceInv
  <1>6. CASE Aggregate
    BY <1>6, SignalsAssumption DEF Aggregate, PalaceInv
  <1>7. CASE UNCHANGED estimateVars
    BY <1>7 DEF estimateVars, PalaceInv
  <1> QED
    BY <1>1, <1>2, <1>3, <1>4, <1>5, <1>6, <1>7 DEF EstimateNext

\* Predictions are well formed.
LEMMA Palace == EstimateSpec => []PalaceInv
  BY PalaceInit, PalaceStep, PTL DEF EstimateSpec
-----------------------------------------------------------------------------
\* What the row of a call says, field by field.
LEMMA AggregatedIs ==
    ASSUME NEW c, NEW p
    PROVE  LET r == Aggregated(c, p)
           IN  /\ r.call = c
               /\ r.palace = IF p = Null THEN 0 ELSE p.tokens
               /\ r.low = IF p = Null THEN 0 ELSE p.low
               /\ r.high = IF p = Null THEN 0 ELSE p.high
               /\ r.timing = OrZero(c.timing)
               /\ r.combined = Combined(p, c.timing, c.reported)
               /\ r.discrepancy = Discrepancy(c.reported, Combined(p, c.timing, c.reported))
               /\ r.dollars = Nearest((c.reported - Combined(p, c.timing, c.reported))
                                         * Price(c.name), 10000)
               /\ r.predicted <=> p # Null
  <1> DEFINE predicted == p # Null
             agree == p # Null /\ c.timing # Null => Agree(p.tokens, c.timing)
             palace0 == IF p = Null THEN 0 ELSE p.tokens
             low0 == IF p = Null THEN 0 ELSE p.low
             high0 == IF p = Null THEN 0 ELSE p.high
             timing0 == OrZero(c.timing)
             combined0 == Combined(p, c.timing, c.reported)
             discrepancy0 == Discrepancy(c.reported, combined0)
             dollars0 == Nearest((c.reported - combined0) * Price(c.name), 10000)
  <1>1. Aggregated(c, p) =
           [call |-> c, predicted |-> predicted, palace |-> palace0, low |-> low0,
            high |-> high0, timing |-> timing0, combined |-> combined0,
            discrepancy |-> discrepancy0, dollars |-> dollars0, agree |-> agree]
    BY DEF Aggregated
  <1> HIDE DEF predicted, agree, palace0, low0, high0, timing0, combined0, discrepancy0, dollars0
  <1>2. LET r == Aggregated(c, p)
        IN  /\ r.call = c /\ r.palace = palace0 /\ r.low = low0 /\ r.high = high0
            /\ r.timing = timing0 /\ r.combined = combined0
            /\ r.discrepancy = discrepancy0 /\ r.dollars = dollars0
    BY <1>1
  <1>3. Aggregated(c, p).predicted = predicted
    BY <1>1
  <1>4. Aggregated(c, p).predicted <=> p # Null
    BY <1>3 DEF predicted
  <1> QED
    BY <1>2, <1>4 DEF palace0, low0, high0, timing0, combined0, discrepancy0, dollars0

\* The row of a call that PALACE predicted, and of one that it did not.
LEMMA RowIs ==
    ASSUME PalaceInv, Aggregate
    PROVE  /\ call \in Calls /\ call.reported \in Nat /\ call.timing \in Nat \cup {Null}
           /\ row' = Aggregated(call, palace)
           /\ palace # Null => /\ palace.tokens \in Nat
                               /\ palace.low = Interval(palace.tokens).low
                               /\ palace.high = Interval(palace.tokens).high
  <1>1. call \in Calls
    BY DEF Aggregate, PalaceInv
  <1>2. call.reported \in Nat /\ call.timing \in Nat \cup {Null}
    BY <1>1, SignalsAssumption DEF Calls
  <1>3. palace # Null => palace \notin {Null, Due}
    BY DEF Aggregate
  <1> QED
    BY <1>1, <1>2, <1>3 DEF Aggregate, PalaceInv

\* Each property of the row is kept by what leaves the row alone or clears it.
LEMMA RowChanges ==
    ASSUME [EstimateNext]_estimateVars
    PROVE  row' = row \/ row' = Null \/ Aggregate
  BY DEF EstimateNext, estimateVars, LoadModel, Record, PredictPlaceholder, PredictModel,
         PredictFails

\* What predict promises of the interval is still true of the row.
LEMMA AggregateInterval ==
    ASSUME PalaceInv, Aggregate PROVE IntervalHoldsEstimate'
  <1>1. CASE palace = Null
    <2>1. /\ row'.palace = 0 /\ row'.low = 0 /\ row'.high = 0 /\ ~row'.predicted
      BY <1>1, RowIs, AggregatedIs
    <2> QED
      BY <2>1 DEF IntervalHoldsEstimate
  <1>2. CASE palace # Null
    <2>1. /\ row'.palace = palace.tokens /\ row'.call = call
          /\ row'.low = Interval(palace.tokens).low
          /\ row'.high = Interval(palace.tokens).high
      BY <1>2, RowIs, AggregatedIs
    <2>2. palace.tokens \in Nat /\ call.reported \in Nat
      BY <1>2, RowIs
    <2>3. /\ row'.low \in Nat /\ row'.high \in Nat /\ row'.palace \in Nat
          /\ row'.low <= row'.palace /\ row'.palace <= row'.high
      BY <2>1, <2>2, IntervalIs
    <2> QED
      BY <2>1, <2>2, <2>3 DEF IntervalHoldsEstimate, CountedAsHonoring, CheckHonoring
  <1> QED
    BY <1>1, <1>2

\* Truncated to whole tokens or not, PALACE's interval holds its estimate, so a
\* report of exactly the estimate honors it, in SQL and in the aggregator alike.
THEOREM HonestIsHonored == EstimateSpec => []IntervalHoldsEstimate
  <1>1. EstimateInit => IntervalHoldsEstimate
    BY DEF EstimateInit, IntervalHoldsEstimate
  <1>2. PalaceInv /\ IntervalHoldsEstimate /\ [EstimateNext]_estimateVars
           => IntervalHoldsEstimate'
    <2> SUFFICES ASSUME PalaceInv, IntervalHoldsEstimate, [EstimateNext]_estimateVars
                 PROVE  IntervalHoldsEstimate'
      OBVIOUS
    <2>1. CASE row' = row
      BY <2>1 DEF IntervalHoldsEstimate, CountedAsHonoring, CheckHonoring
    <2>2. CASE row' = Null
      BY <2>2 DEF IntervalHoldsEstimate
    <2> QED
      BY <2>1, <2>2, RowChanges, AggregateInterval
  <1> QED
    BY <1>1, <1>2, Palace, PTL DEF EstimateSpec

\* The weighted sum lies between its two terms, up to the float that falls short.
LEMMA WeightedIs ==
    ASSUME NEW p \in Nat, NEW t \in Nat
    PROVE  /\ Weighted(p, t) \in Nat
           /\ Weighted(p, t) >= AtMost(p, t) - 1 /\ Weighted(p, t) <= AtLeast(p, t)
  <1>1. CASE <<p, t>> \in ShortSums
    <2>1. 7 * p + 3 * t > 0 /\ (7 * p + 3 * t) % 10 = 0
      BY <1>1, SignalsAssumption
    <2>2. Weighted(p, t) = (7 * p + 3 * t) \div 10 - 1
      BY <1>1 DEF Weighted
    <2> QED
      BY <2>1, <2>2 DEF AtMost, AtLeast
  <1>2. CASE <<p, t>> \notin ShortSums
    <2>1. Weighted(p, t) = (7 * p + 3 * t) \div 10
      BY <1>2 DEF Weighted
    <2> QED
      BY <2>1 DEF AtMost, AtLeast
  <1> QED
    BY <1>1, <1>2

\* The combined estimate of a row lies between its signals.
LEMMA AggregateCombined ==
    ASSUME PalaceInv, Aggregate PROVE CombinedIsBetween'
  <1> SUFFICES ASSUME row'.predicted, row'.call.timing # Null
               PROVE  /\ row'.combined >= AtMost(row'.palace, row'.timing) - 1
                      /\ row'.combined <= AtLeast(row'.palace, row'.timing)
    BY DEF CombinedIsBetween
  <1>1. palace # Null /\ call.timing # Null
    BY RowIs, AggregatedIs
  <1>2. palace.tokens \in Nat /\ call.timing \in Nat
    BY <1>1, RowIs
  <1>3. /\ row'.combined = Weighted(palace.tokens, call.timing)
        /\ row'.palace = palace.tokens /\ row'.timing = call.timing
    BY <1>1, RowIs, AggregatedIs DEF Combined, OrZero
  <1> QED
    BY <1>2, <1>3, WeightedIs

\* int(0.7 * palace + 0.3 * timing) lies between the two signals, or a token
\* below both where binary floating point falls short of a whole number.
THEOREM CombinesBetween == EstimateSpec => []CombinedIsBetween
  <1>1. EstimateInit => CombinedIsBetween
    BY DEF EstimateInit, CombinedIsBetween
  <1>2. PalaceInv /\ CombinedIsBetween /\ [EstimateNext]_estimateVars => CombinedIsBetween'
    <2> SUFFICES ASSUME PalaceInv, CombinedIsBetween, [EstimateNext]_estimateVars
                 PROVE  CombinedIsBetween'
      OBVIOUS
    <2>1. CASE row' = row
      BY <2>1 DEF CombinedIsBetween
    <2>2. CASE row' = Null
      BY <2>2 DEF CombinedIsBetween
    <2> QED
      BY <2>1, <2>2, RowChanges, AggregateCombined
  <1> QED
    BY <1>1, <1>2, Palace, PTL DEF EstimateSpec
-----------------------------------------------------------------------------
\* Rounding keeps the sign and the order of a quotient.
LEMMA NearestIs ==
    ASSUME NEW i \in Int, NEW n \in Nat \ {0}
    PROVE  /\ Nearest(i, n) \in Int
           /\ i >= 0 => Nearest(i, n) >= 0
           /\ i <= 0 => Nearest(i, n) <= 0
           /\ \A k \in Int : i >= n * k => Nearest(i, n) >= k
  <1> DEFINE a == 2 * i + n
             b == 2 * n
  <1>1. a \in Int /\ b \in Nat \ {0} /\ Nearest(i, n) = a \div b
    BY DEF Nearest
  <1>2. a \div b \in Int
    <2> HIDE DEF a, b
    <2> QED
      BY <1>1, DivBounds
  <1>3. \A k \in Int : a \div b >= k <=> a >= b * k
    <2> HIDE DEF a, b
    <2> QED
      BY <1>1, DivAtLeast
  <1>4. i >= 0 => a \div b >= 0
    <2> SUFFICES ASSUME i >= 0 PROVE a \div b >= 0
      OBVIOUS
    <2>1. a >= b * 0
      OBVIOUS
    <2> QED
      BY <1>3, <2>1
  <1>5. i <= 0 => a \div b <= 0
    <2> SUFFICES ASSUME i <= 0 PROVE a \div b <= 0
      OBVIOUS
    <2>1. ~(a >= b * 1)
      OBVIOUS
    <2>2. ~(a \div b >= 1)
      BY <1>3, <2>1
    <2> HIDE DEF a, b
    <2> QED
      BY <1>2, <2>2
  <1>6. ASSUME NEW k \in Int, i >= n * k PROVE a \div b >= k
    <2>1. b * k = 2 * (n * k) /\ n * k \in Int
      OBVIOUS
    <2>2. a >= b * k
      BY <1>6, <2>1
    <2> QED
      BY <1>3, <2>2
  <1> QED
    BY <1>1, <1>2, <1>4, <1>5, <1>6

\* Every model has a price, listed or not, and none is negative.
LEMMA PriceIsNat == \A name : Price(name) \in Nat
  <1> SUFFICES ASSUME NEW name PROVE Price(name) \in Nat
    OBVIOUS
  <1> DEFINE Hits == {i \in DOMAIN Prices : /\ Prices[i].provider = name.provider
                                            /\ StartsWith(name.model, Prices[i].model)}
  <1>1. Prices \in Seq([provider : STRING, model : Seq(STRING), cents : Nat])
    BY SignalsAssumption
  <1>2. \A i \in DOMAIN Prices : i \in Nat /\ Prices[i].cents \in Nat
    <2> DEFINE Row == [provider : STRING, model : Seq(STRING), cents : Nat]
    <2>1. \A x \in Row : x.cents \in Nat
      OBVIOUS
    <2>2. Prices \in Seq(Row)
      BY <1>1
    <2> HIDE DEF Row
    <2>3. DOMAIN Prices = 1..Len(Prices) /\ \A i \in DOMAIN Prices : Prices[i] \in Row
      BY <2>2
    <2> QED
      BY <2>1, <2>3
  <1>3. Price(name) = IF Hits = {} THEN DefaultPrice
                      ELSE Prices[CHOOSE i \in Hits : \A j \in Hits : i <= j].cents
    BY DEF Price
  <1>4. \A i \in Hits : i \in DOMAIN Prices
    OBVIOUS
  <1> HIDE DEF Hits
  <1>5. CASE Hits = {}
    BY <1>3, <1>5, SignalsAssumption
  <1>6. CASE Hits # {}
    <2>1. \E i \in Hits : \A j \in Hits : i <= j
      BY <1>2, <1>4, <1>6, LeastOf
    <2> DEFINE first == CHOOSE i \in Hits : \A j \in Hits : i <= j
    <2>2. first \in Hits
      BY <2>1
    <2> HIDE DEF first
    <2> QED
      BY <1>2, <1>3, <1>4, <1>6, <2>2 DEF first
  <1> QED
    BY <1>5, <1>6

\* A combined estimate is a natural number whichever signals there are.
LEMMA CombinedIsNat ==
    ASSUME PalaceInv, Aggregate
    PROVE  Combined(palace, call.timing, call.reported) \in Nat
  <1>1. /\ call.reported \in Nat
        /\ palace # Null => palace.tokens \in Nat
        /\ call.timing # Null => call.timing \in Nat
    BY RowIs
  <1>2. CASE palace # Null /\ call.timing # Null
    BY <1>1, <1>2, WeightedIs DEF Combined
  <1>3. CASE palace # Null /\ call.timing = Null
    BY <1>1, <1>3 DEF Combined
  <1>4. CASE palace = Null /\ call.timing # Null
    BY <1>1, <1>4 DEF Combined
  <1>5. CASE palace = Null /\ call.timing = Null
    BY <1>1, <1>5 DEF Combined
  <1> QED
    BY <1>2, <1>3, <1>4, <1>5

\* Sign of the discrepancy, dollars and tokens of a row agree.
LEMMA AggregateStory ==
    ASSUME PalaceInv, Aggregate PROVE OneStory'
  <1> DEFINE m == call.reported
             k == Combined(palace, call.timing, call.reported)
             cents == Price(call.name)
  <1>1. /\ m \in Nat /\ k \in Nat /\ cents \in Nat
    BY RowIs, CombinedIsNat, PriceIsNat
  <1>2. /\ row'.call.reported = m /\ row'.combined = k
        /\ row'.discrepancy = Discrepancy(m, k)
        /\ row'.dollars = Nearest((m - k) * cents, 10000)
        /\ row'.call = call /\ (row'.predicted <=> palace # Null)
    BY RowIs, AggregatedIs
  <1>3. palace = Null /\ call.timing = Null => k = m
    BY DEF Combined
  <1> HIDE DEF m, k, cents
  <1>4. Discrepancy(m, k) = IF k > 0 THEN Nearest(10000 * (m - k), k) ELSE 0
    BY DEF Discrepancy
  <1>5. (m - k) * cents \in Int /\ 10000 * (m - k) \in Int /\ 10000 \in Nat \ {0}
    BY <1>1
  <1>6. m >= k => Discrepancy(m, k) >= 0 /\ Nearest((m - k) * cents, 10000) >= 0
    <2> SUFFICES ASSUME m >= k
                 PROVE  Discrepancy(m, k) >= 0 /\ Nearest((m - k) * cents, 10000) >= 0
      OBVIOUS
    <2>1. (m - k) * cents >= 0 /\ 10000 * (m - k) >= 0
      BY <1>1
    <2> QED
      BY <1>1, <1>4, <1>5, <2>1, NearestIs
  <1>7. m <= k => Discrepancy(m, k) <= 0 /\ Nearest((m - k) * cents, 10000) <= 0
    <2> SUFFICES ASSUME m <= k
                 PROVE  Discrepancy(m, k) <= 0 /\ Nearest((m - k) * cents, 10000) <= 0
      OBVIOUS
    <2>1. (m - k) * cents <= 0 /\ 10000 * (m - k) <= 0
      BY <1>1
    <2> QED
      BY <1>1, <1>4, <1>5, <2>1, NearestIs
  <1>8. k > 0 /\ m >= 2 * k => Discrepancy(m, k) >= 10000
    <2> SUFFICES ASSUME k > 0, m >= 2 * k PROVE Discrepancy(m, k) >= 10000
      OBVIOUS
    <2>1. 10000 * (m - k) >= k * 10000
      BY <1>1
    <2>2. Nearest(10000 * (m - k), k) >= 10000
      BY <1>1, <1>5, <2>1, NearestIs
    <2> QED
      BY <1>4, <2>2
  <1>9. Discrepancy(m, k) \in Int /\ Nearest((m - k) * cents, 10000) \in Int
    BY <1>1, <1>4, <1>5, NearestIs
  <1>10. m = k => Discrepancy(m, k) = 0 /\ Nearest((m - k) * cents, 10000) = 0
    BY <1>1, <1>6, <1>7, <1>9
  <1>11. /\ row'.call.reported > row'.combined => row'.discrepancy >= 0 /\ row'.dollars >= 0
         /\ row'.call.reported < row'.combined => row'.discrepancy <= 0 /\ row'.dollars <= 0
         /\ row'.combined > 0 /\ row'.call.reported >= 2 * row'.combined =>
               row'.discrepancy >= 10000
    BY <1>1, <1>2, <1>6, <1>7, <1>8
  <1>12. ~row'.predicted /\ row'.call.timing = Null => row'.discrepancy = 0 /\ row'.dollars = 0
    BY <1>2, <1>3, <1>10
  <1> QED
    BY <1>11, <1>12 DEF OneStory

\* Tokens, percentage and dollars agree on whether a call was overcharged, and
\* a call that no signal covers was neither over- nor undercharged.
THEOREM TellsOneStory == EstimateSpec => []OneStory
  <1>1. EstimateInit => OneStory
    BY DEF EstimateInit, OneStory
  <1>2. PalaceInv /\ OneStory /\ [EstimateNext]_estimateVars => OneStory'
    <2> SUFFICES ASSUME PalaceInv, OneStory, [EstimateNext]_estimateVars
                 PROVE  OneStory'
      OBVIOUS
    <2>1. CASE row' = row
      BY <2>1 DEF OneStory
    <2>2. CASE row' = Null
      BY <2>2 DEF OneStory
    <2> QED
      BY <2>1, <2>2, RowChanges, AggregateStory
  <1> QED
    BY <1>1, <1>2, Palace, PTL DEF EstimateSpec
-----------------------------------------------------------------------------
\* What aggregate_single_call fills a row with.
LEMMA AggregateType ==
    ASSUME PalaceInv, Aggregate PROVE EstimateTypeOK'
  <1> DEFINE Row == [call : Calls, predicted : BOOLEAN, palace : Nat, low : Nat, high : Nat,
                     timing : Nat, combined : Nat, discrepancy : Int, dollars : Int,
                     agree : BOOLEAN]
             k == Combined(palace, call.timing, call.reported)
             predicted == palace # Null
             agree == palace # Null /\ call.timing # Null => Agree(palace.tokens, call.timing)
             palace0 == IF palace = Null THEN 0 ELSE palace.tokens
             low0 == IF palace = Null THEN 0 ELSE palace.low
             high0 == IF palace = Null THEN 0 ELSE palace.high
             timing0 == OrZero(call.timing)
             discrepancy0 == Discrepancy(call.reported, k)
             dollars0 == Nearest((call.reported - k) * Price(call.name), 10000)
  <1>1. /\ call \in Calls /\ call.reported \in Nat /\ call.timing \in Nat \cup {Null}
        /\ k \in Nat /\ Price(call.name) \in Nat
    BY RowIs, CombinedIsNat, PriceIsNat
  <1>2. palace0 \in Nat /\ low0 \in Nat /\ high0 \in Nat
    <2>1. palace # Null => /\ palace.tokens \in Nat
                           /\ palace.low \in Nat /\ palace.high \in Nat
      BY RowIs, IntervalIs
    <2> QED
      BY <2>1
  <1>3. timing0 \in Nat
    BY <1>1 DEF OrZero
  <1>4. row' = [call |-> call, predicted |-> predicted, palace |-> palace0, low |-> low0,
                high |-> high0, timing |-> timing0, combined |-> k,
                discrepancy |-> discrepancy0, dollars |-> dollars0, agree |-> agree]
    BY RowIs DEF Aggregated
  <1>5. agree \in BOOLEAN /\ predicted \in BOOLEAN
    BY Zenon DEF Agree
  <1> HIDE DEF k
  <1>6. discrepancy0 \in Int /\ dollars0 \in Int
    <2>1. /\ (call.reported - k) * Price(call.name) \in Int
          /\ 10000 * (call.reported - k) \in Int /\ 10000 \in Nat \ {0}
      BY <1>1
    <2>2. k > 0 => Nearest(10000 * (call.reported - k), k) \in Int
      BY <1>1, <2>1, NearestIs
    <2> QED
      BY <1>1, <2>1, <2>2, NearestIs DEF Discrepancy
  <1> HIDE DEF predicted, agree, palace0, low0, high0, timing0, discrepancy0, dollars0
  <1>7. row' \in Row
    BY <1>1, <1>2, <1>3, <1>4, <1>5, <1>6
  <1>8. loaded' \in BOOLEAN /\ call' = Null /\ palace' = Null
    BY DEF Aggregate, PalaceInv
  <1> QED
    BY <1>7, <1>8 DEF EstimateTypeOK

\* A row that is stored fits its table: whole numbers, none negative but the
\* discrepancy and the dollars (EstimationResult in storage/models.py).
THEOREM EstimateTypeCorrect == EstimateSpec => []EstimateTypeOK
  <1>1. EstimateInit => EstimateTypeOK
    BY DEF EstimateInit, EstimateTypeOK
  <1>2. PalaceInv /\ PalaceInv' /\ EstimateTypeOK /\ [EstimateNext]_estimateVars
           => EstimateTypeOK'
    <2> SUFFICES ASSUME PalaceInv', EstimateTypeOK, PalaceInv, row' = row \/ row' = Null
                 PROVE  EstimateTypeOK'
      BY RowChanges, AggregateType
    <2>1. palace' \in {Null, Due} \/ palace' \in [tokens : Nat, low : Nat, high : Nat,
                                                 domain : Domains]
      BY IntervalIs DEF PalaceInv
    <2> QED
      BY <2>1 DEF PalaceInv, EstimateTypeOK
  <1> QED
    BY <1>1, <1>2, Palace, PTL DEF EstimateSpec
=============================================================================
