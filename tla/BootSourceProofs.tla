-------------------------- MODULE BootSourceProofs --------------------------
(***************************************************************************)
(* The safety properties of the two parts of shim that decide what is      *)
(* booted next: of fallback's boot entries, for every disk, store of       *)
(* entries and number of failures and losses, and of the HTTP fetches, for *)
(* every number of network interfaces, retries, receive buffer and content *)
(* length.  The two do not interact; they only share this module.          *)
(***************************************************************************)
EXTENDS Fallback, HttpFetch, SequenceTheorems, WellFoundedInduction, TLAPS

---------------------------------------------------------------------------
(* Fallback: least elements                                                *)

(* Every set of natural numbers has a least element.                       *)
LEMMA LeastElement ==
    ASSUME NEW S, S \subseteq Nat, S # {}
    PROVE  \E n \in S : \A m \in S : n <= m
<1> DEFINE R == {p \in Nat \X Nat : p[1] < p[2]}
<1>1. IsWellFoundedOn(R, Nat)
  BY NatLessThanWellFounded DEF OpToRel
<1>2. PICK n \in S : \A m \in S : ~(<<m, n>> \in R)
  BY <1>1, WFMin
<1>3. \A x, y \in Nat : <<x, y>> \in R <=> x < y
  OBVIOUS
<1>4. \A x, y \in Nat : x < y \/ y <= x
  OBVIOUS
<1> HIDE DEF R
<1> QED
  BY <1>2, <1>3, <1>4

(* What holds of nothing and is kept by one more index holds of them all.  *)
LEMMA UpTo ==
    ASSUME NEW n \in Nat, NEW S, 0 \in S,
           \A k \in 1 .. n : k - 1 \in S => k \in S
    PROVE  0 .. n \subseteq S
<1> DEFINE Bad == (0 .. n) \ S
<1> SUFFICES ASSUME Bad # {} PROVE FALSE
  OBVIOUS
<1>1. PICK k \in Bad : \A o \in Bad : k <= o
  <2>1. Bad \subseteq Nat
    OBVIOUS
  <2> HIDE DEF Bad
  <2> QED
    BY <2>1, LeastElement
<1>2. k \in 0 .. n /\ k \notin S /\ k # 0
  BY <1>1
<1>3. k \in 1 .. n /\ k - 1 \in 0 .. n /\ ~(k <= k - 1)
  BY <1>2
<1>4. k - 1 \notin Bad
  BY <1>1, <1>3
<1> QED
  BY <1>2, <1>3, <1>4

---------------------------------------------------------------------------
(* The elements of a sequence that are not in a set                        *)

Kept(x, kept, S) == IF x \in S THEN kept ELSE Append(kept, x)

(* f goes along s and collects what is not in S.                           *)
Runs(f, s, S) == f[0] = <<>> /\ \A k \in 1 .. Len(s) : f[k] = Kept(s[k], f[k - 1], S)

LEMMA RunExists ==
    ASSUME NEW T, NEW s \in Seq(T), NEW S
    PROVE  \E f \in [0 .. Len(s) -> Seq(T)] : Runs(f, s, S)
<1> DEFINE n == Len(s)
           Good(f, k) == f[0] = <<>> /\ \A j \in 1 .. k : f[j] = Kept(s[j], f[j - 1], S)
           G == {k \in 0 .. n : \E f \in [0 .. k -> Seq(T)] : Good(f, k)}
<1>1. n \in Nat
  OBVIOUS
<1>2. 0 \in G
  <2> DEFINE f == [k \in 0 .. 0 |-> <<>>]
  <2>1. f \in [0 .. 0 -> Seq(T)] /\ Good(f, 0)
    OBVIOUS
  <2> HIDE DEF f, Good
  <2> QED
    BY <1>1, <2>1
<1>3. ASSUME NEW k \in 1 .. n, k - 1 \in G PROVE k \in G
  <2>1. PICK f \in [0 .. k - 1 -> Seq(T)] : Good(f, k - 1)
    BY <1>3
  <2> DEFINE g == [j \in 0 .. k |-> IF j = k THEN Kept(s[k], f[k - 1], S) ELSE f[j]]
  <2>2. s[k] \in T /\ k - 1 \in 0 .. k - 1
    OBVIOUS
  <2>3. Kept(s[k], f[k - 1], S) \in Seq(T)
    BY <2>2 DEF Kept
  <2>4. \A j \in 0 .. k : j # k => j \in 0 .. k - 1
    OBVIOUS
  <2>5. g \in [0 .. k -> Seq(T)]
    BY <2>3, <2>4
  <2>6. g[0] = <<>>
    BY <2>1
  <2>7. \A j \in 1 .. k : g[j] = Kept(s[j], g[j - 1], S)
    <3> TAKE j \in 1 .. k
    <3>1. j \in 0 .. k /\ j - 1 \in 0 .. k /\ j - 1 # k /\ (j # k => j \in 1 .. k - 1)
      OBVIOUS
    <3>2. g[j - 1] = f[j - 1]
      BY <3>1
    <3> QED
      BY <2>1, <3>1, <3>2
  <2>8. k \in 0 .. n
    BY <1>1
  <2> HIDE DEF g
  <2>9. Good(g, k)
    BY <2>6, <2>7
  <2> HIDE DEF Good
  <2> QED
    BY <2>5, <2>8, <2>9
<1>4. n \in G
  <2> HIDE DEF G
  <2>1. 0 .. n \subseteq G
    BY <1>1, <1>2, <1>3, UpTo
  <2> QED
    BY <1>1, <2>1
<1> QED
  BY <1>4 DEF Runs

(* Two that go along the same elements have collected the same.            *)
LEMMA RunsAgree ==
    ASSUME NEW n \in Nat, NEW s, NEW t, NEW S, NEW f, NEW g,
           n <= Len(s), n <= Len(t), Len(s) \in Nat, Len(t) \in Nat,
           Runs(f, s, S), Runs(g, t, S), \A k \in 1 .. n : s[k] = t[k]
    PROVE  f[n] = g[n]
<1> DEFINE Same == {k \in 0 .. n : f[k] = g[k]}
<1>1. 0 \in Same
  BY DEF Runs
<1>2. ASSUME NEW k \in 1 .. n, k - 1 \in Same PROVE k \in Same
  <2>1. k \in 1 .. Len(s) /\ k \in 1 .. Len(t) /\ k \in 0 .. n
    OBVIOUS
  <2>2. f[k] = Kept(s[k], f[k - 1], S) /\ g[k] = Kept(t[k], g[k - 1], S)
    BY <2>1 DEF Runs
  <2> QED
    BY <1>2, <2>1, <2>2
<1> HIDE DEF Same
<1>3. 0 .. n \subseteq Same
  BY <1>1, <1>2, UpTo
<1> QED
  BY <1>3 DEF Same

LEMMA WithoutRuns ==
    ASSUME NEW T, NEW s \in Seq(T), NEW S
    PROVE  \E f \in [0 .. Len(s) -> Seq(T)] : Runs(f, s, S) /\ Without(s, S) = f[Len(s)]
<1> DEFINE n == Len(s)
           Rec(a) == a = [k \in 0 .. n |-> IF k = 0 THEN <<>> ELSE Kept(s[k], a[k - 1], S)]
           kept == CHOOSE a : Rec(a)
<1>1. n \in Nat
  OBVIOUS
<1>2. PICK f \in [0 .. n -> Seq(T)] : Runs(f, s, S)
  BY RunExists
<1>3. Rec(f)
  <2>1. f = [k \in 0 .. n |-> f[k]]
    OBVIOUS
  <2>2. \A k \in 0 .. n : k # 0 => k \in 1 .. n
    OBVIOUS
  <2>3. \A k \in 0 .. n : f[k] = IF k = 0 THEN <<>> ELSE Kept(s[k], f[k - 1], S)
    BY <1>2, <2>2 DEF Runs
  <2> HIDE DEF n
  <2> QED
    BY <2>1, <2>3
<1>4. Without(s, S) = kept[n]
  BY DEF Without, Kept
<1>5. Rec(kept)
  <2> HIDE DEF Rec
  <2> QED
    BY <1>3
<1>6. \A k \in 0 .. n : kept[k] = IF k = 0 THEN <<>> ELSE Kept(s[k], kept[k - 1], S)
  <2> HIDE DEF kept, n
  <2> QED
    BY <1>5
<1> HIDE DEF kept, Rec
<1>7. Runs(kept, s, S)
  <2>1. 0 \in 0 .. n /\ \A k \in 1 .. n : k \in 0 .. n /\ k # 0
    BY <1>1
  <2> QED
    BY <1>6, <2>1 DEF Runs
<1>8. kept[n] = f[n]
  <2>1. n <= n
    BY <1>1
  <2> QED
    BY <1>1, <1>2, <1>7, <2>1, RunsAgree
<1> QED
  BY <1>2, <1>4, <1>8

LEMMA WithoutType ==
    ASSUME NEW T, NEW s \in Seq(T), NEW S
    PROVE  Without(s, S) \in Seq(T)
<1>1. PICK f \in [0 .. Len(s) -> Seq(T)] : Runs(f, s, S) /\ Without(s, S) = f[Len(s)]
  BY WithoutRuns
<1>2. Len(s) \in 0 .. Len(s)
  OBVIOUS
<1> QED
  BY <1>1, <1>2

LEMMA WithoutEmpty ==
    ASSUME NEW S
    PROVE  Without(<<>>, S) = <<>>
<1>1. <<>> \in Seq({}) /\ Len(<<>>) = 0
  OBVIOUS
<1>2. \A s \in Seq({}) : \E f : Runs(f, s, S) /\ Without(s, S) = f[Len(s)]
  BY WithoutRuns
<1>3. PICK f : Runs(f, <<>>, S) /\ Without(<<>>, S) = f[Len(<<>>)]
  BY <1>1, <1>2
<1> QED
  BY <1>1, <1>3 DEF Runs

LEMMA WithoutAppend ==
    ASSUME NEW T, NEW s \in Seq(T), NEW x \in T, NEW S
    PROVE  Without(Append(s, x), S) = Kept(x, Without(s, S), S)
<1> DEFINE t == Append(s, x)
           n == Len(s)
<1>1. t \in Seq(T) /\ Len(t) = n + 1 /\ n \in Nat /\ t[n + 1] = x
  OBVIOUS
<1>2. \A k \in 1 .. n : s[k] = t[k]
  OBVIOUS
<1> HIDE DEF t
<1>3. PICK f \in [0 .. Len(s) -> Seq(T)] : Runs(f, s, S) /\ Without(s, S) = f[Len(s)]
  BY WithoutRuns
<1>4. PICK g \in [0 .. Len(t) -> Seq(T)] : Runs(g, t, S) /\ Without(t, S) = g[Len(t)]
  BY <1>1, WithoutRuns
<1>5. f[n] = g[n]
  <2>1. n <= Len(s) /\ n <= Len(t) /\ Len(s) \in Nat /\ Len(t) \in Nat
    BY <1>1
  <2> HIDE DEF n
  <2> QED
    BY <1>1, <1>2, <1>3, <1>4, <2>1, RunsAgree
<1>6. g[n + 1] = Kept(t[n + 1], g[n], S)
  <2>1. n + 1 \in 1 .. Len(t) /\ (n + 1) - 1 = n
    BY <1>1
  <2> QED
    BY <1>4, <2>1 DEF Runs
<1> QED
  BY <1>1, <1>3, <1>4, <1>5, <1>6 DEF t

LEMMA Prefix ==
    ASSUME NEW T, NEW s \in Seq(T)
    PROVE  /\ SubSeq(s, 1, 0) = <<>> /\ SubSeq(s, 1, Len(s)) = s
           /\ \A k \in 1 .. Len(s) :
                 /\ SubSeq(s, 1, k - 1) \in Seq(T) /\ s[k] \in T
                 /\ SubSeq(s, 1, k) = Append(SubSeq(s, 1, k - 1), s[k])
<1>1. SubSeq(s, 1, 0) = <<>> /\ SubSeq(s, 1, Len(s)) = s
  OBVIOUS
<1>2. ASSUME NEW k \in 1 .. Len(s)
      PROVE  /\ SubSeq(s, 1, k - 1) \in Seq(T) /\ s[k] \in T
             /\ SubSeq(s, 1, k) = Append(SubSeq(s, 1, k - 1), s[k])
  <2>1. s[k] \in T /\ k - 1 \in 0 .. Len(s)
    OBVIOUS
  <2>2. SubSeq(s, 1, k - 1) \in Seq(T) /\ Len(SubSeq(s, 1, k - 1)) = k - 1
    OBVIOUS
  <2>3. SubSeq(s, 1, k) \in Seq(T) /\ Len(SubSeq(s, 1, k)) = k
    OBVIOUS
  <2> DEFINE t == Append(SubSeq(s, 1, k - 1), s[k])
  <2>4. t \in Seq(T) /\ Len(t) = k
    BY <2>1, <2>2
  <2>5. \A j \in 1 .. k : t[j] = s[j]
    BY <2>1, <2>2
  <2>6. \A j \in 1 .. k : SubSeq(s, 1, k)[j] = s[j]
    OBVIOUS
  <2> HIDE DEF t
  <2>7. SubSeq(s, 1, k) = t
    BY <2>3, <2>4, <2>5, <2>6, SeqEqual
  <2> QED
    BY <2>1, <2>2, <2>7 DEF t
<1> QED
  BY <1>1, <1>2

LEMMA AppendRange ==
    ASSUME NEW T, NEW s \in Seq(T), NEW x \in T
    PROVE  Range(Append(s, x)) = Range(s) \cup {x}
<1>1. DOMAIN Append(s, x) = 1 .. Len(s) + 1 /\ DOMAIN s = 1 .. Len(s) /\ Len(s) \in Nat
  OBVIOUS
<1>2. \A k \in 1 .. Len(s) + 1 : Append(s, x)[k] = IF k = Len(s) + 1 THEN x ELSE s[k]
  OBVIOUS
<1>3. \A k : k \in 1 .. Len(s) + 1 <=> k \in 1 .. Len(s) \/ k = Len(s) + 1
  BY <1>1
<1>4. \A k \in 1 .. Len(s) : k # Len(s) + 1
  BY <1>1
<1> QED
  BY <1>1, <1>2, <1>3, <1>4 DEF Range

LEMMA WithoutRange ==
    ASSUME NEW T, NEW s \in Seq(T), NEW S
    PROVE  Range(Without(s, S)) = Range(s) \ S
<1> DEFINE W(k) == Without(SubSeq(s, 1, k), S)
           Right == {k \in 0 .. Len(s) : Range(W(k)) = Range(SubSeq(s, 1, k)) \ S}
<1>1. 0 \in Right
  <2>1. W(0) = <<>> /\ SubSeq(s, 1, 0) = <<>>
    BY Prefix, WithoutEmpty
  <2>2. Range(<<>>) = {}
    BY DEF Range
  <2>3. 0 \in 0 .. Len(s)
    OBVIOUS
  <2> HIDE DEF W
  <2> QED
    BY <2>1, <2>2, <2>3
<1>2. ASSUME NEW k \in 1 .. Len(s), k - 1 \in Right PROVE k \in Right
  <2>1. PICK p \in Seq(T) : p = SubSeq(s, 1, k - 1)
    BY Prefix
  <2>2. PICK x \in T : x = s[k] /\ SubSeq(s, 1, k) = Append(p, x)
    BY <2>1, Prefix
  <2>3. Without(p, S) \in Seq(T)
    BY WithoutType
  <2>4. Range(Without(p, S)) = Range(p) \ S
    BY <1>2, <2>1
  <2>5. Range(Append(p, x)) = Range(p) \cup {x}
    BY AppendRange
  <2>6. W(k) = Kept(x, Without(p, S), S)
    BY <2>2, WithoutAppend
  <2>7. Range(Append(Without(p, S), x)) = (Range(p) \ S) \cup {x}
    BY <2>3, <2>4, AppendRange
  <2>8. k \in 0 .. Len(s)
    OBVIOUS
  <2> HIDE DEF W
  <2>9. Range(W(k)) = (Range(p) \cup {x}) \ S
    BY <2>4, <2>6, <2>7 DEF Kept
  <2> QED
    BY <2>2, <2>5, <2>8, <2>9
<1>3. Len(s) \in Nat
  OBVIOUS
<1> HIDE DEF Right
<1>4. 0 .. Len(s) \subseteq Right
  BY <1>1, <1>2, <1>3, UpTo
<1>5. Len(s) \in Right
  BY <1>3, <1>4
<1> QED
  BY <1>5, Prefix DEF Right

LEMMA WithoutConcat ==
    ASSUME NEW T, NEW a \in Seq(T), NEW b \in Seq(T), NEW S
    PROVE  Without(a \o b, S) = Without(a, S) \o Without(b, S)
<1> DEFINE P(k) == SubSeq(b, 1, k)
           Right == {k \in 0 .. Len(b) : Without(a \o P(k), S) = Without(a, S) \o Without(P(k), S)}
<1>0. Without(a, S) \in Seq(T)
  BY WithoutType
<1>1. 0 \in Right
  <2>1. P(0) = <<>> /\ Without(P(0), S) = <<>>
    BY Prefix, WithoutEmpty
  <2>2. a \o <<>> = a /\ Without(a, S) \o <<>> = Without(a, S)
    BY <1>0
  <2>3. 0 \in 0 .. Len(b)
    OBVIOUS
  <2> HIDE DEF P
  <2> QED
    BY <2>1, <2>2, <2>3
<1>2. ASSUME NEW k \in 1 .. Len(b), k - 1 \in Right PROVE k \in Right
  <2>1. PICK p \in Seq(T) : p = P(k - 1)
    BY Prefix
  <2>2. PICK x \in T : x = b[k] /\ P(k) = Append(p, x)
    BY <2>1, Prefix
  <2>3. Without(p, S) \in Seq(T)
    BY WithoutType
  <2>4. Without(a \o p, S) = Without(a, S) \o Without(p, S)
    BY <1>2, <2>1
  <2>5. a \o P(k) = Append(a \o p, x) /\ a \o p \in Seq(T)
    <3>1. a \o Append(p, x) = Append(a \o p, x)
      OBVIOUS
    <3>2. a \o p \in Seq(T)
      OBVIOUS
    <3> QED
      BY <2>2, <3>1, <3>2
  <2>6. Without(a \o P(k), S) = Kept(x, Without(a, S) \o Without(p, S), S)
    BY <2>4, <2>5, WithoutAppend
  <2>7. Without(P(k), S) = Kept(x, Without(p, S), S)
    BY <2>2, WithoutAppend
  <2>8. Without(a, S) \o Append(Without(p, S), x) = Append(Without(a, S) \o Without(p, S), x)
    BY <1>0, <2>3
  <2>9. k \in 0 .. Len(b)
    OBVIOUS
  <2> HIDE DEF P
  <2> QED
    BY <2>6, <2>7, <2>8, <2>9 DEF Kept
<1>3. Len(b) \in Nat
  OBVIOUS
<1> HIDE DEF Right
<1>4. 0 .. Len(b) \subseteq Right
  BY <1>1, <1>2, <1>3, UpTo
<1>5. Len(b) \in Right
  BY <1>3, <1>4
<1> QED
  BY <1>5, Prefix DEF Right

LEMMA WithoutMore ==
    ASSUME NEW T, NEW s \in Seq(T), NEW S, NEW R
    PROVE  Without(s, S \cup R) = Without(Without(s, S), R)
<1> DEFINE P(k) == SubSeq(s, 1, k)
           Right == {k \in 0 .. Len(s) : Without(P(k), S \cup R) = Without(Without(P(k), S), R)}
<1>1. 0 \in Right
  <2>1. P(0) = <<>>
    BY Prefix
  <2> HIDE DEF P
  <2> QED
    BY <2>1, WithoutEmpty
<1>2. ASSUME NEW k \in 1 .. Len(s), k - 1 \in Right PROVE k \in Right
  <2>1. PICK p \in Seq(T) : p = P(k - 1)
    BY Prefix
  <2>2. PICK x \in T : x = s[k] /\ P(k) = Append(p, x)
    BY <2>1, Prefix
  <2>3. Without(p, S) \in Seq(T)
    BY WithoutType
  <2>4. Without(p, S \cup R) = Without(Without(p, S), R)
    BY <1>2, <2>1
  <2>5. Without(P(k), S \cup R) = Kept(x, Without(Without(p, S), R), S \cup R)
    BY <2>2, <2>4, WithoutAppend
  <2>6. Without(P(k), S) = Kept(x, Without(p, S), S)
    BY <2>2, WithoutAppend
  <2>7. Without(Append(Without(p, S), x), R) = Kept(x, Without(Without(p, S), R), R)
    BY <2>3, WithoutAppend
  <2>8. k \in 0 .. Len(s)
    OBVIOUS
  <2> HIDE DEF P
  <2>9. Without(P(k), S \cup R) = Without(Without(P(k), S), R)
    BY <2>5, <2>6, <2>7 DEF Kept
  <2> QED
    BY <2>8, <2>9
<1>3. Len(s) \in Nat
  OBVIOUS
<1> HIDE DEF Right
<1>4. 0 .. Len(s) \subseteq Right
  BY <1>1, <1>2, <1>3, UpTo
<1>5. Len(s) \in Right
  BY <1>3, <1>4
<1> QED
  BY <1>5, Prefix DEF Right

LEMMA WithoutOne ==
    ASSUME NEW T, NEW x \in T, NEW S, x \in S
    PROVE  Without(<<x>>, S) = <<>>
<1>1. <<>> \in Seq(T) /\ <<x>> = Append(<<>>, x)
  OBVIOUS
<1>2. Without(Append(<<>>, x), S) = Kept(x, Without(<<>>, S), S)
  BY <1>1, WithoutAppend
<1> QED
  BY <1>1, <1>2, WithoutEmpty DEF Kept

---------------------------------------------------------------------------
(* Types                                                                   *)

LEMMA MinIn ==
    ASSUME NEW S, S \subseteq Nat, S # {}
    PROVE  Min(S) \in S /\ \A m \in S : Min(S) <= m
BY LeastElement DEF Min

LEMMA HeadTail ==
    ASSUME NEW T, NEW s \in Seq(T), s # <<>>
    PROVE  Head(s) \in T /\ Tail(s) \in Seq(T) /\ Range(s) = {Head(s)} \cup Range(Tail(s))
<1>1. Head(s) \in T /\ Tail(s) \in Seq(T) /\ Len(Tail(s)) = Len(s) - 1 /\ Len(s) \in Nat \ {0}
  OBVIOUS
<1>2. Head(s) = s[1] /\ \A k \in 1 .. Len(s) - 1 : Tail(s)[k] = s[k + 1]
  OBVIOUS
<1>3. DOMAIN s = 1 .. Len(s) /\ DOMAIN Tail(s) = 1 .. Len(s) - 1
  BY <1>1
<1>4. \A k \in 1 .. Len(s) : k = 1 \/ (k - 1 \in 1 .. Len(s) - 1 /\ (k - 1) + 1 = k)
  BY <1>1
<1>5. 1 \in 1 .. Len(s) /\ \A k \in 1 .. Len(s) - 1 : k + 1 \in 1 .. Len(s)
  BY <1>1
<1>6. ASSUME NEW x \in Range(s) PROVE x = s[1] \/ x \in Range(Tail(s))
  <2>1. PICK k \in 1 .. Len(s) : x = s[k]
    BY <1>3 DEF Range
  <2>2. CASE k - 1 \in 1 .. Len(s) - 1 /\ (k - 1) + 1 = k
    <3>1. Tail(s)[k - 1] = x
      BY <1>2, <2>1, <2>2
    <3> QED
      BY <1>3, <2>2, <3>1 DEF Range
  <2> QED
    BY <1>4, <2>1, <2>2
<1>7. {s[1]} \cup Range(Tail(s)) \subseteq Range(s)
  BY <1>2, <1>3, <1>5 DEF Range
<1> QED
  BY <1>1, <1>2, <1>6, <1>7

(* What is read of a file are rows of the file.                            *)
LEMMA ParsedRows ==
    ASSUME NEW file \in Seq(Rows)
    PROVE  Parsed(file) \in Seq(Rows) /\ Range(Parsed(file)) \subseteq Range(file)
<1> DEFINE k == SelectInSeq(file, LAMBDA r : r \in Short)
           read == IF k \in {0, Len(file)} THEN file ELSE SubSeq(file, 1, k + 1)
<1>1. k \in 0 .. Len(file)
  <2> DEFINE I == {j \in 1 .. Len(file) : file[j] \in Short}
  <2>1. k = IF I # {} THEN Min(I) ELSE 0
    BY DEF SelectInSeq
  <2>2. I # {} => Min(I) \in I
    <3>1. I \subseteq Nat
      OBVIOUS
    <3> HIDE DEF I
    <3> QED
      BY <3>1, MinIn
  <2> HIDE DEF k
  <2> QED
    BY <2>1, <2>2
<1>2. Parsed(file) = Without(read, Malformed)
  BY DEF Parsed
<1> HIDE DEF k
<1>3. read \in Seq(Rows) /\ Range(read) \subseteq Range(file)
  <2>1. CASE k \in {0, Len(file)}
    BY <2>1
  <2>2. CASE k \notin {0, Len(file)}
    <3> DEFINE s == SubSeq(file, 1, k + 1)
    <3>1. k + 1 \in 1 .. Len(file)
      BY <1>1, <2>2
    <3>2. s \in Seq(Rows) /\ Len(s) = k + 1 /\ \A j \in 1 .. k + 1 : s[j] = file[j]
      BY <3>1
    <3>3. DOMAIN s = 1 .. k + 1 /\ DOMAIN file = 1 .. Len(file)
      BY <3>2
    <3>4. 1 .. k + 1 \subseteq 1 .. Len(file)
      BY <3>1
    <3> HIDE DEF s
    <3>5. Range(s) \subseteq Range(file)
      BY <3>2, <3>3, <3>4 DEF Range
    <3> QED
      BY <2>2, <3>2, <3>5 DEF s
  <2> QED
    BY <2>1, <2>2
<1> HIDE DEF read
<1> QED
  BY <1>2, <1>3, WithoutType, WithoutRange

(* t is b with n put in front, and no longer at k unless k is past the end. *)
(* (And then n was nowhere in b.)                                          *)
Shifted(b, n, k, t) ==
    /\ k <= Len(b) => b[k] = n
    /\ Len(t) = IF k <= Len(b) THEN Len(b) ELSE Len(b) + 1
    /\ t[1] = n
    /\ \A j \in 2 .. Len(t) : t[j] = IF j <= k THEN b[j - 1] ELSE b[j]
MovedFrom(b, n, k, t) == Shifted(b, n, k, t) /\ (k > Len(b) => n \notin Range(b))

(* s is b without one n.                                                   *)
TakenOut(T, b, n, s) == \E l, r \in Seq(T) : b = (l \o <<n>>) \o r /\ s = l \o r

LEMMA FrontMoves ==
    ASSUME NEW T, NEW b \in Seq(T), NEW k \in 1 .. Len(b), NEW n \in T, b[k] = n
    PROVE  /\ <<n>> \o RemoveAt(b, k) \in Seq(T)
           /\ MovedFrom(b, n, k, <<n>> \o RemoveAt(b, k))
           /\ TakenOut(T, b, n, RemoveAt(b, k))
<1> DEFINE l == SubSeq(b, 1, k - 1)
           r == SubSeq(b, k + 1, Len(b))
           v == l \o r
           t == <<n>> \o v
           u == (l \o <<n>>) \o r
<1>0. Len(b) \in Nat /\ k \in Int /\ 1 <= k /\ k <= Len(b)
  OBVIOUS
<1>1. PICK m \in Nat : m = Len(b)
  OBVIOUS
<1>2. l \in Seq(T) /\ Len(l) = k - 1 /\ \A j \in 1 .. k - 1 : l[j] = b[j]
  OBVIOUS
<1>3. r \in Seq(T) /\ Len(r) = m - k /\ \A j \in 1 .. m - k : r[j] = b[k + j]
  <2>1. k + 1 \in Int /\ m \in Int /\ \A j \in k + 1 .. m : b[j] \in T
    BY <1>0, <1>1
  <2>2. /\ r \in Seq(T)
        /\ Len(r) = IF k + 1 <= m THEN m - (k + 1) + 1 ELSE 0
        /\ \A j \in 1 .. m - (k + 1) + 1 : r[j] = b[(k + 1) + j - 1]
    BY <1>1, <2>1, SubSeqProperties
  <2>3. Len(r) = m - k
    BY <1>0, <1>1, <2>2
  <2>4. \A j \in 1 .. m - k : (k + 1) + j - 1 = k + j /\ j \in 1 .. m - (k + 1) + 1
    BY <1>0, <1>1
  <2> HIDE DEF r
  <2> QED
    BY <2>2, <2>3, <2>4
<1>4. RemoveAt(b, k) = v
  BY DEF RemoveAt
<1> HIDE DEF l, r
<1>5. v \in Seq(T) /\ Len(v) = m - 1
  <2>1. v \in Seq(T) /\ Len(v) = Len(l) + Len(r)
    BY <1>2, <1>3, ConcatProperties
  <2> QED
    BY <1>0, <1>1, <1>2, <1>3, <2>1
<1>6. \A j \in 1 .. m - 1 : v[j] = IF j < k THEN b[j] ELSE b[j + 1]
  <2> TAKE j \in 1 .. m - 1
  <2>1. v[j] = IF j <= Len(l) THEN l[j] ELSE r[j - Len(l)]
    <3>1. j \in 1 .. Len(l) + Len(r)
      BY <1>0, <1>1, <1>2, <1>3
    <3> QED
      BY <1>2, <1>3, <3>1, ConcatProperties
  <2>2. CASE j < k
    <3>1. j \in 1 .. k - 1 /\ j <= k - 1
      BY <1>0, <2>2
    <3> QED
      BY <1>2, <2>1, <2>2, <3>1
  <2>3. CASE ~(j < k)
    <3>1. j - (k - 1) \in 1 .. m - k /\ ~(j <= k - 1) /\ k + (j - (k - 1)) = j + 1
      BY <1>0, <1>1, <2>3
    <3> QED
      BY <1>2, <1>3, <2>1, <2>3, <3>1
  <2> QED
    BY <2>2, <2>3
<1>7. b = u
  <2>1. l \o <<n>> \in Seq(T) /\ Len(l \o <<n>>) = k
    BY <1>0, <1>2
  <2>2. \A j \in 1 .. k : (l \o <<n>>)[j] = b[j]
    <3> TAKE j \in 1 .. k
    <3>1. CASE j = k
      BY <1>0, <1>2, <3>1
    <3>2. CASE j # k
      BY <1>0, <1>2, <3>2
    <3> QED
      BY <3>1, <3>2
  <2> DEFINE w == l \o <<n>>
  <2> HIDE DEF w
  <2>3. /\ w \o r \in Seq(T) /\ Len(w \o r) = Len(w) + Len(r)
        /\ \A j \in 1 .. Len(w) + Len(r) : (w \o r)[j] = IF j <= Len(w) THEN w[j] ELSE r[j - Len(w)]
    <3>1. w \in Seq(T)
      BY <2>1 DEF w
    <3> QED
      BY <1>3, <3>1, ConcatProperties
  <2>4. Len(w) = k /\ \A j \in 1 .. k : w[j] = b[j]
    BY <2>1, <2>2 DEF w
  <2>5. Len(w \o r) = m /\ k + (m - k) = m
    BY <1>0, <1>1, <1>3, <2>3, <2>4
  <2>6. \A j \in 1 .. m : (w \o r)[j] = b[j]
    <3> TAKE j \in 1 .. m
    <3>1. (w \o r)[j] = IF j <= k THEN w[j] ELSE r[j - k]
      BY <1>3, <2>3, <2>4, <2>5
    <3>2. CASE j <= k
      BY <1>0, <2>4, <3>1, <3>2
    <3>3. CASE ~(j <= k)
      <4>1. j - k \in 1 .. m - k /\ k + (j - k) = j
        BY <1>0, <1>1, <3>3
      <4> QED
        BY <1>3, <3>1, <3>3, <4>1
    <3> QED
      BY <3>2, <3>3
  <2>7. b = w \o r
    BY <1>1, <2>3, <2>5, <2>6, SeqEqual
  <2> QED
    BY <2>7 DEF w
<1> HIDE DEF v
<1>8. /\ t \in Seq(T) /\ Len(t) = m /\ t[1] = n
      /\ \A j \in 2 .. m : t[j] = v[j - 1]
  <2>1. t \in Seq(T) /\ t[1] = n /\ Len(t) = Len(v) + 1
    BY <1>5
  <2>2. \A j \in 2 .. Len(v) + 1 : t[j] = v[j - 1]
    BY <1>5
  <2>3. Len(v) + 1 = m
    BY <1>0, <1>1, <1>5
  <2> QED
    BY <2>1, <2>2, <2>3
<1>9. \A j \in 2 .. m : t[j] = IF j <= k THEN b[j - 1] ELSE b[j]
  <2> TAKE j \in 2 .. m
  <2>1. j - 1 \in 1 .. m - 1 /\ (j - 1 < k <=> j <= k) /\ (j - 1) + 1 = j
    BY <1>0, <1>1
  <2> QED
    BY <1>6, <1>8, <2>1
<1> HIDE DEF t, u
<1>10. MovedFrom(b, n, k, t)
  BY <1>0, <1>1, <1>8, <1>9 DEF MovedFrom, Shifted
<1> QED
  BY <1>2, <1>3, <1>4, <1>7, <1>8, <1>10 DEF t, u, v, TakenOut

LEMMA FrontShifted ==
    ASSUME NEW T, NEW b \in Seq(T), NEW n \in T
    PROVE  <<n>> \o b \in Seq(T) /\ Shifted(b, n, Len(b) + 1, <<n>> \o b)
<1> DEFINE t == <<n>> \o b
<1>1. t \in Seq(T) /\ Len(t) = Len(b) + 1 /\ t[1] = n
  OBVIOUS
<1>2. \A j \in 2 .. Len(b) + 1 : t[j] = b[j - 1] /\ j <= Len(b) + 1
  OBVIOUS
<1>3. ~(Len(b) + 1 <= Len(b))
  OBVIOUS
<1> HIDE DEF t
<1>4. Shifted(b, n, Len(b) + 1, t)
  BY <1>1, <1>2, <1>3 DEF Shifted
<1> QED
  BY <1>1, <1>4 DEF t

LEMMA ToFrontMoves ==
    ASSUME bootorder \in Seq(Numbers), NEW n \in Numbers
    PROVE  /\ ToFront(n) \in Seq(Numbers)
           /\ \E k \in 1 .. Len(bootorder) + 1 : MovedFrom(bootorder, n, k, ToFront(n))
           /\ \/ ToFront(n) = <<n>> \o bootorder
              \/ \E s : TakenOut(Numbers, bootorder, n, s) /\ ToFront(n) = <<n>> \o s
<1> DEFINE k == SelectInSeq(bootorder, LAMBDA m : m = n)
<1>0. PICK b \in Seq(Numbers) : b = bootorder
  OBVIOUS
<1> DEFINE I == {j \in 1 .. Len(b) : b[j] = n}
<1>1. k = IF I # {} THEN Min(I) ELSE 0
  BY <1>0 DEF SelectInSeq
<1>2. ToFront(n) = <<n>> \o (IF k = 0 THEN b ELSE RemoveAt(b, k))
  BY <1>0 DEF ToFront
<1> HIDE DEF k
<1>3. CASE I = {}
  <2>1. k = 0
    BY <1>1, <1>3
  <2>2. DOMAIN b = 1 .. Len(b) /\ Len(b) \in Nat
    OBVIOUS
  <2>3. n \notin Range(b)
    BY <1>3, <2>2 DEF Range
  <2> DEFINE t == <<n>> \o b
  <2>4. t \in Seq(Numbers) /\ Shifted(b, n, Len(b) + 1, t)
    BY FrontShifted
  <2>6. Len(b) + 1 \in 1 .. Len(b) + 1
    BY <2>2
  <2>7. ToFront(n) = t
    BY <1>2, <2>1
  <2> HIDE DEF t
  <2>8. MovedFrom(b, n, Len(b) + 1, t)
    BY <2>3, <2>4 DEF MovedFrom
  <2> QED
    BY <1>0, <2>4, <2>6, <2>7, <2>8 DEF t
<1>4. CASE I # {}
  <2>1. k \in I
    <3>1. I \subseteq Nat
      OBVIOUS
    <3> HIDE DEF I
    <3> QED
      BY <1>1, <1>4, <3>1, MinIn
  <2>2. k \in 1 .. Len(b) /\ b[k] = n /\ k # 0 /\ k \in 1 .. Len(b) + 1
    BY <2>1
  <2>3. ToFront(n) = <<n>> \o RemoveAt(b, k)
    BY <1>2, <2>2
  <2> HIDE DEF I
  <2>4. /\ <<n>> \o RemoveAt(b, k) \in Seq(Numbers)
        /\ MovedFrom(b, n, k, <<n>> \o RemoveAt(b, k))
        /\ TakenOut(Numbers, b, n, RemoveAt(b, k))
    <3>1. k \in 1 .. Len(b) /\ b[k] = n
      BY <2>2
    <3> QED
      BY <3>1, FrontMoves
  <2> QED
    BY <1>0, <2>2, <2>3, <2>4
<1> QED
  BY <1>3, <1>4

(* The store and what fallback makes of it.                                *)
StoreOK ==
    /\ entries \in [Numbers -> Rows \cup {Free}] /\ hidden \subseteq Numbers
    /\ order \in Seq(Numbers) /\ bootorder \in Seq(Numbers)
    /\ i \in 0 .. MaxNumber + 1
    /\ first_new_option \in Rows \cup {Free} /\ doubled \subseteq Rows /\ unread \subseteq Numbers

(* What is left to read.                                                   *)
ScanOK ==
    /\ dirs \in Seq(Seq(Seq(Rows))) /\ files \in Seq(Seq(Rows)) /\ todo \in Seq(Rows)
    /\ pc = "add" => todo # <<>>

(* The machine, the step fallback is at, and what is counted.              *)
MachineOK ==
    /\ no_reboot \in BOOLEAN /\ tpm \in BOOLEAN /\ trouble \in BOOLEAN
    /\ disk \in Disks
PcOK     == pc \in {"firmware", "off", "os", "scan", "add", "write", "decide", "try", "start", "countdown"}
CountsOK == faults \in 0 .. MaxFaults /\ losses \in 0 .. MaxLosses
RestOK   == MachineOK /\ PcOK /\ CountsOK

LEMMA TypeParts == TypeOK <=> StoreOK /\ ScanOK /\ RestOK
  BY Zenon DEF TypeOK, StoreOK, ScanOK, RestOK, MachineOK, PcOK, CountsOK

LEMMA EmptySequences == \A T : <<>> \in Seq(T)
  OBVIOUS

LEMMA DiskType == RestOK => disk \in Seq(Seq(Seq(Rows)))
  BY FallbackAssumption DEF RestOK, MachineOK

LEMMA Bounds == MaxNumber \in Nat /\ MaxFaults \in Nat /\ MaxLosses \in Nat
  BY FallbackAssumption

LEMMA TypeInit == Init => StoreOK /\ ScanOK /\ RestOK
<1> SUFFICES ASSUME Init PROVE StoreOK /\ ScanOK /\ RestOK
  OBVIOUS
<1>1. entries \in [Numbers -> Rows \cup {Free}] /\ order \in Seq(Numbers)
  BY FallbackAssumption DEF Init
<1>2. bootorder \in Seq(Numbers) /\ i \in 0 .. MaxNumber + 1
  BY Bounds, EmptySequences DEF Init
<1>3. StoreOK
  BY <1>1, <1>2 DEF Init, StoreOK
<1>4. ScanOK
  BY EmptySequences DEF Init, ScanOK
<1>5. MachineOK /\ PcOK
  BY DEF Init, MachineOK, PcOK
<1>6. CountsOK
  BY Bounds DEF Init, CountsOK
<1> QED
  BY <1>3, <1>4, <1>5, <1>6 DEF RestOK

(* What is in memory when fallback has ended.                              *)
LEMMA LeaveTypes ==
    ASSUME NEW p, Leave(p)
    PROVE  /\ i' \in 0 .. MaxNumber + 1 /\ bootorder' \in Seq(Numbers)
           /\ first_new_option' \in Rows \cup {Free} /\ unread' \subseteq Numbers
           /\ dirs' \in Seq(Seq(Seq(Rows))) /\ files' \in Seq(Seq(Rows)) /\ todo' \in Seq(Rows)
           /\ trouble' \in BOOLEAN
<1>1. i' = 0 /\ 0 \in 0 .. MaxNumber + 1
  BY Bounds DEF Leave
<1>2. bootorder' = <<>> /\ dirs' = <<>> /\ files' = <<>> /\ todo' = <<>>
  BY DEF Leave
<1>3. first_new_option' = Free /\ unread' = {} /\ trouble' = FALSE
  BY DEF Leave
<1> QED
  BY <1>1, <1>2, <1>3, EmptySequences

LEMMA RowType == ScanOK /\ todo # <<>> => Row \in Rows /\ Tail(todo) \in Seq(Rows)
  BY HeadTail DEF ScanOK, Row

LEMMA FirstFree ==
    ASSUME i \in 0 .. MaxNumber + 1, FreeNumbers # {}
    PROVE  /\ Min(FreeNumbers) \in Numbers /\ entries[Min(FreeNumbers)] = Free
           /\ Min(FreeNumbers) \in i .. MaxNumber
<1>1. FreeNumbers \subseteq Nat
  BY FallbackAssumption DEF FreeNumbers
<1>2. Min(FreeNumbers) \in FreeNumbers
  BY <1>1, MinIn
<1> QED
  BY <1>2, FallbackAssumption DEF FreeNumbers, Numbers

(* A number that is tried after i is one, or the first that is none.       *)
LEMMA Tried ==
    ASSUME i \in 0 .. MaxNumber + 1, NEW n \in i .. MaxNumber + 1
    PROVE  n \in 0 .. MaxNumber + 1
  BY FallbackAssumption

(* What becomes of the number add_boot_option arrives at.                  *)
Chosen(n) ==
    \/ /\ FreeNumbers # {} /\ n = Min(FreeNumbers) /\ Works
       /\ entries' = [entries EXCEPT ![n] = Row]
       /\ bootorder' = <<n>> \o bootorder
       /\ UNCHANGED <<hidden, unread>>
    \/ /\ FreeNumbers # {} /\ n = Min(FreeNumbers) /\ Fails
       /\ UNCHANGED <<entries, hidden, bootorder, unread>>
    \/ /\ FreeNumbers # {} /\ n = Min(FreeNumbers) /\ Fails
       /\ entries' = [entries EXCEPT ![n] = Row]
       /\ UNCHANGED <<hidden, bootorder, unread>>
    \/ /\ \A m \in FreeNumbers : n < m
       /\ n \in Numbers /\ Fails
       /\ entries' = [entries EXCEPT ![n] = Row]
       /\ hidden' = hidden \ {n} /\ unread' = unread \cup {n}
       /\ bootorder' = <<n>> \o bootorder

LEMMA AddCases ==
    add_boot_option =>
        \/ /\ FreeNumbers = {} /\ i' = MaxNumber + 1 /\ trouble' = TRUE
           /\ UNCHANGED <<entries, hidden, bootorder, first_new_option, unread, faults>>
        \/ \E n \in i .. MaxNumber + 1 : KeepFirst /\ i' = n /\ Chosen(n)
  BY Zenon DEF add_boot_option, Chosen

LEMMA EntryType ==
    ASSUME StoreOK, NEW n \in Numbers, NEW r \in Rows
    PROVE  [entries EXCEPT ![n] = r] \in [Numbers -> Rows \cup {Free}]
           /\ <<n>> \o bootorder \in Seq(Numbers)
  BY DEF StoreOK

LEMMA StoreStep == ScanOK /\ StoreOK /\ [Next]_vars => StoreOK'
<1> SUFFICES ASSUME ScanOK, StoreOK, [Next]_vars PROVE StoreOK'
  OBVIOUS
<1> USE DEF StoreOK, Goto, nvram, machine, scan, lists, counts
<1>1. CASE FirmwareBoots
  BY <1>1, LeaveTypes DEF FirmwareBoots
<1>2. CASE should_use_fallback
  <2>1. CASE Leave("off")
    BY <1>2, <2>1, LeaveTypes DEF should_use_fallback
  <2>2. CASE ~Leave("off")
    <3>1. /\ UNCHANGED <<entries, hidden, order, doubled>>
          /\ i' = 0 /\ first_new_option' = Free /\ unread' = {}
      BY <1>2, <2>2 DEF should_use_fallback
    <3>2. bootorder' \in {order, <<>>}
      BY <1>2, <2>2 DEF should_use_fallback, set_boot_order
    <3>3. i' \in 0 .. MaxNumber + 1
      BY <3>1, Bounds
    <3> QED
      BY <3>1, <3>2, <3>3, EmptySequences
  <2> QED
    BY <2>1, <2>2
<1>3. CASE PowerOn
  BY <1>3 DEF PowerOn
<1>4. CASE Reboot
  BY <1>4, LeaveTypes DEF Reboot
<1>5. CASE OpenDirectory
  BY <1>5, LeaveTypes DEF OpenDirectory
<1>6. CASE try_boot_csv
  BY <1>6 DEF try_boot_csv
<1>7. CASE add_to_boot_list
  <2>1. Row \in Rows
    BY <1>7, RowType DEF add_to_boot_list
  <2>2. bootorder' \in Seq(Numbers)
    <3>1. (\E n \in Matches(Row) : bootorder' = ToFront(n)) \/ UNCHANGED bootorder
      BY <1>7 DEF add_to_boot_list
    <3> QED
      BY <3>1, ToFrontMoves DEF Matches
  <2>3. /\ UNCHANGED <<entries, hidden, order, i, unread>>
        /\ doubled' = doubled \/ doubled' = doubled \cup {Row}
        /\ first_new_option' = first_new_option \/ first_new_option' = Row
    BY <1>7 DEF add_to_boot_list, KeepFirst
  <2> QED
    BY <2>1, <2>2, <2>3
<1>8. CASE add_boot_option
  <2>1. Row \in Rows /\ UNCHANGED <<order, doubled>>
    BY <1>8, RowType DEF add_boot_option, ScanOK
  <2>2. CASE /\ FreeNumbers = {} /\ i' = MaxNumber + 1 /\ trouble' = TRUE
             /\ UNCHANGED <<entries, hidden, bootorder, first_new_option, unread, faults>>
    BY <2>1, <2>2, FallbackAssumption
  <2>3. CASE \E n \in i .. MaxNumber + 1 :
                /\ KeepFirst /\ i' = n
                /\ \/ n \in Numbers /\ entries' = [entries EXCEPT ![n] = Row]
                   \/ UNCHANGED entries
                /\ bootorder' = bootorder \/ (n \in Numbers /\ bootorder' = <<n>> \o bootorder)
                /\ hidden' \subseteq hidden
                /\ unread' = unread \/ (n \in Numbers /\ unread' = unread \cup {n})
    <3>1. PICK n \in i .. MaxNumber + 1 :
                /\ KeepFirst /\ i' = n
                /\ \/ n \in Numbers /\ entries' = [entries EXCEPT ![n] = Row]
                   \/ UNCHANGED entries
                /\ bootorder' = bootorder \/ (n \in Numbers /\ bootorder' = <<n>> \o bootorder)
                /\ hidden' \subseteq hidden
                /\ unread' = unread \/ (n \in Numbers /\ unread' = unread \cup {n})
      BY <2>3
    <3>2. i' \in 0 .. MaxNumber + 1
      BY <3>1, Tried
    <3>3. first_new_option' \in Rows \cup {Free}
      BY <2>1, <3>1 DEF KeepFirst
    <3>4. n \in Numbers => /\ [entries EXCEPT ![n] = Row] \in [Numbers -> Rows \cup {Free}]
                           /\ <<n>> \o bootorder \in Seq(Numbers)
      BY <2>1, EntryType
    <3>5. entries' \in [Numbers -> Rows \cup {Free}]
      <4>1. CASE n \in Numbers /\ entries' = [entries EXCEPT ![n] = Row]
        BY <3>4, <4>1
      <4>2. CASE UNCHANGED entries
        BY <4>2
      <4> QED
        BY <3>1, <4>1, <4>2
    <3>6. bootorder' \in Seq(Numbers)
      <4>1. CASE n \in Numbers /\ bootorder' = <<n>> \o bootorder
        BY <3>4, <4>1
      <4>2. CASE bootorder' = bootorder
        BY <4>2
      <4> QED
        BY <3>1, <4>1, <4>2
    <3>7. hidden' \subseteq Numbers /\ unread' \subseteq Numbers
      BY <3>1
    <3> QED
      BY <2>1, <3>1, <3>2, <3>3, <3>5, <3>6, <3>7
  <2>4. CASE \E n \in i .. MaxNumber + 1 : KeepFirst /\ i' = n /\ Chosen(n)
    <3>1. PICK n \in i .. MaxNumber + 1 : KeepFirst /\ i' = n /\ Chosen(n)
      BY <2>4
    <3>2. FreeNumbers # {} /\ n = Min(FreeNumbers) => n \in Numbers
      BY FirstFree
    <3>3. /\ \/ n \in Numbers /\ entries' = [entries EXCEPT ![n] = Row]
             \/ UNCHANGED entries
          /\ bootorder' = bootorder \/ (n \in Numbers /\ bootorder' = <<n>> \o bootorder)
          /\ hidden' \subseteq hidden
          /\ unread' = unread \/ (n \in Numbers /\ unread' = unread \cup {n})
      BY <3>1, <3>2 DEF Chosen
    <3> QED
      BY <2>3, <3>1, <3>3
  <2> QED
    BY Zenon, <1>8, <2>2, <2>4, AddCases
<1>9. CASE DeleteOrder
  <2>1. UNCHANGED <<entries, hidden, doubled>> /\ order' \in {order, <<>>}
    BY <1>9 DEF DeleteOrder
  <2>2. CASE Leave("off")
    BY <2>1, <2>2, LeaveTypes, EmptySequences
  <2>3. CASE ~Leave("off")
    <3>1. UNCHANGED lists
      BY <1>9, <2>3 DEF DeleteOrder
    <3> QED
      BY <2>1, <3>1, EmptySequences
  <2> QED
    BY <2>2, <2>3
<1>10. CASE WriteOrder
  BY <1>10, LeaveTypes DEF WriteOrder, NewOrder
<1>11. CASE Decide
  BY <1>11 DEF Decide
<1>12. CASE try_start_first_option
  BY <1>12, LeaveTypes DEF try_start_first_option
<1>13. CASE Countdown
  BY <1>13, LeaveTypes DEF Countdown
<1>14. CASE FirmwareForgets
  BY <1>14, EmptySequences DEF FirmwareForgets
<1>15. CASE PowerLoss
  BY <1>15, LeaveTypes DEF PowerLoss
<1>16. CASE UNCHANGED vars
  BY <1>16 DEF vars
<1> QED
  BY <1>1, <1>2, <1>3, <1>4, <1>5, <1>6, <1>7, <1>8, <1>9, <1>10, <1>11, <1>12, <1>13, <1>14,
      <1>15, <1>16
     DEF Next, Step

LEMMA ScanStep == RestOK /\ ScanOK /\ [Next]_vars => ScanOK'
<1> SUFFICES ASSUME RestOK, ScanOK, [Next]_vars PROVE ScanOK'
  OBVIOUS
<1> USE DEF ScanOK, Leave, Goto, nvram, machine, scan, lists, counts
<1>1. CASE FirmwareBoots
  BY <1>1, EmptySequences DEF FirmwareBoots
<1>2. CASE should_use_fallback
  BY <1>2, EmptySequences, DiskType DEF should_use_fallback
<1>3. CASE PowerOn
  BY <1>3 DEF PowerOn
<1>4. CASE Reboot
  BY <1>4, EmptySequences DEF Reboot
<1>5. CASE OpenDirectory
  <2>1. Head(dirs) \in Seq(Seq(Rows)) /\ Tail(dirs) \in Seq(Seq(Seq(Rows)))
    BY <1>5, HeadTail DEF OpenDirectory
  <2> QED
    BY <1>5, <2>1, EmptySequences DEF OpenDirectory
<1>6. CASE try_boot_csv
  <2>1. Parsed(Head(files)) \in Seq(Rows) /\ Tail(files) \in Seq(Seq(Rows))
    BY <1>6, HeadTail, ParsedRows DEF try_boot_csv
  <2> QED
    BY <1>6, <2>1, EmptySequences DEF try_boot_csv
<1>7. CASE add_to_boot_list
  <2>1. Tail(todo) \in Seq(Rows)
    BY <1>7, RowType DEF add_to_boot_list
  <2> QED
    BY <1>7, <2>1 DEF add_to_boot_list
<1>8. CASE add_boot_option
  <2>1. Tail(todo) \in Seq(Rows)
    BY <1>8, RowType DEF add_boot_option
  <2> QED
    BY <1>8, <2>1 DEF add_boot_option
<1>9. CASE DeleteOrder
  BY <1>9, EmptySequences DEF DeleteOrder
<1>10. CASE WriteOrder
  BY <1>10, EmptySequences DEF WriteOrder
<1>11. CASE Decide
  BY <1>11 DEF Decide
<1>12. CASE try_start_first_option
  BY <1>12, EmptySequences DEF try_start_first_option
<1>13. CASE Countdown
  BY <1>13, EmptySequences DEF Countdown
<1>14. CASE FirmwareForgets
  BY <1>14 DEF FirmwareForgets
<1>15. CASE PowerLoss
  BY <1>15, EmptySequences DEF PowerLoss
<1>16. CASE UNCHANGED vars
  BY <1>16 DEF vars
<1> QED
  BY <1>1, <1>2, <1>3, <1>4, <1>5, <1>6, <1>7, <1>8, <1>9, <1>10, <1>11, <1>12, <1>13, <1>14,
      <1>15, <1>16
     DEF Next, Step

LEMMA MachineStep == MachineOK /\ [Next]_vars => MachineOK'
<1> SUFFICES ASSUME MachineOK, [Next]_vars PROVE MachineOK'
  OBVIOUS
<1> USE DEF MachineOK, Leave, Goto, Works, Fails, nvram, machine, scan, lists, counts
<1>1. CASE FirmwareBoots
  BY <1>1 DEF FirmwareBoots
<1>2. CASE should_use_fallback
  BY <1>2 DEF should_use_fallback, set_boot_order
<1>3. CASE PowerOn
  BY <1>3 DEF PowerOn
<1>4. CASE Reboot
  BY <1>4 DEF Reboot
<1>5. CASE OpenDirectory
  BY <1>5 DEF OpenDirectory
<1>6. CASE try_boot_csv
  BY <1>6 DEF try_boot_csv
<1>7. CASE add_to_boot_list
  BY <1>7 DEF add_to_boot_list, Row, KeepFirst
<1>8. CASE add_boot_option
  BY <1>8 DEF add_boot_option, Row, KeepFirst
<1>9. CASE DeleteOrder
  BY <1>9 DEF DeleteOrder, Scanned
<1>10. CASE WriteOrder
  BY <1>10 DEF WriteOrder, NewOrder
<1>11. CASE Decide
  BY <1>11 DEF Decide
<1>12. CASE try_start_first_option
  BY <1>12 DEF try_start_first_option
<1>13. CASE Countdown
  BY <1>13 DEF Countdown
<1>14. CASE FirmwareForgets
  BY <1>14 DEF FirmwareForgets
<1>15. CASE PowerLoss
  BY <1>15 DEF PowerLoss
<1>16. CASE UNCHANGED vars
  BY <1>16 DEF vars
<1> QED
  BY <1>1, <1>2, <1>3, <1>4, <1>5, <1>6, <1>7, <1>8, <1>9, <1>10, <1>11, <1>12, <1>13, <1>14,
      <1>15, <1>16
     DEF Next, Step

LEMMA PcStep == PcOK /\ [Next]_vars => PcOK'
<1> SUFFICES ASSUME PcOK, [Next]_vars PROVE PcOK'
  OBVIOUS
<1> USE DEF PcOK, Leave, Goto, Works, Fails, nvram, machine, scan, lists, counts
<1>1. CASE FirmwareBoots
  BY <1>1 DEF FirmwareBoots
<1>2. CASE should_use_fallback
  BY <1>2 DEF should_use_fallback, set_boot_order
<1>3. CASE PowerOn
  BY <1>3 DEF PowerOn
<1>4. CASE Reboot
  BY <1>4 DEF Reboot
<1>5. CASE OpenDirectory
  BY <1>5 DEF OpenDirectory
<1>6. CASE try_boot_csv
  BY <1>6 DEF try_boot_csv
<1>7. CASE add_to_boot_list
  BY <1>7 DEF add_to_boot_list, Row, KeepFirst
<1>8. CASE add_boot_option
  BY <1>8 DEF add_boot_option, Row, KeepFirst
<1>9. CASE DeleteOrder
  BY <1>9 DEF DeleteOrder, Scanned
<1>10. CASE WriteOrder
  BY <1>10 DEF WriteOrder, NewOrder
<1>11. CASE Decide
  BY <1>11 DEF Decide
<1>12. CASE try_start_first_option
  BY <1>12 DEF try_start_first_option
<1>13. CASE Countdown
  BY <1>13 DEF Countdown
<1>14. CASE FirmwareForgets
  BY <1>14 DEF FirmwareForgets
<1>15. CASE PowerLoss
  BY <1>15 DEF PowerLoss
<1>16. CASE UNCHANGED vars
  BY <1>16 DEF vars
<1> QED
  BY <1>1, <1>2, <1>3, <1>4, <1>5, <1>6, <1>7, <1>8, <1>9, <1>10, <1>11, <1>12, <1>13, <1>14,
      <1>15, <1>16
     DEF Next, Step

LEMMA CountsStep == CountsOK /\ [Next]_vars => CountsOK'
<1> SUFFICES ASSUME CountsOK, [Next]_vars PROVE CountsOK'
  OBVIOUS
<1> USE Bounds DEF CountsOK, Leave, Goto, Works, Fails, nvram, machine, scan, lists, counts
<1>1. CASE FirmwareBoots
  BY <1>1 DEF FirmwareBoots
<1>2. CASE should_use_fallback
  BY <1>2 DEF should_use_fallback, set_boot_order
<1>3. CASE PowerOn
  BY <1>3 DEF PowerOn
<1>4. CASE Reboot
  BY <1>4 DEF Reboot
<1>5. CASE OpenDirectory
  BY <1>5 DEF OpenDirectory
<1>6. CASE try_boot_csv
  BY <1>6 DEF try_boot_csv
<1>7. CASE add_to_boot_list
  BY <1>7 DEF add_to_boot_list, Row, KeepFirst
<1>8. CASE add_boot_option
  <2>1. UNCHANGED losses
    BY <1>8 DEF add_boot_option
  <2>2. UNCHANGED faults \/ Works \/ Fails
    BY Zenon, <1>8, AddCases DEF Chosen
  <2> QED
    BY <2>1, <2>2
<1>9. CASE DeleteOrder
  BY <1>9 DEF DeleteOrder, Scanned
<1>10. CASE WriteOrder
  BY <1>10 DEF WriteOrder, NewOrder
<1>11. CASE Decide
  BY <1>11 DEF Decide
<1>12. CASE try_start_first_option
  BY <1>12 DEF try_start_first_option
<1>13. CASE Countdown
  BY <1>13 DEF Countdown
<1>14. CASE FirmwareForgets
  BY <1>14 DEF FirmwareForgets
<1>15. CASE PowerLoss
  BY <1>15 DEF PowerLoss
<1>16. CASE UNCHANGED vars
  BY <1>16 DEF vars
<1> QED
  BY <1>1, <1>2, <1>3, <1>4, <1>5, <1>6, <1>7, <1>8, <1>9, <1>10, <1>11, <1>12, <1>13, <1>14,
      <1>15, <1>16
     DEF Next, Step

LEMMA RestStep == RestOK /\ [Next]_vars => RestOK'
  BY MachineStep, PcStep, CountsStep DEF RestOK

LEMMA TypeStep == TypeOK /\ [Next]_vars => TypeOK'
<1> SUFFICES ASSUME TypeOK, [Next]_vars PROVE TypeOK'
  OBVIOUS
<1>1. StoreOK /\ ScanOK /\ RestOK
  BY TypeParts
<1>2. StoreOK' /\ ScanOK' /\ RestOK'
  BY <1>1, StoreStep, ScanStep, RestStep
<1> QED
  BY <1>2 DEF TypeOK, StoreOK, ScanOK, RestOK, MachineOK, PcOK, CountsOK

(* Every variable keeps its type.                                          *)
THEOREM FallbackTypeCorrect == Spec => []TypeOK
<1>1. Init => TypeOK
  BY TypeInit, TypeParts
<1> QED
  BY <1>1, TypeStep, PTL DEF Spec
---------------------------------------------------------------------------
(* No second entry                                                         *)

(* Entries only change when one is made or forgotten; a row whose entry is *)
(* to be made has none yet, or it could not be looked up.                  *)
LookedUp == pc = "add" => Matches(Row) = {} \/ Row \in doubled
NoDuplicateInv == NoDuplicateEntries /\ LookedUp

Forgotten == pc = "os" /\ \E n \in Numbers : entries' = [entries EXCEPT ![n] = Free]
EntriesChange ==
    /\ disk' = disk /\ doubled \subseteq doubled'
    /\ entries' = entries \/ add_boot_option \/ Forgotten

LEMMA EntriesStep == [Next]_vars => EntriesChange
<1> SUFFICES ASSUME [Next]_vars PROVE EntriesChange
  OBVIOUS
<1>1. CASE FirmwareBoots
  BY <1>1 DEF FirmwareBoots, EntriesChange, nvram, machine
<1>2. CASE should_use_fallback
  BY <1>2 DEF should_use_fallback, EntriesChange, nvram, machine
<1>3. CASE PowerOn
  BY <1>3 DEF PowerOn, EntriesChange, nvram, machine
<1>4. CASE Reboot
  BY <1>4 DEF Reboot, EntriesChange, nvram, machine
<1>5. CASE OpenDirectory
  BY <1>5 DEF OpenDirectory, EntriesChange, nvram, machine
<1>6. CASE try_boot_csv
  BY <1>6 DEF try_boot_csv, EntriesChange, nvram, machine
<1>7. CASE add_to_boot_list
  BY <1>7 DEF add_to_boot_list, EntriesChange, nvram, machine
<1>8. CASE add_boot_option
  BY <1>8 DEF add_boot_option, EntriesChange, machine
<1>9. CASE DeleteOrder
  BY <1>9 DEF DeleteOrder, EntriesChange, nvram, machine
<1>10. CASE WriteOrder
  BY <1>10 DEF WriteOrder, EntriesChange, nvram, machine
<1>11. CASE Decide
  BY <1>11 DEF Decide, EntriesChange, nvram, machine
<1>12. CASE try_start_first_option
  BY <1>12 DEF try_start_first_option, EntriesChange, nvram, machine
<1>13. CASE Countdown
  BY <1>13 DEF Countdown, EntriesChange, nvram, machine
<1>14. CASE FirmwareForgets
  BY <1>14 DEF FirmwareForgets, Forgotten, EntriesChange, machine
<1>15. CASE PowerLoss
  BY <1>15 DEF PowerLoss, EntriesChange, nvram, machine
<1>16. CASE UNCHANGED vars
  BY <1>16 DEF vars, nvram, machine, EntriesChange
<1> QED
  BY <1>1, <1>2, <1>3, <1>4, <1>5, <1>6, <1>7, <1>8, <1>9, <1>10, <1>11, <1>12, <1>13, <1>14,
      <1>15, <1>16
     DEF Next, Step

LEMMA AddReached == [Next]_vars => (pc' = "add" => UNCHANGED vars \/ add_to_boot_list)
<1> SUFFICES ASSUME [Next]_vars PROVE (pc' = "add" => UNCHANGED vars \/ add_to_boot_list)
  OBVIOUS
<1> USE DEF Leave, Goto
<1>1. CASE FirmwareBoots
  BY <1>1 DEF FirmwareBoots
<1>2. CASE should_use_fallback
  BY <1>2 DEF should_use_fallback
<1>3. CASE PowerOn
  BY <1>3 DEF PowerOn
<1>4. CASE Reboot
  BY <1>4 DEF Reboot
<1>5. CASE OpenDirectory
  BY <1>5 DEF OpenDirectory
<1>6. CASE try_boot_csv
  BY <1>6 DEF try_boot_csv
<1>7. CASE add_to_boot_list
  BY <1>7
<1>8. CASE add_boot_option
  BY <1>8 DEF add_boot_option
<1>9. CASE DeleteOrder
  BY <1>9 DEF DeleteOrder
<1>10. CASE WriteOrder
  BY <1>10 DEF WriteOrder
<1>11. CASE Decide
  BY <1>11 DEF Decide
<1>12. CASE try_start_first_option
  BY <1>12 DEF try_start_first_option
<1>13. CASE Countdown
  BY <1>13 DEF Countdown
<1>14. CASE FirmwareForgets
  BY <1>14 DEF FirmwareForgets
<1>15. CASE PowerLoss
  BY <1>15 DEF PowerLoss
<1>16. CASE UNCHANGED vars
  BY <1>16 DEF vars
<1> QED
  BY <1>1, <1>2, <1>3, <1>4, <1>5, <1>6, <1>7, <1>8, <1>9, <1>10, <1>11, <1>12, <1>13, <1>14,
      <1>15, <1>16
     DEF Next, Step

LEMMA RowsOfType ==
    ASSUME NEW d \in Seq(Seq(Seq(Rows)))
    PROVE  RowsOf(d) \subseteq Rows
<1> SUFFICES ASSUME NEW e \in Range(d), NEW f \in Range(e), NEW r \in Range(f) PROVE r \in Rows
  BY DEF RowsOf
<1>1. e \in Seq(Seq(Rows))
  BY DEF Range
<1>2. f \in Seq(Rows)
  BY <1>1 DEF Range
<1> QED
  BY <1>2 DEF Range

LEMMA OnDiskType == RestOK => OnDisk \subseteq Rows
  BY DiskType, RowsOfType DEF OnDisk

LEMMA LookedUpStep == LookedUp /\ [Next]_vars => LookedUp'
<1> SUFFICES ASSUME LookedUp, [Next]_vars, pc' = "add" PROVE (Matches(Row) = {})' \/ Row' \in doubled'
  BY DEF LookedUp
<1>1. CASE UNCHANGED vars
  BY <1>1 DEF LookedUp, vars, nvram, scan, Matches, Row
<1>2. CASE add_to_boot_list
  <2>1. pc = "scan" /\ UNCHANGED entries
    BY <1>2 DEF add_to_boot_list, nvram
  <2>2. todo' = todo /\ (Matches(Row) = {} \/ doubled' = doubled \cup {Row})
    BY <1>2, <2>1 DEF add_to_boot_list, Goto
  <2> QED
    BY <2>1, <2>2 DEF Matches, Row
<1> QED
  BY <1>1, <1>2, AddReached

LEMMA NoDuplicateStep ==
    StoreOK /\ ScanOK /\ RestOK /\ NoDuplicateInv /\ [Next]_vars => NoDuplicateEntries'
<1> SUFFICES ASSUME StoreOK, ScanOK, RestOK, NoDuplicateInv, [Next]_vars,
                    NEW m \in Numbers, NEW n \in Numbers,
                    entries'[m] = entries'[n], entries'[m] \in OnDisk' \ doubled'
             PROVE  m = n
  BY DEF NoDuplicateEntries
<1>1. EntriesChange
  BY EntriesStep
<1>2. OnDisk' = OnDisk /\ entries'[m] \notin doubled /\ entries'[m] \in OnDisk
  BY <1>1 DEF EntriesChange, OnDisk
<1>3. entries'[m] # Free
  BY <1>2, OnDiskType, FallbackAssumption
<1>4. ASSUME entries[m] = entries'[m], entries[n] = entries'[n] PROVE m = n
  BY <1>2, <1>4 DEF NoDuplicateInv, NoDuplicateEntries
<1>5. CASE entries' = entries
  BY <1>4, <1>5
<1>6. CASE Forgotten
  <2>1. PICK k \in Numbers : entries' = [entries EXCEPT ![k] = Free]
    BY <1>6 DEF Forgotten
  <2>2. m # k /\ n # k
    BY <1>3, <2>1 DEF StoreOK
  <2> QED
    BY <1>4, <2>1, <2>2
<1>7. CASE add_boot_option /\ entries' # entries
  <2>1. pc = "add"
    BY <1>7 DEF add_boot_option
  <2>2. PICK k \in Numbers : entries' = [entries EXCEPT ![k] = Row]
    <3>1. PICK k \in i .. MaxNumber + 1 : Chosen(k)
      BY <1>7, AddCases
    <3>2. (FreeNumbers # {} /\ k = Min(FreeNumbers)) \/ k \in Numbers
      BY <3>1 DEF Chosen
    <3>3. k \in Numbers
      BY <3>2, FirstFree DEF StoreOK
    <3>4. entries' = [entries EXCEPT ![k] = Row]
      BY <1>7, <3>1 DEF Chosen
    <3> QED
      BY <3>3, <3>4
  <2>3. Matches(Row) = {} \/ Row \in doubled
    BY <2>1 DEF NoDuplicateInv, LookedUp
  <2>4. entries'[m] = IF m = k THEN Row ELSE entries[m]
    BY <2>2 DEF StoreOK
  <2>5. entries'[n] = IF n = k THEN Row ELSE entries[n]
    BY <2>2 DEF StoreOK
  <2>6. CASE Row \in doubled
    BY <1>2, <1>4, <2>4, <2>5, <2>6
  <2>7. CASE Matches(Row) = {}
    BY <1>4, <2>4, <2>5, <2>7 DEF Matches
  <2> QED
    BY <2>3, <2>6, <2>7
<1> QED
  BY <1>1, <1>5, <1>6, <1>7 DEF EntriesChange

(* When no row of a disk had two entries at first, none ever has, unless   *)
(* the one it had could not be looked up: whatever is cut off, fails or is *)
(* masked, and however often fallback runs.                                *)
THEOREM NoSecondEntry == FoundOnce => (Spec => []NoDuplicateEntries)
<1> SUFFICES ASSUME FoundOnce PROVE Spec => []NoDuplicateEntries
  OBVIOUS
<1>1. Init => TypeOK /\ NoDuplicateInv
  <2> SUFFICES ASSUME Init PROVE TypeOK /\ NoDuplicateInv
    OBVIOUS
  <2>1. TypeOK
    BY TypeInit, TypeParts
  <2>2. NoDuplicateEntries
    BY DEF Init, FoundOnce, NoDuplicateEntries, OnDisk
  <2>3. LookedUp
    BY DEF Init, LookedUp
  <2> QED
    BY <2>1, <2>2, <2>3 DEF NoDuplicateInv
<1>2. TypeOK /\ NoDuplicateInv /\ [Next]_vars => (TypeOK /\ NoDuplicateInv)'
  <2> SUFFICES ASSUME TypeOK, NoDuplicateInv, [Next]_vars PROVE TypeOK' /\ NoDuplicateInv'
    OBVIOUS
  <2>1. StoreOK /\ ScanOK /\ RestOK
    BY TypeParts
  <2>2. NoDuplicateEntries'
    BY <2>1, NoDuplicateStep
  <2>3. LookedUp'
    BY LookedUpStep DEF NoDuplicateInv
  <2> QED
    BY <2>2, <2>3, TypeStep DEF NoDuplicateInv
<1>3. NoDuplicateInv => NoDuplicateEntries
  BY DEF NoDuplicateInv
<1> QED
  BY <1>1, <1>2, <1>3, PTL DEF Spec
---------------------------------------------------------------------------
(* An entry for every row, in front                                        *)

Scanning == pc \in {"scan", "add"}

(* The rows still to be handled, and those that have their entry in s      *)
(* with none before it for anything else.                                  *)
Pending(r) ==
    \/ r \in Range(todo)
    \/ files # <<>> /\ r \in Range(Parsed(Head(files)))
    \/ \E d \in Range(dirs) \ {<<>>} : r \in Range(Parsed(Head(d)))
Placed(r, s) ==
    \E k \in DOMAIN s : /\ entries[s[k]] = r
                        /\ \A j \in 1 .. k - 1 : entries[s[j]] \in Wanted

Reading == /\ Range(dirs) \subseteq Range(disk)
           /\ files = <<>> \/ files \in Range(disk)
           /\ Range(todo) \subseteq Wanted
           /\ \A r \in Wanted : Pending(r) \/ Placed(r, bootorder)

(* Nothing is forgotten between the disk and BootOrder.                    *)
RowsInv == ~trouble =>
    /\ Scanning => Reading
    /\ pc = "write" => \A r \in Wanted : Placed(r, bootorder)
    /\ Updated => \A r \in Wanted : Placed(r, order)

LEMMA WantedRows == RestOK => Wanted \subseteq Rows
<1> SUFFICES ASSUME RestOK, NEW d \in Range(disk) \ {<<>>}, NEW r \in Range(Parsed(Head(d)))
             PROVE  r \in Rows
  BY DEF Wanted
<1>1. d \in Seq(Seq(Rows))
  BY DiskType DEF Range
<1>2. Parsed(Head(d)) \in Seq(Rows)
  BY <1>1, HeadTail, ParsedRows
<1> QED
  BY <1>2 DEF Range

LEMMA WantedStays == [Next]_vars => Wanted' = Wanted
  BY EntriesStep DEF EntriesChange, Wanted

(* What has its place keeps it when a number of a wanted row goes in front.*)
LEMMA ShiftedPlaces ==
    ASSUME NEW b \in Seq(Numbers), NEW t \in Seq(Numbers), NEW n \in Numbers,
           NEW k \in 1 .. Len(b) + 1, Shifted(b, n, k, t), entries[n] \in Wanted,
           NEW r, Placed(r, b)
    PROVE  Placed(r, t)
<1>1. PICK p \in 1 .. Len(b) : entries[b[p]] = r /\ \A j \in 1 .. p - 1 : entries[b[j]] \in Wanted
  BY DEF Placed
<1>2. /\ k <= Len(b) => b[k] = n
      /\ Len(t) = IF k <= Len(b) THEN Len(b) ELSE Len(b) + 1
      /\ t[1] = n
      /\ \A j \in 2 .. Len(t) : t[j] = IF j <= k THEN b[j - 1] ELSE b[j]
  BY DEF Shifted
<1>3. DOMAIN t = 1 .. Len(t) /\ Len(b) \in Nat /\ Len(t) \in Nat
  OBVIOUS
<1>4. CASE p = k
  <2>1. 1 \in 1 .. Len(t) /\ entries[t[1]] = r /\ 1 .. 1 - 1 = {}
    BY <1>1, <1>2, <1>3, <1>4
  <2> QED
    BY <1>3, <2>1 DEF Placed
<1>5. CASE p < k
  <2>1. p + 1 \in 2 .. Len(t) /\ p + 1 <= k /\ (p + 1) - 1 = p
    BY <1>2, <1>3, <1>5
  <2>2. entries[t[p + 1]] = r /\ p + 1 \in 1 .. Len(t)
    BY <1>1, <1>2, <2>1
  <2>3. ASSUME NEW j \in 1 .. (p + 1) - 1 PROVE entries[t[j]] \in Wanted
    <3>1. CASE j = 1
      BY <1>2, <3>1
    <3>2. CASE j # 1
      <4>1. j \in 2 .. Len(t) /\ j <= k /\ j - 1 \in 1 .. p - 1
        BY <2>1, <3>2
      <4> QED
        BY <1>1, <1>2, <4>1
    <3> QED
      BY <3>1, <3>2
  <2> QED
    BY <1>3, <2>2, <2>3 DEF Placed
<1>6. CASE k < p
  <2>1. p \in 2 .. Len(t) /\ ~(p <= k)
    BY <1>2, <1>3, <1>6
  <2>2. entries[t[p]] = r /\ p \in 1 .. Len(t)
    BY <1>1, <1>2, <2>1
  <2>3. ASSUME NEW j \in 1 .. p - 1 PROVE entries[t[j]] \in Wanted
    <3>1. CASE j = 1
      BY <1>2, <3>1
    <3>2. CASE j # 1
      <4>1. j \in 2 .. Len(t) /\ j - 1 \in 1 .. p - 1
        BY <2>1, <3>2
      <4> QED
        BY <1>1, <1>2, <4>1
    <3> QED
      BY <3>1, <3>2
  <2> QED
    BY <1>3, <2>2, <2>3 DEF Placed
<1> QED
  BY <1>1, <1>4, <1>5, <1>6

LEMMA FirstPlaced ==
    ASSUME NEW t, NEW n, 1 \in DOMAIN t, t[1] = n
    PROVE  Placed(entries[n], t)
<1>1. 1 .. 1 - 1 = {}
  OBVIOUS
<1> QED
  BY <1>1 DEF Placed

LEMMA NothingPending ==
    ASSUME dirs = <<>>, files = <<>>, todo = <<>>
    PROVE  \A r : ~Pending(r)
<1>1. Range(<<>>) = {}
  BY DEF Range
<1> QED
  BY <1>1 DEF Pending

LEMMA NothingPlaced == \A r : ~Placed(r, <<>>)
  BY DEF Placed

LEMMA StartReads ==
    ASSUME should_use_fallback, RestOK
    PROVE  RowsInv'
<1>1. CASE Leave("off")
  BY <1>1 DEF Leave, RowsInv, Updated, Scanning
<1>2. CASE ~Leave("off")
  <2>1. pc' = "scan" /\ dirs' = disk /\ files' = <<>> /\ todo' = <<>> /\ disk' = disk
    BY <1>2 DEF should_use_fallback, Goto, machine
  <2>2. Wanted' = Wanted
    BY <2>1 DEF Wanted
  <2>3. \A r \in Wanted : Pending(r)'
    BY <2>1 DEF Wanted, Pending
  <2>4. Range(<<>>) = {}
    BY DEF Range
  <2>5. Reading'
    BY <2>1, <2>2, <2>3, <2>4 DEF Reading
  <2> QED
    BY <2>1, <2>5 DEF RowsInv, Updated, Scanning
<1> QED
  BY <1>1, <1>2

LEMMA DirectoryKept ==
    ASSUME OpenDirectory, ScanOK, RowsInv, Wanted' = Wanted
    PROVE  RowsInv'
<1>1. CASE Leave("off")
  BY <1>1 DEF Leave, RowsInv, Updated, Scanning
<1>2. CASE Fails /\ UNCHANGED pc
  BY <1>2 DEF OpenDirectory, Fails, RowsInv
<1>3. CASE ~Leave("off") /\ ~(Fails /\ UNCHANGED pc)
  <2>1. /\ pc = "scan" /\ dirs # <<>> /\ files = <<>> /\ todo = <<>>
        /\ dirs' = Tail(dirs) /\ files' = Head(dirs) /\ trouble' = trouble
        /\ UNCHANGED <<pc, todo, lists, nvram, machine>>
    BY <1>3 DEF OpenDirectory, Works
  <2> SUFFICES ASSUME ~trouble PROVE Reading'
    BY <2>1 DEF RowsInv, Updated, Scanning
  <2>2. Reading
    BY <2>1 DEF RowsInv, Scanning
  <2>3. Range(dirs) = {Head(dirs)} \cup Range(dirs')
    BY <2>1, HeadTail DEF ScanOK
  <2>4. Range(<<>>) = {}
    BY DEF Range
  <2>5. \A r \in Wanted : Pending(r) => Pending(r)'
    BY <2>1, <2>3, <2>4 DEF Pending
  <2>6. \A r \in Wanted : Placed(r, bootorder) => Placed(r, bootorder)'
    BY <2>1 DEF Placed, nvram, lists
  <2> QED
    BY <2>1, <2>2, <2>3, <2>5, <2>6 DEF Reading, machine
<1> QED
  BY <1>1, <1>2, <1>3

LEMMA FileKept ==
    ASSUME try_boot_csv, RowsInv, Wanted' = Wanted
    PROVE  RowsInv'
<1>1. CASE Fails
  BY <1>1 DEF Fails, RowsInv
<1>2. CASE ~Fails
  <2>1. /\ pc = "scan" /\ files # <<>> /\ todo = <<>> /\ trouble' = trouble
        /\ todo' = Parsed(Head(files)) /\ files' = <<>>
        /\ UNCHANGED <<pc, dirs, lists, nvram, machine>>
    BY <1>2 DEF try_boot_csv, Works
  <2> SUFFICES ASSUME ~trouble PROVE Reading'
    BY <2>1 DEF RowsInv, Updated, Scanning
  <2>2. Reading
    BY <2>1 DEF RowsInv, Scanning
  <2>3. Range(<<>>) = {}
    BY DEF Range
  <2>4. \A r \in Wanted : Pending(r) => Pending(r)'
    BY <2>1, <2>3 DEF Pending
  <2>5. \A r \in Wanted : Placed(r, bootorder) => Placed(r, bootorder)'
    BY <2>1 DEF Placed, nvram, lists
  <2>6. Range(todo') \subseteq Wanted
    BY <2>1, <2>2 DEF Reading, Wanted
  <2> QED
    BY <2>1, <2>2, <2>4, <2>5, <2>6 DEF Reading, machine
<1> QED
  BY <1>1, <1>2

LEMMA FoundKept ==
    ASSUME add_to_boot_list, StoreOK, ScanOK, RowsInv, Wanted' = Wanted
    PROVE  RowsInv'
<1>1. CASE Fails
  BY <1>1 DEF Fails, RowsInv
<1>2. CASE ~Fails /\ pc' = "add"
  <2>1. /\ pc = "scan" /\ UNCHANGED <<todo, bootorder, nvram, machine, dirs, files, trouble>>
    BY <1>2 DEF add_to_boot_list, Works
  <2> SUFFICES ASSUME ~trouble PROVE Reading'
    BY <1>2, <2>1 DEF RowsInv, Updated, Scanning
  <2>2. Reading
    BY <2>1 DEF RowsInv, Scanning
  <2> QED
    BY <2>1, <2>2 DEF Reading, Pending, Placed, nvram, machine
<1>3. CASE ~Fails /\ pc' # "add"
  <2>1. /\ pc = "scan" /\ todo # <<>> /\ todo' = Tail(todo)
        /\ UNCHANGED <<pc, nvram, machine, dirs, files, trouble>>
    BY <1>3 DEF add_to_boot_list, Works, Goto
  <2>2. PICK n \in Matches(Row) : bootorder' = ToFront(n)
    BY <1>3 DEF add_to_boot_list, Goto
  <2> SUFFICES ASSUME ~trouble PROVE Reading'
    BY <2>1 DEF RowsInv, Updated, Scanning
  <2>3. Reading
    BY <2>1 DEF RowsInv, Scanning
  <2>4. Range(todo) = {Row} \cup Range(todo')
    BY <2>1, HeadTail DEF ScanOK, Row
  <2>5. n \in Numbers /\ entries[n] = Row /\ Row \in Wanted
    BY <2>2, <2>3, <2>4 DEF Matches, Reading
  <2>6. PICK k \in 1 .. Len(bootorder) + 1 : MovedFrom(bootorder, n, k, bootorder')
    BY <2>2, <2>5, ToFrontMoves DEF StoreOK
  <2>7. bootorder' \in Seq(Numbers) /\ bootorder \in Seq(Numbers)
    BY <2>2, <2>5, ToFrontMoves DEF StoreOK
  <2>8. Shifted(bootorder, n, k, bootorder')
    BY <2>6 DEF MovedFrom
  <2>9. \A r : Placed(r, bootorder) => Placed(r, bootorder')
    BY <2>5, <2>7, <2>8, ShiftedPlaces
  <2>10. 1 \in DOMAIN bootorder' /\ bootorder'[1] = n
    <3>1. Len(bootorder') >= 1
      BY <2>7, <2>8 DEF Shifted
    <3> QED
      BY <2>7, <2>8, <3>1 DEF Shifted
  <2>11. Placed(Row, bootorder')
    BY <2>5, <2>10, FirstPlaced
  <2>12. ASSUME NEW r, Placed(r, bootorder') PROVE Placed(r, bootorder)'
    BY <2>1, <2>12 DEF Placed, nvram
  <2>13. \A r : Pending(r) => Pending(r)' \/ r = Row
    BY <2>1, <2>4 DEF Pending
  <2> QED
    BY <2>1, <2>3, <2>4, <2>9, <2>11, <2>12, <2>13 DEF Reading, machine
<1> QED
  BY <1>1, <1>2, <1>3

LEMMA EntryKept ==
    ASSUME add_boot_option, StoreOK, ScanOK, RestOK, RowsInv, Wanted' = Wanted
    PROVE  RowsInv'
<1>1. CASE trouble'
  BY <1>1 DEF RowsInv
<1>2. CASE ~trouble'
  <2>1. /\ pc = "add" /\ pc' = "scan" /\ todo # <<>> /\ todo' = Tail(todo)
        /\ UNCHANGED <<dirs, files, machine>>
    BY DEF add_boot_option, Goto, ScanOK
  <2>2. PICK n \in i .. MaxNumber + 1 : Chosen(n)
    BY <1>2, AddCases
  <2>3. /\ FreeNumbers # {} /\ n = Min(FreeNumbers) /\ trouble' = trouble
        /\ entries' = [entries EXCEPT ![n] = Row]
        /\ bootorder' = <<n>> \o bootorder
    BY <1>2, <2>2 DEF Chosen, Works, Fails
  <2>4. n \in Numbers /\ entries[n] = Free
    BY <2>3, FirstFree DEF StoreOK
  <2> SUFFICES ASSUME ~trouble PROVE Reading'
    BY <2>1, <2>3 DEF RowsInv, Updated, Scanning
  <2>5. Reading
    BY <2>1 DEF RowsInv, Scanning
  <2>6. Range(todo) = {Row} \cup Range(todo')
    BY <2>1, HeadTail DEF ScanOK, Row
  <2>7. Row \in Wanted /\ Free \notin Wanted
    BY <2>5, <2>6, WantedRows, FallbackAssumption DEF Reading
  <2>8. /\ bootorder \in Seq(Numbers) /\ bootorder' \in Seq(Numbers)
        /\ Shifted(bootorder, n, Len(bootorder) + 1, bootorder')
    BY <2>3, <2>4, FrontShifted DEF StoreOK
  <2>9. entries'[n] = Row /\ \A m \in Numbers : m # n => entries'[m] = entries[m]
    BY <2>3, <2>4 DEF StoreOK
  <2>10. ASSUME NEW r \in Wanted, Placed(r, bootorder)
         PROVE  \E k \in DOMAIN bootorder : /\ entries'[bootorder[k]] = r
                                            /\ \A j \in 1 .. k - 1 : entries'[bootorder[j]] \in Wanted
    <3>1. PICK k \in DOMAIN bootorder : /\ entries[bootorder[k]] = r
                                        /\ \A j \in 1 .. k - 1 : entries[bootorder[j]] \in Wanted
      BY <2>10 DEF Placed
    <3>2. k \in 1 .. Len(bootorder) /\ bootorder[k] \in Numbers
      BY <2>8
    <3>3. \A j \in 1 .. k - 1 : bootorder[j] \in Numbers
      BY <2>8, <3>2
    <3> QED
      BY <2>4, <2>7, <2>9, <3>1, <3>2, <3>3
  <2>11. ASSUME NEW r \in Wanted, Placed(r, bootorder) PROVE Placed(r, bootorder)'
    <3>1. PICK k \in DOMAIN bootorder : /\ entries'[bootorder[k]] = r
                                        /\ \A j \in 1 .. k - 1 : entries'[bootorder[j]] \in Wanted
      BY <2>10, <2>11
    <3>2. k \in 1 .. Len(bootorder) /\ Len(bootorder) \in Nat
      BY <2>8
    <3>3. Len(bootorder') = Len(bootorder) + 1 /\ DOMAIN bootorder' = 1 .. Len(bootorder')
      BY <2>8, <3>2 DEF Shifted
    <3>4. \A j \in 2 .. Len(bootorder) + 1 : bootorder'[j] = bootorder[j - 1]
      BY <2>8, <3>2, <3>3 DEF Shifted
    <3>5. k + 1 \in DOMAIN bootorder' /\ bootorder'[k + 1] = bootorder[k]
      BY <3>2, <3>3, <3>4
    <3>6. ASSUME NEW j \in 1 .. (k + 1) - 1 PROVE entries'[bootorder'[j]] \in Wanted
      <4>1. CASE j = 1
        BY <2>7, <2>8, <2>9, <4>1 DEF Shifted
      <4>2. CASE j # 1
        <5>1. j \in 2 .. Len(bootorder) + 1 /\ j - 1 \in 1 .. k - 1
          BY <3>2, <4>2
        <5> QED
          BY <3>1, <3>4, <5>1
      <4> QED
        BY <4>1, <4>2
    <3> QED
      BY <3>1, <3>5, <3>6 DEF Placed
  <2>12. ASSUME NEW r, r = Row PROVE Placed(r, bootorder)'
    <3>1. Len(bootorder') >= 1 /\ bootorder'[1] = n
      BY <2>8 DEF Shifted
    <3>2. 1 \in DOMAIN bootorder' /\ 1 .. 1 - 1 = {}
      BY <2>8, <3>1
    <3> QED
      BY <2>9, <2>12, <3>1, <3>2 DEF Placed
  <2>13. \A r : Pending(r) => Pending(r)' \/ r = Row
    BY <2>1, <2>6 DEF Pending
  <2>14. \A r \in Wanted : (Pending(r) \/ Placed(r, bootorder))'
    BY <2>5, <2>11, <2>12, <2>13 DEF Reading
  <2> QED
    BY <2>1, <2>5, <2>6, <2>14 DEF Reading, machine
<1> QED
  BY <1>1, <1>2

LEMMA OrderDeleted ==
    ASSUME DeleteOrder, RowsInv, Wanted' = Wanted
    PROVE  RowsInv'
<1>1. CASE Leave("off")
  BY <1>1 DEF Leave, RowsInv, Updated, Scanning
<1>2. CASE ~Leave("off")
  <2>1. /\ Scanned /\ UNCHANGED <<entries, trouble>>
        /\ \/ bootorder = <<>> /\ pc' = "decide"
           \/ pc' = "write" /\ bootorder' = bootorder
    BY <1>2 DEF DeleteOrder, Works, Goto, lists
  <2> SUFFICES ASSUME ~trouble
               PROVE  /\ pc' = "write" => \A r \in Wanted : Placed(r, bootorder)'
                      /\ pc' = "decide" => \A r \in Wanted : Placed(r, order)'
    BY <2>1 DEF RowsInv, Updated, Scanning
  <2>2. \A r \in Wanted : Placed(r, bootorder)
    BY <2>1, NothingPending DEF RowsInv, Reading, Scanning, Scanned
  <2>3. bootorder = <<>> => Wanted = {}
    BY <2>2, NothingPlaced
  <2>4. bootorder' = bootorder => \A r \in Wanted : Placed(r, bootorder)'
    BY <2>1, <2>2 DEF Placed
  <2> QED
    BY <2>1, <2>3, <2>4
<1> QED
  BY <1>1, <1>2

LEMMA OrderWritten ==
    ASSUME WriteOrder, RowsInv, Wanted' = Wanted
    PROVE  RowsInv'
<1>1. CASE Leave("off")
  BY <1>1 DEF Leave, RowsInv, Updated, Scanning
<1>2. CASE ~Leave("off")
  <2>1. pc = "write" /\ pc' = "decide" /\ order' = bootorder /\ UNCHANGED <<entries, trouble>>
    BY <1>2 DEF WriteOrder, NewOrder, Works, Goto
  <2>2. ~trouble => \A r \in Wanted : Placed(r, order)'
    BY <2>1 DEF RowsInv, Placed
  <2> QED
    BY <2>1, <2>2 DEF RowsInv, Updated, Scanning
<1> QED
  BY <1>1, <1>2

(* After the order nothing changes until fallback is left.                 *)
LEMMA UpdatedStays ==
    ASSUME Decide \/ try_start_first_option \/ Countdown
    PROVE  \/ pc' \notin {"scan", "add", "write"} /\ ~Updated'
           \/ Updated /\ Updated' /\ UNCHANGED <<entries, order, before, trouble, unread>>
<1>1. CASE Decide
  BY <1>1 DEF Decide, Updated, Goto, nvram, lists
<1>2. CASE try_start_first_option
  BY <1>2 DEF try_start_first_option, Updated, Goto, Leave, nvram, lists
<1>3. CASE Countdown
  BY <1>3 DEF Countdown, Updated, Goto, Leave, nvram, lists
<1> QED
  BY <1>1, <1>2, <1>3

LEMMA RowsStep ==
    StoreOK /\ ScanOK /\ RestOK /\ RowsInv /\ [Next]_vars => RowsInv'
<1> SUFFICES ASSUME StoreOK, ScanOK, RestOK, RowsInv, [Next]_vars PROVE RowsInv'
  OBVIOUS
<1>0. Wanted' = Wanted
  BY WantedStays
<1>1. CASE FirmwareBoots
  BY <1>1 DEF FirmwareBoots, Leave, Goto, RowsInv, Updated, Scanning
<1>2. CASE should_use_fallback
  BY <1>2, StartReads
<1>3. CASE PowerOn
  BY <1>3 DEF PowerOn, Leave, Goto, RowsInv, Updated, Scanning
<1>4. CASE Reboot
  BY <1>4 DEF Reboot, Leave, Goto, RowsInv, Updated, Scanning
<1>5. CASE OpenDirectory
  BY <1>5, <1>0, DirectoryKept
<1>6. CASE try_boot_csv
  BY <1>6, <1>0, FileKept
<1>7. CASE add_to_boot_list
  BY <1>7, <1>0, FoundKept
<1>8. CASE add_boot_option
  BY <1>8, <1>0, EntryKept
<1>9. CASE DeleteOrder
  BY <1>9, <1>0, OrderDeleted
<1>10. CASE WriteOrder
  BY <1>10, <1>0, OrderWritten
<1>11. CASE Decide
  BY <1>11, <1>0, UpdatedStays DEF RowsInv, Updated, Scanning, Placed
<1>12. CASE try_start_first_option
  BY <1>12, <1>0, UpdatedStays DEF RowsInv, Updated, Scanning, Placed
<1>13. CASE Countdown
  BY <1>13, <1>0, UpdatedStays DEF RowsInv, Updated, Scanning, Placed
<1>14. CASE FirmwareForgets
  BY <1>14 DEF FirmwareForgets, Leave, Goto, RowsInv, Updated, Scanning
<1>15. CASE PowerLoss
  BY <1>15 DEF PowerLoss, Leave, Goto, RowsInv, Updated, Scanning
<1>16. CASE UNCHANGED vars
  <2>1. UNCHANGED <<entries, order, dirs, files, todo, bootorder, trouble, pc, disk>>
    BY <1>16 DEF vars, nvram, scan, lists, machine
  <2> QED
    BY <1>0, <2>1 DEF RowsInv, Reading, Pending, Placed, Updated, Scanning
<1> QED
  BY <1>1, <1>2, <1>3, <1>4, <1>5, <1>6, <1>7, <1>8, <1>9, <1>10, <1>11, <1>12, <1>13, <1>14,
      <1>15, <1>16
     DEF Next, Step

(* When nothing failed, every row of every CSV file has an entry, and it   *)
(* comes in BootOrder before all entries that are for something else.      *)
THEOREM RowsComeFirst == Spec => []RowsFirst
<1>1. Init => TypeOK /\ RowsInv
  <2> SUFFICES ASSUME Init PROVE TypeOK /\ RowsInv
    OBVIOUS
  <2>1. TypeOK
    BY TypeInit, TypeParts
  <2>2. RowsInv
    BY DEF Init, RowsInv, Updated, Scanning
  <2> QED
    BY <2>1, <2>2
<1>2. TypeOK /\ RowsInv /\ [Next]_vars => (TypeOK /\ RowsInv)'
  <2> SUFFICES ASSUME TypeOK, RowsInv, [Next]_vars PROVE TypeOK' /\ RowsInv'
    OBVIOUS
  <2>1. StoreOK /\ ScanOK /\ RestOK
    BY TypeParts
  <2> QED
    BY <2>1, RowsStep, TypeStep
<1>3. RowsInv => RowsFirst
  BY DEF RowsInv, RowsFirst, Placed
<1> QED
  BY <1>1, <1>2, <1>3, PTL DEF Spec
---------------------------------------------------------------------------
(* The order of the others                                                 *)

(* The entries that are for a row of the disk; a sequence without them.    *)
Handled == {n \in Numbers : entries[n] \in OnDisk}
NotHandled(s) == Without(s, Handled)

(* Why a number may be repeated.                                           *)
Excused(n) == \/ Repeated(before.stored, n)
              \/ n \in Range(before.stored) /\ before.entries[n] = Free

BeforeOK == before \in [entries : [Numbers -> Rows \cup {Free}],
                        order : Seq(Numbers), stored : Seq(Numbers)]

(* What is read comes from the disk.                                       *)
FromDisk == /\ RowsOf(dirs) \subseteq OnDisk
            /\ \A f \in Range(files) : Range(f) \subseteq OnDisk
            /\ Range(todo) \subseteq OnDisk

(* A number that is in the list now, and was not, has an entry; and so has *)
(* a number that had one.                                                  *)
ListOK ==
    /\ NotHandled(bootorder) = NotHandled(before.order)
    /\ \A n \in Numbers \ unread : Repeated(bootorder, n) => Excused(n)
    /\ \A n \in Range(bootorder) : n \in Range(before.stored) \/ entries[n] # Free
    /\ \A n \in Numbers : before.entries[n] # Free => entries[n] # Free

OrderOK ==
    /\ NotHandled(order) = NotHandled(before.order) \/ order = before.stored
    /\ \A n \in Numbers \ unread : Repeated(order, n) => Excused(n)

OrderInv ==
    /\ Scanning => FromDisk /\ order = before.stored
    /\ Scanning \/ pc = "write" => ListOK
    /\ Updated => OrderOK

LEMMA FrontHandled ==
    ASSUME NEW S, NEW n \in S, n \in Numbers, NEW b \in Seq(Numbers)
    PROVE  Without(<<n>> \o b, S) = Without(b, S)
<1>0. <<n>> \in Seq(Numbers)
  OBVIOUS
<1>1. PICK e \in Seq(Numbers) : e = <<n>>
  BY Zenon, <1>0
<1>2. Without(e \o b, S) = Without(e, S) \o Without(b, S)
  BY WithoutConcat
<1>3. Without(e, S) = <<>>
  BY <1>1, WithoutOne
<1>4. Without(b, S) \in Seq(Numbers)
  BY WithoutType
<1>5. Without(e \o b, S) = Without(b, S)
  BY <1>2, <1>3, <1>4
<1> QED
  BY <1>1, <1>5

LEMMA TakenOutHandled ==
    ASSUME NEW S, NEW n \in S, n \in Numbers, NEW b, NEW s, TakenOut(Numbers, b, n, s)
    PROVE  s \in Seq(Numbers) /\ Without(s, S) = Without(b, S)
<1>0. PICK e \in Seq(Numbers) : e = <<n>>
  <2>1. <<n>> \in Seq(Numbers)
    OBVIOUS
  <2> QED
    BY Zenon, <2>1
<1>1. PICK l, r \in Seq(Numbers) : b = (l \o e) \o r /\ s = l \o r
  BY <1>0 DEF TakenOut
<1>2. PICK le \in Seq(Numbers) : le = l \o e
  <2>1. l \o e \in Seq(Numbers)
    OBVIOUS
  <2> QED
    BY Zenon, <2>1
<1>3. Without(b, S) = Without(le, S) \o Without(r, S)
  <2>1. Without(le \o r, S) = Without(le, S) \o Without(r, S)
    BY WithoutConcat
  <2> QED
    BY <1>1, <1>2, <2>1
<1>4. Without(le, S) = Without(l, S) \o Without(e, S)
  BY <1>2, WithoutConcat
<1>5. Without(e, S) = <<>>
  BY <1>0, WithoutOne
<1>6. Without(l, S) \in Seq(Numbers)
  BY WithoutType
<1>7. Without(l \o r, S) = Without(l, S) \o Without(r, S)
  BY WithoutConcat
<1>8. Without(l, S) \o <<>> = Without(l, S)
  BY <1>6
<1>9. s \in Seq(Numbers)
  BY <1>1
<1> QED
  BY <1>1, <1>3, <1>4, <1>5, <1>7, <1>8, <1>9

LEMMA ToFrontHandled ==
    ASSUME bootorder \in Seq(Numbers), NEW n \in Handled
    PROVE  NotHandled(ToFront(n)) = NotHandled(bootorder)
<1>1. n \in Numbers
  BY DEF Handled
<1>2. CASE ToFront(n) = <<n>> \o bootorder
  BY <1>1, <1>2, FrontHandled DEF NotHandled
<1>3. CASE \E s : TakenOut(Numbers, bootorder, n, s) /\ ToFront(n) = <<n>> \o s
  <2>1. PICK s : TakenOut(Numbers, bootorder, n, s) /\ ToFront(n) = <<n>> \o s
    BY <1>3
  <2>2. s \in Seq(Numbers) /\ Without(s, Handled) = Without(bootorder, Handled)
    BY <1>1, <2>1, TakenOutHandled
  <2>3. Without(<<n>> \o s, Handled) = Without(s, Handled)
    BY <1>1, <2>2, FrontHandled
  <2> QED
    BY <2>1, <2>2, <2>3 DEF NotHandled
<1> QED
  BY <1>1, <1>2, <1>3, ToFrontMoves

(* Putting n in front repeats nothing, unless n stays where it was too.    *)
LEMMA ShiftedRepeats ==
    ASSUME NEW b \in Seq(Numbers), NEW t \in Seq(Numbers), NEW n \in Numbers,
           NEW k \in 1 .. Len(b) + 1, Shifted(b, n, k, t),
           NEW m, Repeated(t, m)
    PROVE  Repeated(b, m) \/ (m = n /\ k > Len(b) /\ n \in Range(b))
<1> DEFINE old(j) == IF j <= k THEN j - 1 ELSE j
<1>1. /\ k <= Len(b) => b[k] = n
      /\ Len(t) = IF k <= Len(b) THEN Len(b) ELSE Len(b) + 1
      /\ t[1] = n
      /\ \A j \in 2 .. Len(t) : t[j] = b[old(j)]
  BY DEF Shifted
<1>2. DOMAIN t = 1 .. Len(t) /\ DOMAIN b = 1 .. Len(b) /\ Len(b) \in Nat
  OBVIOUS
<1>3. \A j \in 2 .. Len(t) : old(j) \in 1 .. Len(b) /\ old(j) # k
  BY <1>1, <1>2
<1>4. \A j, l \in 2 .. Len(t) : j # l => old(j) # old(l)
  BY <1>2
<1>5. PICK j, l \in 1 .. Len(t) : j # l /\ t[j] = m /\ t[l] = m
  BY <1>2 DEF Repeated
<1>6. ASSUME NEW p \in 2 .. Len(t), t[p] = n
      PROVE  Repeated(b, n) \/ (k > Len(b) /\ n \in Range(b))
  <2>1. old(p) \in 1 .. Len(b) /\ old(p) # k /\ b[old(p)] = n
    BY <1>1, <1>3, <1>6
  <2>2. CASE k <= Len(b)
    <3>1. k \in 1 .. Len(b) /\ b[k] = n
      BY <1>1, <2>2
    <3> QED
      BY <1>2, <2>1, <3>1 DEF Repeated
  <2>3. CASE ~(k <= Len(b))
    <3>1. k > Len(b)
      BY <1>2, <2>3
    <3> HIDE DEF old
    <3> QED
      BY <1>2, <2>1, <3>1 DEF Range
  <2> QED
    BY <2>2, <2>3
<1>7. CASE j = 1
  <2>1. l \in 2 .. Len(t) /\ m = n /\ t[l] = n
    BY <1>1, <1>5, <1>7
  <2> QED
    BY <1>6, <2>1
<1>8. CASE l = 1
  <2>1. j \in 2 .. Len(t) /\ m = n /\ t[j] = n
    BY <1>1, <1>5, <1>8
  <2> QED
    BY <1>6, <2>1
<1>9. CASE j # 1 /\ l # 1
  <2>1. j \in 2 .. Len(t) /\ l \in 2 .. Len(t)
    BY <1>5, <1>9
  <2>2. old(j) # old(l) /\ old(j) \in 1 .. Len(b) /\ old(l) \in 1 .. Len(b)
    BY <1>3, <1>4, <1>5, <2>1
  <2>3. b[old(j)] = m /\ b[old(l)] = m
    BY <1>1, <1>5, <2>1
  <2> HIDE DEF old
  <2> QED
    BY <1>2, <2>2, <2>3 DEF Repeated
<1> QED
  BY <1>7, <1>8, <1>9

LEMMA ShiftedRange ==
    ASSUME NEW b \in Seq(Numbers), NEW t \in Seq(Numbers), NEW n \in Numbers,
           NEW k \in 1 .. Len(b) + 1, Shifted(b, n, k, t)
    PROVE  Range(t) \subseteq Range(b) \cup {n}
<1> SUFFICES ASSUME NEW j \in 1 .. Len(t), j # 1 PROVE t[j] \in Range(b)
  BY DEF Range, Shifted
<1> DEFINE o == IF j <= k THEN j - 1 ELSE j
<1>1. t[j] = b[o] /\ o \in 1 .. Len(b)
  BY DEF Shifted
<1> HIDE DEF o
<1> QED
  BY <1>1 DEF Range

LEMMA BeforeStep == StoreOK /\ BeforeOK /\ [Next]_vars => BeforeOK'
<1> SUFFICES ASSUME StoreOK, BeforeOK, [Next]_vars PROVE BeforeOK'
  OBVIOUS
<1>0. Blank \in [entries : [Numbers -> Rows \cup {Free}], order : Seq(Numbers), stored : Seq(Numbers)]
  BY EmptySequences DEF Blank
<1>1. before' = before \/ before' = Blank \/ \E read \in {order, <<>>} : set_boot_order(read)
  <2> USE DEF Leave
  <2>1. CASE FirmwareBoots
    BY <2>1 DEF FirmwareBoots
  <2>2. CASE should_use_fallback
    BY <2>2 DEF should_use_fallback
  <2>3. CASE PowerOn
    BY <2>3 DEF PowerOn
  <2>4. CASE Reboot
    BY <2>4 DEF Reboot
  <2>5. CASE OpenDirectory
    BY <2>5 DEF OpenDirectory
  <2>6. CASE try_boot_csv
    BY <2>6 DEF try_boot_csv
  <2>7. CASE add_to_boot_list
    BY <2>7 DEF add_to_boot_list
  <2>8. CASE add_boot_option
    BY <2>8 DEF add_boot_option
  <2>9. CASE DeleteOrder
    BY <2>9 DEF DeleteOrder
  <2>10. CASE WriteOrder
    BY <2>10 DEF WriteOrder
  <2>11. CASE Decide
    BY <2>11 DEF Decide
  <2>12. CASE try_start_first_option
    BY <2>12 DEF try_start_first_option
  <2>13. CASE Countdown
    BY <2>13 DEF Countdown
  <2>14. CASE FirmwareForgets
    BY <2>14 DEF FirmwareForgets
  <2>15. CASE PowerLoss
    BY <2>15 DEF PowerLoss
  <2>16. CASE UNCHANGED vars
    BY <2>16 DEF vars
  <2> QED
    BY <2>1, <2>2, <2>3, <2>4, <2>5, <2>6, <2>7, <2>8, <2>9, <2>10, <2>11, <2>12, <2>13, <2>14,
        <2>15, <2>16
       DEF Next, Step
<1>2. CASE \E read \in {order, <<>>} : set_boot_order(read)
  <2>1. PICK read \in {order, <<>>} : set_boot_order(read)
    BY <1>2
  <2>2. before' = [entries |-> entries, order |-> read, stored |-> order]
    BY <2>1 DEF set_boot_order
  <2> QED
    BY <2>2, EmptySequences DEF StoreOK, BeforeOK
<1> QED
  BY <1>0, <1>1, <1>2 DEF BeforeOK

LEMMA ListStays ==
    ASSUME UNCHANGED <<entries, disk, bootorder, before, unread>>, ListOK
    PROVE  ListOK'
  BY DEF ListOK, NotHandled, Handled, OnDisk, Excused

LEMMA OrderStays ==
    ASSUME UNCHANGED <<entries, disk, order, before, unread>>, OrderOK
    PROVE  OrderOK'
  BY DEF OrderOK, NotHandled, Handled, OnDisk, Excused

LEMMA LeftInOrder == ASSUME NEW p, Leave(p), p \in {"os", "off", "firmware"} PROVE OrderInv'
  BY DEF Leave, OrderInv, Scanning, Updated

LEMMA EmptyRange == Range(<<>>) = {}
  BY DEF Range

LEMMA StartInOrder ==
    ASSUME should_use_fallback
    PROVE  OrderInv'
<1>1. CASE Leave("off")
  BY <1>1, LeftInOrder
<1>2. CASE ~Leave("off")
  <2>1. /\ pc' = "scan" /\ dirs' = disk /\ files' = <<>> /\ todo' = <<>> /\ unread' = {}
        /\ UNCHANGED <<entries, order, disk>>
    BY <1>2 DEF should_use_fallback, Goto, nvram, machine
  <2>2. /\ bootorder' \in {order, <<>>}
        /\ before' = [entries |-> entries, order |-> bootorder', stored |-> order]
    BY <1>2 DEF should_use_fallback, set_boot_order
  <2>3. before'.entries = entries /\ before'.order = bootorder' /\ before'.stored = order
    BY <2>2
  <2>4. FromDisk'
    BY <2>1, EmptyRange DEF FromDisk, OnDisk
  <2>5. \A n : Repeated(bootorder', n) => Excused(n)'
    BY <2>2, <2>3 DEF Repeated, Excused
  <2>6. Range(bootorder') \subseteq Range(order)
    BY <2>2, EmptyRange
  <2>7. ListOK'
    <3>1. NotHandled(bootorder)' = NotHandled(before.order)'
      BY <2>3 DEF NotHandled
    <3> QED
      BY <2>1, <2>3, <2>5, <2>6, <3>1 DEF ListOK
  <2> QED
    BY <2>1, <2>3, <2>4, <2>7 DEF OrderInv, Scanning, Updated
<1> QED
  BY <1>1, <1>2

LEMMA DirectoryInOrder ==
    ASSUME OpenDirectory, ScanOK, OrderInv
    PROVE  OrderInv'
<1>1. CASE Leave("off")
  BY <1>1, LeftInOrder
<1>2. CASE ~Leave("off")
  <2>1. /\ pc = "scan" /\ dirs # <<>> /\ files = <<>> /\ todo = <<>>
        /\ dirs' = Tail(dirs) /\ files' \in {Head(dirs), files}
        /\ UNCHANGED <<pc, todo, lists, before, nvram, machine>>
    BY <1>2 DEF OpenDirectory
  <2>2. FromDisk /\ order = before.stored /\ ListOK
    BY <2>1 DEF OrderInv, Scanning
  <2>3. ListOK'
    BY <2>1, <2>2, ListStays DEF nvram, machine, lists
  <2>4. Range(dirs) = {Head(dirs)} \cup Range(dirs')
    BY <2>1, HeadTail DEF ScanOK
  <2>5. RowsOf(dirs') \subseteq OnDisk
    BY <2>2, <2>4 DEF FromDisk, RowsOf
  <2>6. \A f \in Range(Head(dirs)) : Range(f) \subseteq OnDisk
    BY <2>2, <2>4 DEF FromDisk, RowsOf
  <2>7. FromDisk'
    BY <2>1, <2>2, <2>5, <2>6 DEF FromDisk, OnDisk, machine
  <2> QED
    BY <2>1, <2>2, <2>3, <2>7 DEF OrderInv, Scanning, Updated, nvram
<1> QED
  BY <1>1, <1>2

LEMMA FileInOrder ==
    ASSUME try_boot_csv, ScanOK, OrderInv
    PROVE  OrderInv'
<1>1. /\ pc = "scan" /\ files # <<>> /\ todo = <<>>
      /\ \/ todo' = Parsed(Head(files)) /\ files' = <<>>
         \/ files' = Tail(files) /\ todo' = todo
      /\ UNCHANGED <<pc, dirs, lists, before, nvram, machine>>
  BY DEF try_boot_csv
<1>2. FromDisk /\ order = before.stored /\ ListOK
  BY <1>1 DEF OrderInv, Scanning
<1>3. ListOK'
  BY <1>1, <1>2, ListStays DEF nvram, machine, lists
<1>4. Head(files) \in Seq(Rows) /\ Range(files) = {Head(files)} \cup Range(Tail(files))
  BY <1>1, HeadTail DEF ScanOK
<1>5. Range(Parsed(Head(files))) \subseteq OnDisk
  BY <1>2, <1>4, ParsedRows DEF FromDisk
<1>6. FromDisk'
  BY <1>1, <1>2, <1>4, <1>5, EmptyRange DEF FromDisk, OnDisk, machine
<1> QED
  BY <1>1, <1>2, <1>3, <1>6 DEF OrderInv, Scanning, Updated, nvram

LEMMA FoundInOrder ==
    ASSUME add_to_boot_list, StoreOK, ScanOK, OrderInv
    PROVE  OrderInv'
<1>1. /\ pc = "scan" /\ todo # <<>> /\ pc' \in {"scan", "add"}
      /\ todo' \in {todo, Tail(todo)}
      /\ UNCHANGED <<nvram, machine, dirs, files, before, unread>>
  BY DEF add_to_boot_list, Goto
<1>2. (\E n \in Matches(Row) : bootorder' = ToFront(n)) \/ UNCHANGED bootorder
  BY DEF add_to_boot_list
<1>3. FromDisk /\ order = before.stored /\ ListOK
  BY <1>1 DEF OrderInv, Scanning
<1>4. Range(todo) = {Row} \cup Range(Tail(todo))
  BY <1>1, HeadTail DEF ScanOK, Row
<1>5. FromDisk'
  BY <1>1, <1>3, <1>4 DEF FromDisk, OnDisk, machine
<1>6. ListOK'
  <2>1. CASE UNCHANGED bootorder
    BY <1>1, <1>3, <2>1, ListStays DEF nvram, machine
  <2>2. CASE \E n \in Matches(Row) : bootorder' = ToFront(n)
    <3>1. PICK n \in Matches(Row) : bootorder' = ToFront(n)
      BY <2>2
    <3>2. n \in Numbers /\ entries[n] = Row /\ n \in Handled
      BY <1>3, <1>4, <3>1 DEF Matches, Handled, FromDisk
    <3>3. bootorder \in Seq(Numbers) /\ bootorder' \in Seq(Numbers)
      BY <3>1, <3>2, ToFrontMoves DEF StoreOK
    <3>4. PICK k \in 1 .. Len(bootorder) + 1 : MovedFrom(bootorder, n, k, bootorder')
      BY <3>1, <3>2, <3>3, ToFrontMoves
    <3>5. Shifted(bootorder, n, k, bootorder') /\ (k > Len(bootorder) => n \notin Range(bootorder))
      BY <3>4 DEF MovedFrom
    <3>6. Handled' = Handled
      BY <1>1 DEF Handled, OnDisk, nvram, machine
    <3>7. NotHandled(bootorder)' = NotHandled(before.order)'
      <4>1. Without(bootorder', Handled) = Without(bootorder, Handled)
        BY <3>1, <3>2, <3>3, ToFrontHandled DEF NotHandled
      <4>2. Without(bootorder, Handled) = Without(before.order, Handled)
        BY <1>3 DEF ListOK, NotHandled
      <4> QED
        BY <1>1, <3>6, <4>1, <4>2 DEF NotHandled
    <3>8. ASSUME NEW m \in Numbers \ unread, Repeated(bootorder', m) PROVE Excused(m)
      <4>1. Repeated(bootorder, m)
        BY <3>2, <3>3, <3>5, <3>8, ShiftedRepeats
      <4> QED
        BY <1>3, <4>1 DEF ListOK
    <3>9. \A m : Excused(m)' <=> Excused(m)
      BY <1>1 DEF Excused
    <3>10. Range(bootorder') \subseteq Range(bootorder) \cup {n}
      BY <3>2, <3>3, <3>5, ShiftedRange
    <3>11. n \in Range(before.stored) \/ entries[n] # Free
      <4>1. Row # Free
        BY <1>1, <3>2, RowType, FallbackAssumption
      <4> QED
        BY <3>2, <4>1
    <3>12. \A m \in Range(bootorder') : m \in Range(before.stored) \/ entries[m] # Free
      BY <1>3, <3>10, <3>11 DEF ListOK
    <3> QED
      BY <1>1, <1>3, <3>7, <3>8, <3>9, <3>12 DEF ListOK, nvram
  <2> QED
    BY <1>2, <2>1, <2>2
<1> QED
  BY <1>1, <1>3, <1>5, <1>6 DEF OrderInv, Scanning, Updated, nvram

(* What a new entry, or the attempt, does to the list.                     *)
LEMMA EntryListed ==
    ASSUME StoreOK, BeforeOK, ListOK, Row \in OnDisk, Row # Free, NEW n \in Numbers,
           UNCHANGED <<disk, before>>,
           \/ UNCHANGED <<entries, bootorder>>
           \/ /\ entries' = [entries EXCEPT ![n] = Row]
              /\ bootorder' \in {bootorder, <<n>> \o bootorder},
           (entries[n] = Free /\ unread' = unread) \/ unread' = unread \cup {n}
    PROVE  ListOK'
<1>0. OnDisk' = OnDisk /\ bootorder \in Seq(Numbers) /\ before.order \in Seq(Numbers)
  BY DEF OnDisk, StoreOK, BeforeOK
<1>1. \A m : Excused(m)' <=> Excused(m)
  BY DEF Excused
<1>2. unread \subseteq unread'
  OBVIOUS
<1>3. CASE UNCHANGED <<entries, bootorder>>
  <2>1. NotHandled(bootorder)' = NotHandled(before.order)'
    BY <1>0, <1>3 DEF ListOK, NotHandled, Handled
  <2>2. \A m \in Numbers \ unread' : Repeated(bootorder', m) => Excused(m)'
    BY <1>1, <1>2, <1>3 DEF ListOK
  <2> QED
    BY <1>3, <2>1, <2>2 DEF ListOK
<1>4. CASE /\ entries' = [entries EXCEPT ![n] = Row]
           /\ bootorder' \in {bootorder, <<n>> \o bootorder}
  <2>1. entries'[n] = Row /\ \A m \in Numbers : m # n => entries'[m] = entries[m]
    BY <1>4 DEF StoreOK
  <2>2. Handled' = Handled \cup {n}
    BY <1>0, <2>1 DEF Handled
  <2>3. Without(bootorder, Handled') = Without(before.order, Handled')
    <3>1. Without(bootorder, Handled) = Without(before.order, Handled)
      BY DEF ListOK, NotHandled
    <3>2. PICK b \in Seq(Numbers) : b = before.order
      BY <1>0
    <3>3. Without(bootorder, Handled \cup {n}) = Without(Without(bootorder, Handled), {n})
      BY <1>0, WithoutMore
    <3>4. Without(b, Handled \cup {n}) = Without(Without(b, Handled), {n})
      BY WithoutMore
    <3> QED
      BY <2>2, <3>1, <3>2, <3>3, <3>4
  <2>4. Without(bootorder', Handled') = Without(bootorder, Handled')
    <3>1. n \in Handled'
      BY <2>2
    <3>2. Without(<<n>> \o bootorder, Handled') = Without(bootorder, Handled')
      BY <1>0, <3>1, FrontHandled
    <3> QED
      BY <1>4, <3>2
  <2>5. NotHandled(bootorder)' = NotHandled(before.order)'
    BY <2>3, <2>4 DEF NotHandled
  <2>6. bootorder' = bootorder \/ /\ bootorder' \in Seq(Numbers)
                                  /\ Shifted(bootorder, n, Len(bootorder) + 1, bootorder')
    <3>1. /\ <<n>> \o bootorder \in Seq(Numbers)
          /\ Shifted(bootorder, n, Len(bootorder) + 1, <<n>> \o bootorder)
      BY <1>0, FrontShifted
    <3>2. bootorder' = bootorder \/ bootorder' = <<n>> \o bootorder
      BY <1>4
    <3> QED
      BY Zenon, <3>1, <3>2
  <2>7. Len(bootorder) + 1 \in 1 .. Len(bootorder) + 1
    BY <1>0
  <2>8. \A m : Repeated(bootorder', m) => Repeated(bootorder, m) \/ (m = n /\ n \in Range(bootorder))
    BY <1>0, <2>6, <2>7, ShiftedRepeats
  <2>9. Range(bootorder') \subseteq Range(bootorder) \cup {n}
    BY <1>0, <2>6, <2>7, ShiftedRange
  <2>10. ASSUME NEW m \in Numbers \ unread', Repeated(bootorder', m) PROVE Excused(m)
    <3>1. CASE Repeated(bootorder, m)
      BY <1>2, <2>10, <3>1 DEF ListOK
    <3>2. CASE m = n /\ n \in Range(bootorder)
      <4>1. entries[n] = Free
        BY <2>10, <3>2
      <4>2. n \in Range(before.stored) /\ before.entries[n] = Free
        BY <3>2, <4>1 DEF ListOK
      <4> QED
        BY <3>2, <4>2 DEF Excused
    <3> QED
      BY <2>8, <2>10, <3>1, <3>2
  <2>11. \A m \in Range(bootorder') : m \in Numbers
    BY <1>0, <2>6 DEF Range
  <2>12. \A m \in Range(bootorder') : m \in Range(before.stored) \/ entries'[m] # Free
    BY <2>1, <2>9, <2>11 DEF ListOK
  <2>13. \A m \in Numbers : before.entries[m] # Free => entries'[m] # Free
    BY <2>1 DEF ListOK
  <2> QED
    BY <1>1, <2>5, <2>10, <2>12, <2>13 DEF ListOK
<1> QED
  BY <1>3, <1>4

LEMMA EntryInOrder ==
    ASSUME add_boot_option, StoreOK, BeforeOK, ScanOK, OrderInv
    PROVE  OrderInv'
<1>1. /\ pc = "add" /\ pc' = "scan" /\ todo # <<>> /\ todo' = Tail(todo)
      /\ UNCHANGED <<order, machine, dirs, files, before>>
  BY DEF add_boot_option, Goto, ScanOK
<1>2. FromDisk /\ order = before.stored /\ ListOK
  BY <1>1 DEF OrderInv, Scanning
<1>3. Range(todo) = {Row} \cup Range(todo')
  BY <1>1, HeadTail DEF ScanOK, Row
<1>4. Row \in OnDisk /\ Row # Free
  BY <1>1, <1>2, <1>3, RowType, FallbackAssumption DEF FromDisk
<1>5. FromDisk'
  BY <1>1, <1>2, <1>3 DEF FromDisk, OnDisk, machine
<1>6. CASE UNCHANGED <<entries, bootorder, unread>>
  <2>1. ListOK'
    BY <1>1, <1>2, <1>6, ListStays DEF machine
  <2> QED
    BY <1>1, <1>2, <1>5, <2>1 DEF OrderInv, Scanning, Updated
<1>7. CASE ~UNCHANGED <<entries, bootorder, unread>>
  <2>1. PICK n \in i .. MaxNumber + 1 : Chosen(n)
    BY <1>7, AddCases
  <2>2. FreeNumbers # {} /\ n = Min(FreeNumbers) => n \in Numbers /\ entries[n] = Free
    BY FirstFree DEF StoreOK
  <2>3. /\ n \in Numbers
        /\ (entries[n] = Free /\ unread' = unread) \/ unread' = unread \cup {n}
    BY <2>1, <2>2 DEF Chosen
  <2>4. \/ UNCHANGED <<entries, bootorder>>
        \/ /\ entries' = [entries EXCEPT ![n] = Row]
           /\ bootorder' \in {bootorder, <<n>> \o bootorder}
    BY <2>1 DEF Chosen
  <2>5. ListOK'
    BY <1>1, <1>2, <1>4, <2>3, <2>4, EntryListed DEF machine
  <2> QED
    BY <1>1, <1>2, <1>5, <2>5 DEF OrderInv, Scanning, Updated
<1> QED
  BY <1>6, <1>7

LEMMA DeletedInOrder ==
    ASSUME DeleteOrder, OrderInv
    PROVE  OrderInv'
<1>1. CASE Leave("off")
  BY <1>1, LeftInOrder
<1>2. CASE ~Leave("off")
  <2>1. /\ pc = "scan" /\ UNCHANGED <<entries, disk, lists, before>>
        /\ (order' = order /\ pc' = "decide") \/ pc' = "write"
    BY <1>2 DEF DeleteOrder, Scanned, Goto, machine
  <2>2. order = before.stored /\ ListOK
    BY <2>1 DEF OrderInv, Scanning
  <2>3. ListOK'
    BY <2>1, <2>2, ListStays DEF lists
  <2>4. order' = order => OrderOK'
    BY <2>1, <2>2 DEF OrderOK, Excused, lists
  <2> QED
    BY <2>1, <2>3, <2>4 DEF OrderInv, Scanning, Updated
<1> QED
  BY <1>1, <1>2

LEMMA WrittenInOrder ==
    ASSUME WriteOrder, OrderInv
    PROVE  OrderInv'
<1>1. CASE Leave("off")
  BY <1>1, LeftInOrder
<1>2. CASE ~Leave("off")
  <2>1. /\ pc = "write" /\ pc' = "decide" /\ order' = bootorder
        /\ UNCHANGED <<entries, disk, lists, before>>
    BY <1>2 DEF WriteOrder, NewOrder, Goto, machine
  <2>2. ListOK
    BY <2>1 DEF OrderInv
  <2>3. Handled' = Handled
    BY <2>1 DEF Handled, OnDisk
  <2>4. OrderOK'
    BY <2>1, <2>2, <2>3 DEF OrderOK, ListOK, NotHandled, Excused, lists
  <2> QED
    BY <2>1, <2>4 DEF OrderInv, Scanning, Updated
<1> QED
  BY <1>1, <1>2

LEMMA OrderStep ==
    StoreOK /\ ScanOK /\ BeforeOK /\ OrderInv /\ [Next]_vars => OrderInv'
<1> SUFFICES ASSUME StoreOK, ScanOK, BeforeOK, OrderInv, [Next]_vars PROVE OrderInv'
  OBVIOUS
<1>0. disk' = disk
  BY EntriesStep DEF EntriesChange
<1>1. CASE FirmwareBoots
  BY <1>1, LeftInOrder DEF FirmwareBoots
<1>2. CASE should_use_fallback
  BY <1>2, StartInOrder
<1>3. CASE PowerOn
  BY <1>3 DEF PowerOn, Goto, OrderInv, Updated, Scanning
<1>4. CASE Reboot
  BY <1>4, LeftInOrder DEF Reboot
<1>5. CASE OpenDirectory
  BY <1>5, DirectoryInOrder
<1>6. CASE try_boot_csv
  BY <1>6, FileInOrder
<1>7. CASE add_to_boot_list
  BY <1>7, FoundInOrder
<1>8. CASE add_boot_option
  BY <1>8, EntryInOrder
<1>9. CASE DeleteOrder
  BY <1>9, DeletedInOrder
<1>10. CASE WriteOrder
  BY <1>10, WrittenInOrder
<1>11. CASE Decide
  BY <1>11, <1>0, UpdatedStays, OrderStays DEF OrderInv, Updated, Scanning
<1>12. CASE try_start_first_option
  BY <1>12, <1>0, UpdatedStays, OrderStays DEF OrderInv, Updated, Scanning
<1>13. CASE Countdown
  BY <1>13, <1>0, UpdatedStays, OrderStays DEF OrderInv, Updated, Scanning
<1>14. CASE FirmwareForgets
  BY <1>14 DEF FirmwareForgets, Goto, OrderInv, Updated, Scanning
<1>15. CASE PowerLoss
  BY <1>15, LeftInOrder DEF PowerLoss
<1>16. CASE UNCHANGED vars
  <2>1. UNCHANGED <<entries, order, dirs, files, todo, bootorder, unread, before, pc, disk>>
    BY <1>16 DEF vars, nvram, scan, lists, machine
  <2>2. FromDisk => FromDisk'
    BY <2>1 DEF FromDisk, OnDisk
  <2> QED
    BY <2>1, <2>2, ListStays, OrderStays DEF OrderInv, Updated, Scanning
<1> QED
  BY <1>1, <1>2, <1>3, <1>4, <1>5, <1>6, <1>7, <1>8, <1>9, <1>10, <1>11, <1>12, <1>13, <1>14,
      <1>15, <1>16
     DEF Next, Step

(* Entries fallback does not handle keep their order, and no number comes  *)
(* to be repeated without the excuses, whatever fails on the way.          *)
THEOREM OthersKeepOrder == Spec => []OthersKeepTheirOrder
<1>1. Init => TypeOK /\ BeforeOK /\ OrderInv
  <2> SUFFICES ASSUME Init PROVE TypeOK /\ BeforeOK /\ OrderInv
    OBVIOUS
  <2>1. TypeOK
    BY TypeInit, TypeParts
  <2>2. BeforeOK
    BY EmptySequences DEF Init, BeforeOK, Blank
  <2>3. OrderInv
    BY DEF Init, OrderInv, Updated, Scanning
  <2> QED
    BY <2>1, <2>2, <2>3
<1>2. TypeOK /\ BeforeOK /\ OrderInv /\ [Next]_vars => (TypeOK /\ BeforeOK /\ OrderInv)'
  <2> SUFFICES ASSUME TypeOK, BeforeOK, OrderInv, [Next]_vars PROVE TypeOK' /\ BeforeOK' /\ OrderInv'
    OBVIOUS
  <2>1. StoreOK /\ ScanOK /\ RestOK
    BY TypeParts
  <2> QED
    BY <2>1, OrderStep, BeforeStep, TypeStep
<1>3. OrderInv => OthersKeepTheirOrder
  BY DEF OrderInv, OrderOK, OthersKeepTheirOrder, NotHandled, Handled, Excused
<1> QED
  BY <1>1, <1>2, <1>3, PTL DEF Spec

---------------------------------------------------------------------------
(* HTTP: types                                                             *)

LEMMA FetchBounds ==
    /\ MaxNics \in Nat /\ MaxNics >= 1 /\ BindTries \in Nat /\ DhcpTries \in Nat
    /\ RxSize \in Nat /\ MaxLength \in Nat
  BY ConstantsAssumption

(* The truth values.                                                       *)
FlagsOK ==
    /\ body \in BOOLEAN /\ child \in BOOLEAN /\ event \in BOOLEAN
    /\ done \in BOOLEAN /\ buffer \in BOOLEAN

(* The steps and the other values of small sets.                           *)
NamesOK ==
    /\ at \in Steps /\ job \in {"file", "verify"} /\ method \in {"GET", "POST"}
    /\ token \in {"none", "request", "response"}
    /\ tokenStatus \in {"ok", "error"} /\ code \in {"none", "200", "other"}
    /\ status \in {"ok", "error"}

(* The interfaces and the retries.                                         *)
LoopOK ==
    /\ count \in 0 .. MaxNics /\ nic \in 0 .. count
    /\ tries \in 0 .. BindTries \cup 0 .. DhcpTries
    /\ answered \subseteq 1 .. MaxNics /\ uninformed \subseteq 0 .. MaxNics

(* The download never gets past MaxLength because it never gets past the   *)
(* length the server announced.                                            *)
LengthsOK ==
    /\ length \in 0 .. MaxLength /\ got \in 0 .. RxSize
    /\ buf_size \in 0 .. MaxLength /\ downloaded \in 0 .. MaxLength

LEMMA FetchTypeParts == FetchTypeOK <=> FlagsOK /\ NamesOK /\ LoopOK /\ LengthsOK
  BY Zenon DEF FetchTypeOK, FlagsOK, NamesOK, LoopOK, LengthsOK

LEMMA FlagsStep == FlagsOK /\ [FetchNext]_fetchVars => FlagsOK'
<1> SUFFICES ASSUME FlagsOK, [FetchNext]_fetchVars PROVE FlagsOK'
  OBVIOUS
<1> USE DEF FlagsOK, To, Fail, globals, loop, http, answer, data, asked, Uninformed
<1>1. CASE read_image
  BY <1>1 DEF read_image
<1>2. CASE osign_http_request
  BY <1>2 DEF osign_http_request
<1>3. CASE LocateBindings
  BY <1>3 DEF LocateBindings
<1>4. CASE ConfigureNic
  BY <1>4 DEF ConfigureNic
<1>5. CASE wait_until_get_iface_info
  BY <1>5 DEF wait_until_get_iface_info
<1>6. CASE http_fetch
  BY <1>6 DEF http_fetch
<1>7. CASE send_http_request
  BY <1>7 DEF send_http_request
<1>8. CASE RequestSent
  BY <1>8 DEF RequestSent
<1>9. CASE receive_http_response
  BY <1>9 DEF receive_http_response
<1>10. CASE FirstResponse
  BY <1>10 DEF FirstResponse
<1>11. CASE NextChunk
  BY <1>11 DEF NextChunk
<1>12. CASE ChunkArrived
  BY <1>12 DEF ChunkArrived
<1>13. CASE DestroyChild
  BY <1>13 DEF DestroyChild
<1>14. CASE FetchReturns
  BY <1>14 DEF FetchReturns
<1>15. CASE Return
  BY <1>15 DEF Return
<1>16. CASE Firmware
  BY <1>16 DEF Firmware, RequestCompletes, ResponseCompletes, ChunkCompletes, Complete
<1>17. CASE UNCHANGED fetchVars
  BY <1>17 DEF fetchVars
<1> QED
  BY <1>1, <1>2, <1>3, <1>4, <1>5, <1>6, <1>7, <1>8, <1>9, <1>10, <1>11, <1>12, <1>13, <1>14,
      <1>15, <1>16, <1>17
     DEF FetchNext, Shim

LEMMA NamesStep == NamesOK /\ [FetchNext]_fetchVars => NamesOK'
<1> SUFFICES ASSUME NamesOK, [FetchNext]_fetchVars PROVE NamesOK'
  OBVIOUS
<1> USE DEF NamesOK, Steps, To, Fail, globals, loop, http, answer, data, asked, Uninformed
<1>1. CASE read_image
  BY <1>1 DEF read_image
<1>2. CASE osign_http_request
  BY <1>2 DEF osign_http_request
<1>3. CASE LocateBindings
  BY <1>3 DEF LocateBindings
<1>4. CASE ConfigureNic
  BY <1>4 DEF ConfigureNic
<1>5. CASE wait_until_get_iface_info
  BY <1>5 DEF wait_until_get_iface_info
<1>6. CASE http_fetch
  BY <1>6 DEF http_fetch
<1>7. CASE send_http_request
  BY <1>7 DEF send_http_request
<1>8. CASE RequestSent
  BY <1>8 DEF RequestSent
<1>9. CASE receive_http_response
  BY <1>9 DEF receive_http_response
<1>10. CASE FirstResponse
  BY <1>10 DEF FirstResponse
<1>11. CASE NextChunk
  BY <1>11 DEF NextChunk
<1>12. CASE ChunkArrived
  BY <1>12 DEF ChunkArrived
<1>13. CASE DestroyChild
  BY <1>13 DEF DestroyChild
<1>14. CASE FetchReturns
  BY <1>14 DEF FetchReturns
<1>15. CASE Return
  BY <1>15 DEF Return
<1>16. CASE Firmware
  BY <1>16 DEF Firmware, RequestCompletes, ResponseCompletes, ChunkCompletes, Complete
<1>17. CASE UNCHANGED fetchVars
  BY <1>17 DEF fetchVars
<1> QED
  BY <1>1, <1>2, <1>3, <1>4, <1>5, <1>6, <1>7, <1>8, <1>9, <1>10, <1>11, <1>12, <1>13, <1>14,
      <1>15, <1>16, <1>17
     DEF FetchNext, Shim

LEMMA LoopStep == LoopOK /\ NamesOK /\ [FetchNext]_fetchVars => LoopOK'
<1> SUFFICES ASSUME LoopOK, NamesOK, [FetchNext]_fetchVars PROVE LoopOK'
  OBVIOUS
<1> USE FetchBounds DEF LoopOK, To, Fail, globals, loop, http, answer, data, asked, Uninformed
<1>1. CASE read_image
  BY <1>1 DEF read_image
<1>2. CASE osign_http_request
  BY <1>2 DEF osign_http_request
<1>3. CASE LocateBindings
  BY <1>3 DEF LocateBindings
<1>n. ASSUME uninformed' = uninformed \cup {nic} PROVE uninformed' \subseteq 0 .. MaxNics
  <2>1. nic \in 0 .. MaxNics
    OBVIOUS
  <2> QED
    BY <1>n, <2>1, Zenon
<1>4. CASE ConfigureNic
  <2>1. UNCHANGED <<count, nic, answered>> /\ tries' = 0
    BY <1>4 DEF ConfigureNic
  <2>2. uninformed' = uninformed \/ uninformed' = uninformed \cup {nic}
    BY <1>4 DEF ConfigureNic
  <2>3. uninformed' \subseteq 0 .. MaxNics
    BY <2>2, <1>n, Zenon
  <2> QED
    BY <2>1, <2>3
<1>5. CASE wait_until_get_iface_info
  <2>1. UNCHANGED <<count, nic, answered>>
    BY <1>5 DEF wait_until_get_iface_info
  <2>2. uninformed' = uninformed \/ uninformed' = uninformed \cup {nic}
    BY <1>5 DEF wait_until_get_iface_info
  <2>3. tries' = tries \/ (tries < DhcpTries /\ tries' = tries + 1)
    BY <1>5 DEF wait_until_get_iface_info
  <2>4. uninformed' \subseteq 0 .. MaxNics
    BY <2>2, <1>n, Zenon
  <2> QED
    BY <2>1, <2>3, <2>4
<1>6. CASE http_fetch
  BY <1>6 DEF http_fetch
<1>7. CASE send_http_request
  BY <1>7 DEF send_http_request
<1>8. CASE RequestSent
  BY <1>8 DEF RequestSent
<1>9. CASE receive_http_response
  BY <1>9 DEF receive_http_response
<1>10. CASE FirstResponse
  BY <1>10 DEF FirstResponse
<1>11. CASE NextChunk
  BY <1>11 DEF NextChunk
<1>12. CASE ChunkArrived
  BY <1>12 DEF ChunkArrived
<1>13. CASE DestroyChild
  BY <1>13 DEF DestroyChild
<1>14. CASE FetchReturns
  BY <1>14 DEF FetchReturns
<1>15. CASE Return
  BY <1>15 DEF Return
<1>16. CASE Firmware
  BY <1>16 DEF Firmware, RequestCompletes, ResponseCompletes, ChunkCompletes, Complete
<1>17. CASE UNCHANGED fetchVars
  BY <1>17 DEF fetchVars
<1> QED
  BY <1>1, <1>2, <1>3, <1>4, <1>5, <1>6, <1>7, <1>8, <1>9, <1>10, <1>11, <1>12, <1>13, <1>14,
      <1>15, <1>16, <1>17
     DEF FetchNext, Shim

LEMMA LengthsStep == LengthsOK /\ [FetchNext]_fetchVars => LengthsOK'
<1> SUFFICES ASSUME LengthsOK, [FetchNext]_fetchVars PROVE LengthsOK'
  OBVIOUS
<1> USE FetchBounds DEF LengthsOK, To, Fail, globals, loop, http, answer, data, asked, Uninformed
<1>1. CASE read_image
  BY <1>1 DEF read_image
<1>2. CASE osign_http_request
  BY <1>2 DEF osign_http_request
<1>3. CASE LocateBindings
  BY <1>3 DEF LocateBindings
<1>4. CASE ConfigureNic
  BY <1>4 DEF ConfigureNic
<1>5. CASE wait_until_get_iface_info
  BY <1>5 DEF wait_until_get_iface_info
<1>6. CASE http_fetch
  BY <1>6 DEF http_fetch
<1>7. CASE send_http_request
  BY <1>7 DEF send_http_request
<1>8. CASE RequestSent
  BY <1>8 DEF RequestSent
<1>9. CASE receive_http_response
  BY <1>9 DEF receive_http_response
<1>10. CASE FirstResponse
  BY <1>10 DEF FirstResponse
<1>11. CASE NextChunk
  BY <1>11 DEF NextChunk
<1>12. CASE ChunkArrived
  BY <1>12 DEF ChunkArrived
<1>13. CASE DestroyChild
  BY <1>13 DEF DestroyChild
<1>14. CASE FetchReturns
  BY <1>14 DEF FetchReturns
<1>15. CASE Return
  BY <1>15 DEF Return
<1>16. CASE Firmware
  BY <1>16 DEF Firmware, RequestCompletes, ResponseCompletes, ChunkCompletes, Complete
<1>17. CASE UNCHANGED fetchVars
  BY <1>17 DEF fetchVars
<1> QED
  BY <1>1, <1>2, <1>3, <1>4, <1>5, <1>6, <1>7, <1>8, <1>9, <1>10, <1>11, <1>12, <1>13, <1>14,
      <1>15, <1>16, <1>17
     DEF FetchNext, Shim

(* Every variable keeps its type.                                          *)
THEOREM FetchTypeCorrect == FetchSpec => []FetchTypeOK
<1>1. FetchInit => FetchTypeOK
  <2> SUFFICES ASSUME FetchInit PROVE FetchTypeOK
    OBVIOUS
  <2>1. FlagsOK
    BY DEF FetchInit, FlagsOK
  <2>2. NamesOK
    BY DEF FetchInit, NamesOK, Steps
  <2>3. LoopOK
    BY FetchBounds DEF FetchInit, LoopOK
  <2>4. LengthsOK
    BY FetchBounds DEF FetchInit, LengthsOK
  <2> QED
    BY <2>1, <2>2, <2>3, <2>4, FetchTypeParts
<1>2. FetchTypeOK /\ [FetchNext]_fetchVars => FetchTypeOK'
  <2> SUFFICES ASSUME FetchTypeOK, [FetchNext]_fetchVars PROVE FetchTypeOK'
    OBVIOUS
  <2>1. FlagsOK /\ NamesOK /\ LoopOK /\ LengthsOK
    BY FetchTypeParts
  <2>2. FlagsOK' /\ NamesOK' /\ LoopOK' /\ LengthsOK'
    BY <2>1, FlagsStep, NamesStep, LoopStep, LengthsStep
  <2> QED
    BY <2>2, FetchTypeParts, PTL
<1> QED
  BY <1>1, <1>2, PTL DEF FetchSpec

---------------------------------------------------------------------------
(* HTTP: the frame of the polling function                                 *)

Polling == {"sent", "first", "more"}

(* TokenInFrame, with what makes it inductive: the flag is set only when   *)
(* the firmware is through with the token, the child lives from http_fetch *)
(* to DestroyChild, and the status code tells a first answer from a chunk. *)
FrameInv ==
    /\ TokenInFrame
    /\ at \in Polling => (done <=> token = "none")
    /\ at \in {"request", "response", "destroy"} \cup Polling \cup {"chunk"} => child
    /\ at \in {"bind", "dhcp"} => ~child
    /\ at \in {"sent", "first", "chunk", "more"} => event

LEMMA FrameInit == FetchInit => FrameInv
  BY DEF FetchInit, FrameInv, TokenInFrame, Polling

LEMMA FrameStep == FetchTypeOK /\ FrameInv /\ [FetchNext]_fetchVars => FrameInv'
<1> SUFFICES ASSUME FetchTypeOK, FrameInv, [FetchNext]_fetchVars PROVE FrameInv'
  OBVIOUS
<1> USE DEF FrameInv, TokenInFrame, Polling, To, Fail, globals, loop, http, answer, data, asked, Uninformed
<1>0. token \in {"none", "request", "response"}
  BY DEF FetchTypeOK
<1>1. CASE read_image \/ osign_http_request
  BY <1>1 DEF read_image, osign_http_request
<1>2. CASE LocateBindings \/ ConfigureNic \/ wait_until_get_iface_info
  <2>1. /\ at \in {"bind", "nic", "dhcp"}
        /\ at' \in {"bind", "nic", "dhcp", "setup", "fetched", "done", "hung"}
        /\ UNCHANGED <<child, event, token, done>>
    BY <1>2 DEF LocateBindings, ConfigureNic, wait_until_get_iface_info
  <2> QED
    BY <2>1
<1>3. CASE http_fetch
  BY <1>3, <1>0 DEF http_fetch
<1>4. CASE send_http_request
  BY <1>4, <1>0 DEF send_http_request
<1>5. CASE RequestSent \/ receive_http_response
  BY <1>5, <1>0 DEF RequestSent, receive_http_response
<1>6. CASE FirstResponse
  <2>1. at = "first" /\ done /\ UNCHANGED <<child, token>>
    BY <1>6 DEF FirstResponse
  <2>2. \/ at' = "destroy" /\ event' = FALSE
        \/ at' = "chunk" /\ event' = event
    BY <1>6 DEF FirstResponse
  <2>3. token = "none" /\ child = TRUE /\ event = TRUE
    BY <2>1, <1>0 DEF FetchTypeOK
  <2>4. token' = "none" /\ child' = TRUE
    BY <2>1, <2>3
  <2>5. CASE at' = "destroy" /\ event' = FALSE
    BY <2>4, <2>5
  <2>6. CASE at' = "chunk" /\ event' = event
    <3>1. event' = TRUE
      BY <2>3, <2>6
    <3> QED
      BY <2>4, <2>6, <3>1
  <2> QED
    BY <2>2, <2>5, <2>6, Zenon
<1>7. CASE NextChunk \/ ChunkArrived
  BY <1>7, <1>0 DEF NextChunk, ChunkArrived
<1>8. CASE DestroyChild \/ FetchReturns \/ Return
  BY <1>8, <1>0 DEF DestroyChild, FetchReturns, Return
<1>9. CASE Firmware
  BY <1>9, <1>0 DEF Firmware, RequestCompletes, ResponseCompletes, ChunkCompletes, Complete
<1>10. CASE UNCHANGED fetchVars
  BY <1>10 DEF fetchVars
<1> QED
  BY <1>1, <1>2, <1>3, <1>4, <1>5, <1>6, <1>7, <1>8, <1>9, <1>10 DEF FetchNext, Shim

(* No error path of send_http_request or receive_http_response returns     *)
(* while the firmware still works on a token in their frames.              *)
THEOREM NoTokenOutlivesItsFrame == FetchSpec => []TokenInFrame
<1>1. FrameInv => TokenInFrame
  BY DEF FrameInv
<1> QED
  BY <1>1, FrameInit, FrameStep, FetchTypeCorrect, PTL DEF FetchSpec

---------------------------------------------------------------------------
(* HTTP: the download                                                      *)

(* Files do not ask the interfaces, of which one may be passed over.       *)
(* From http_fetch on there is no buffer and no status code until the      *)
(* first response gives both; from then on a successful end of http_fetch  *)
(* means 200, and a buffer that is full.                                   *)
FileInv ==
    /\ buffer => downloaded <= buf_size
    /\ at \in {"request", "sent", "response", "first"} => ~buffer
    /\ at \in {"chunk", "more"} => code = "200" /\ buf_size > 0
    /\ (at = "more" /\ token = "response") => code # "none"
    /\ at \in {"bind", "nic", "dhcp"} => job = "verify"
    /\ (at = "destroy" \/ (at \in {"fetched", "done"} /\ job = "file")) /\ status = "ok" =>
          code = "200" /\ (buffer => buf_size > 0 /\ downloaded = buf_size)

LEMMA FileInit == FetchInit => FileInv
  BY DEF FetchInit, FileInv

LEMMA FileStep == FetchTypeOK /\ FrameInv /\ FileInv /\ [FetchNext]_fetchVars => FileInv'
<1> SUFFICES ASSUME FetchTypeOK, FrameInv, FileInv, [FetchNext]_fetchVars PROVE FileInv'
  OBVIOUS
<1> USE FetchBounds
    DEF FileInv, To, Fail, globals, loop, http, answer, data, asked, Uninformed
<1>0. /\ length \in Nat /\ got \in Nat /\ buf_size \in Nat /\ downloaded \in Nat
      /\ buffer \in BOOLEAN
  BY DEF FetchTypeOK
<1>1. CASE read_image \/ osign_http_request
  BY <1>1 DEF read_image, osign_http_request
<1>2. CASE LocateBindings \/ ConfigureNic \/ wait_until_get_iface_info
  BY <1>2 DEF LocateBindings, ConfigureNic, wait_until_get_iface_info
<1>3. CASE http_fetch
  BY <1>3 DEF http_fetch
<1>4. CASE send_http_request \/ RequestSent \/ receive_http_response
  BY <1>4 DEF send_http_request, RequestSent, receive_http_response
<1>5. CASE FirstResponse
  BY <1>5, <1>0 DEF FirstResponse
<1>6. CASE NextChunk
  BY <1>6, <1>0 DEF NextChunk
<1>7. CASE ChunkArrived
  BY <1>7, <1>0 DEF ChunkArrived
<1>8. CASE DestroyChild \/ Return
  BY <1>8 DEF DestroyChild, Return
<1>9. CASE FetchReturns
  BY <1>9 DEF FetchReturns
<1>10. CASE RequestCompletes
  BY <1>10 DEF RequestCompletes, Complete
<1>11. CASE ResponseCompletes
  \* a first answer: nothing has been downloaded yet
  <2>1. at = "first" /\ at' = "first"
    BY <1>11 DEF ResponseCompletes, FrameInv, TokenInFrame
  <2> QED
    BY <2>1, <1>11 DEF ResponseCompletes
<1>12. CASE \E n \in 0 .. RxSize : ChunkCompletes(n)
  BY <1>12 DEF ChunkCompletes, Complete
<1>13. CASE UNCHANGED fetchVars
  BY <1>13 DEF fetchVars
<1> QED
  BY <1>1, <1>2, <1>3, <1>4, <1>5, <1>6, <1>7, <1>8, <1>9, <1>10, <1>11, <1>12, <1>13
     DEF FetchNext, Shim, Firmware

(* A download that read_image gets without an error is the whole file.     *)
THEOREM DownloadsAreWhole == FetchSpec => []WholeFile
<1>1. FileInv => WholeFile
  BY DEF FileInv, WholeFile
<1> QED
  BY <1>1, FileInit, FileStep, FrameInit, FrameStep, FetchTypeCorrect, PTL DEF FetchSpec

---------------------------------------------------------------------------
(* HTTP: the verification                                                  *)

Fetching == {"nic", "dhcp", "setup", "request", "sent", "response", "first"}

(* The servers of the interfaces before this one have answered 200, but    *)
(* for those without information, and that of this one as soon as its      *)
(* first response has been accepted.                                       *)
Voted(n) == uninformed \subseteq 1 .. n /\ answered = (1 .. n) \ uninformed
VoteInv ==
    job = "verify" =>
        /\ at = "bind" => answered = {} /\ uninformed = {}
        /\ at \in Fetching \cup {"chunk", "more", "destroy", "fetched"} => nic \in 1 .. count
        /\ at \in Fetching => Voted(nic - 1)
        /\ at \in {"chunk", "more"} => Voted(nic)
        /\ at \in {"destroy", "fetched"} /\ status = "ok" => Voted(nic)
        /\ at = "done" /\ status = "ok" => count > 0 /\ Voted(count)

LEMMA VoteInit == FetchInit => VoteInv
  BY DEF FetchInit, VoteInv

LEMMA OneMore ==
    ASSUME NEW n \in Nat \ {0}, NEW U, U \subseteq 1 .. (n - 1)
    PROVE  /\ ((1 .. (n - 1)) \ U) \cup ({n} \ {0}) = (1 .. n) \ U
           /\ (1 .. (n - 1)) \ U = (1 .. n) \ (U \cup {n})
           /\ U \subseteq 1 .. n /\ U \cup {n} \subseteq 1 .. n
  OBVIOUS

LEMMA VoteStep == FetchTypeOK /\ VoteInv /\ [FetchNext]_fetchVars => VoteInv'
<1> SUFFICES ASSUME FetchTypeOK, VoteInv, [FetchNext]_fetchVars PROVE VoteInv'
  OBVIOUS
<1> USE FetchBounds
    DEF VoteInv, Voted, Fetching, To, Fail, globals, loop, http, answer, data, asked, Uninformed
<1>0. count \in Nat /\ nic \in Nat /\ nic <= count
  BY DEF FetchTypeOK
<1>1. CASE read_image \/ osign_http_request
  BY <1>1 DEF read_image, osign_http_request
<1>2. CASE LocateBindings
  <2>1. at = "bind" /\ UNCHANGED <<job, answered, uninformed>>
    BY <1>2 DEF LocateBindings
  <2>2. \/ at' = "nic" /\ count' \in 1 .. MaxNics /\ nic' = 1
        \/ at' = "bind"
        \/ at' = "done" /\ status' = "error"
    BY <1>2, <2>1 DEF LocateBindings
  <2> QED
    BY <2>1, <2>2
<1>3. CASE ConfigureNic
  <2>1. at = "nic" /\ UNCHANGED <<job, count, nic>>
    BY <1>3 DEF ConfigureNic
  <2>2. CASE at' \in {"setup", "dhcp"} /\ UNCHANGED asked
    BY <2>1, <2>2
  <2>3. CASE Fail("fetched")
    BY <2>1, <2>3
  <2>4. CASE job = "verify" /\ To("fetched") /\ Uninformed
    <3>1. nic \in Nat \ {0} /\ Voted(nic - 1)
      BY <2>1, <2>4, <1>0
    <3>2. answered' = (1 .. nic) \ uninformed' /\ uninformed' \subseteq 1 .. nic
      BY <2>4, <3>1, OneMore
    <3> QED
      BY <2>1, <2>4, <3>2
  <2>5. CASE job = "file"
    BY <2>1, <2>5
  <2> QED
    BY <1>3, <2>1, <2>2, <2>3, <2>4, <2>5 DEF ConfigureNic, FetchTypeOK
<1>4. CASE wait_until_get_iface_info
  BY <1>4 DEF wait_until_get_iface_info
<1>5. CASE http_fetch
  BY <1>5 DEF http_fetch
<1>6. CASE send_http_request \/ RequestSent \/ receive_http_response
  BY <1>6 DEF send_http_request, RequestSent, receive_http_response
<1>7. CASE FirstResponse
  <2>1. CASE tokenStatus = "error" \/ code # "200"
    BY <1>7, <2>1 DEF FirstResponse
  <2>2. CASE tokenStatus = "ok" /\ code = "200" /\ job = "verify"
    <3>1. nic \in Nat \ {0} /\ Voted(nic - 1) /\ uninformed' = uninformed
      BY <1>7, <2>2, <1>0 DEF FirstResponse
    <3>2. answered' = (1 .. nic) \ uninformed /\ uninformed \subseteq 1 .. nic
      BY <1>7, <2>2, <3>1, OneMore DEF FirstResponse
    <3>3. UNCHANGED <<job, count, nic>> /\ at' \in {"destroy", "chunk"} /\ nic \in 1 .. count
      BY <1>7, <2>2 DEF FirstResponse
    <3> QED
      BY <2>2, <3>1, <3>2, <3>3
  <2>3. CASE job = "file"
    BY <1>7, <2>3 DEF FirstResponse
  <2> QED
    BY <2>1, <2>2, <2>3 DEF FetchTypeOK
<1>8. CASE NextChunk \/ ChunkArrived
  BY <1>8 DEF NextChunk, ChunkArrived
<1>9. CASE DestroyChild \/ Return
  BY <1>9 DEF DestroyChild, Return
<1>10. CASE FetchReturns
  BY <1>10, <1>0 DEF FetchReturns
<1>11. CASE Firmware
  BY <1>11 DEF Firmware, RequestCompletes, ResponseCompletes, ChunkCompletes, Complete
<1>12. CASE UNCHANGED fetchVars
  BY <1>12 DEF fetchVars
<1> QED
  BY <1>1, <1>2, <1>3, <1>4, <1>5, <1>6, <1>7, <1>8, <1>9, <1>10, <1>11, <1>12
     DEF FetchNext, Shim

(* An image passes the remote verifier only when the server answered 200   *)
(* on every interface whose GetData did not succeed without information.   *)
THEOREM EveryInterfaceAgrees == FetchSpec => []VerifiedByAll
<1>1. VoteInv => VerifiedByAll
  BY DEF VoteInv, Voted, VerifiedByAll
<1> QED
  BY <1>1, VoteInit, VoteStep, FetchTypeCorrect, PTL DEF FetchSpec
=============================================================================
