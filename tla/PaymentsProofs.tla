--------------------------- MODULE PaymentsProofs ---------------------------
(***************************************************************************)
(* Proofs about modules Conversions and Payments, for routes of any        *)
(* length, every width of the fields, every amount, deadline and number    *)
(* of tries.  First the conversions: a channel id and an amount survive    *)
(* each change of their form; then the payments that rest on them.         *)
(***************************************************************************)
EXTENDS Payments, SequenceTheorems, WellFoundedInduction, TLAPS

(***************************************************************************)
(* Quotient and remainder of a product and a smaller rest.                 *)
(***************************************************************************)
LEMMA ProductGrows ==
  ASSUME NEW w \in Nat \ {0}, NEW a \in Int, NEW b \in Int, a < b
  PROVE  a * w + w <= b * w
<1>1. (b - a) - 1 >= 0 /\ w >= 0
  OBVIOUS
<1>2. ((b - a) - 1) * w >= 0
  BY <1>1, SMT
<1>3. ((b - a) - 1) * w = b * w - a * w - w
  BY SMT
<1> QED BY <1>2, <1>3, SMT

LEMMA Euclid ==
  ASSUME NEW w \in Nat \ {0}, NEW a \in Nat, NEW b \in 0 .. w - 1
  PROVE  (a * w + b) \div w = a /\ (a * w + b) % w = b
<1> DEFINE n == a * w + b
           q == n \div w
           r == n % w
<1>1. n \in Int /\ a * w \in Int
  BY SMT
<1>2. q \in Int /\ r \in 0 .. w - 1 /\ n = q * w + r
  BY <1>1, SMT
<1> HIDE DEF n, q, r
<1>0. n = a * w + b
  BY DEF n
<1>3. ~ (q < a)
  <2> SUFFICES ASSUME q < a PROVE FALSE
    OBVIOUS
  <2>1. q * w + w <= a * w
    BY <1>2, ProductGrows
  <2>2. q * w \in Int /\ a * w \in Int
    BY <1>2, SMT
  <2> QED BY <2>1, <2>2, <1>0, <1>2, SMT
<1>4. ~ (a < q)
  <2> SUFFICES ASSUME a < q PROVE FALSE
    OBVIOUS
  <2>1. a * w + w <= q * w
    BY <1>2, ProductGrows
  <2>2. q * w \in Int /\ a * w \in Int
    BY <1>2, SMT
  <2> QED BY <2>1, <2>2, <1>0, <1>2, SMT
<1>5. q = a
  BY <1>2, <1>3, <1>4
<1>6. r = b
  BY <1>0, <1>1, <1>2, <1>5
<1> QED BY <1>5, <1>6 DEF n, q, r

-----------------------------------------------------------------------------
(* Short channel ids.                                                      *)

(***************************************************************************)
(* lightning_node.go: the number that ToUint64 makes of a channel id is    *)
(* turned back into that id by NewShortChanIDFromInt, so that the hops of  *)
(* a route that lnd found name the same channels when it is asked to pay.  *)
(***************************************************************************)
THEOREM IntRoundTrip == \A s \in Scids : NewShortChanIDFromInt(ToUint64(s)) = s
<1> SUFFICES ASSUME NEW s \in Scids
             PROVE  NewShortChanIDFromInt(ToUint64(s)) = s
  OBVIOUS
<1> DEFINE top == s.height * TxWidth + s.tx
<1>1. /\ HeightWidth \in Nat \ {0} /\ TxWidth \in Nat \ {0} /\ OutWidth \in Nat \ {0}
      /\ s = [height |-> s.height, tx |-> s.tx, out |-> s.out]
      /\ s.height \in Nat /\ s.tx \in 0 .. TxWidth - 1 /\ s.out \in 0 .. OutWidth - 1
  BY WidthAssumption DEF Scids
<1>2. s.height * TxWidth \in Nat
  BY <1>1, SMT
<1>3. top \in Nat
  BY <1>1, <1>2
<1>4. top \div TxWidth = s.height /\ top % TxWidth = s.tx
  BY <1>1, Euclid
<1>5. ToUint64(s) = top * OutWidth + s.out
  BY DEF ToUint64
<1> HIDE DEF top
<1>6. ToUint64(s) \div OutWidth = top /\ ToUint64(s) % OutWidth = s.out
  BY <1>1, <1>3, <1>5, Euclid
<1> QED BY <1>1, <1>4, <1>6 DEF NewShortChanIDFromInt

(***************************************************************************)
(* The other way round: a number that has the width of a channel id is     *)
(* made of the id it is taken apart into.                                  *)
(***************************************************************************)
THEOREM ScidOfEveryInt ==
  \A id \in Nat : ToUint64(NewShortChanIDFromInt(id)) = id
<1> SUFFICES ASSUME NEW id \in Nat
             PROVE  ToUint64(NewShortChanIDFromInt(id)) = id
  OBVIOUS
<1> DEFINE top == id \div OutWidth
<1>1. TxWidth \in Nat \ {0} /\ OutWidth \in Nat \ {0}
  BY WidthAssumption
<1>2. top \in Nat /\ id = top * OutWidth + (id % OutWidth)
  BY <1>1, SMT
<1> HIDE DEF top
<1>3. (top \div TxWidth) * TxWidth + (top % TxWidth) = top
  BY <1>1, <1>2, SMT
<1> QED BY <1>2, <1>3 DEF ToUint64, NewShortChanIDFromInt, top

(***************************************************************************)
(* The three numbers that String prints of a channel id are read back by   *)
(* NewShortChanIDFromString, whose parse errors are dropped: none occurs.  *)
(***************************************************************************)
THEOREM StringRoundTrip == \A s \in Scids : NewShortChanIDFromString(String(s)) = s
<1> SUFFICES ASSUME NEW s \in Scids
             PROVE  NewShortChanIDFromString(String(s)) = s
  OBVIOUS
<1>1. /\ s = [height |-> s.height, tx |-> s.tx, out |-> s.out]
      /\ s.height < FieldWidth /\ s.tx < FieldWidth /\ s.out < OutWidth
  BY WidthAssumption DEF Scids
<1>2. /\ String(s)[1] = s.height /\ String(s)[2] = s.tx /\ String(s)[3] = s.out
  BY DEF String
<1> QED BY <1>1, <1>2 DEF NewShortChanIDFromString, ParseUint

-----------------------------------------------------------------------------
(***************************************************************************)
(* Induction and recursion over the natural numbers.  An induction over    *)
(* data needs no operator for the formula that is proved: the set of the   *)
(* numbers it holds for will do.                                           *)
(***************************************************************************)

\* The smallest of a set of natural numbers.
LEMMA Least ==
  ASSUME NEW S \in SUBSET Nat, S # {}
  PROVE  \E m \in S : \A k \in S : m <= k
<1>1. IsWellFoundedOn(OpToRel(<, Nat), Nat)
  BY NatLessThanWellFounded
<1>2. PICK m \in S : \A k \in S : ~ (<<k, m>> \in OpToRel(<, Nat))
  BY <1>1, WFMin, Zenon
<1>3. \A k \in S : ~ (k < m)
  BY <1>2 DEF OpToRel
<1> QED BY <1>3

\* Induction up to a bound.
LEMMA UpTo ==
  ASSUME NEW n \in Nat, NEW S, 0 \in S,
         \A k \in 1 .. n : k - 1 \in S => k \in S
  PROVE  0 .. n \subseteq S
<1> SUFFICES ASSUME ~ (0 .. n \subseteq S) PROVE FALSE
  OBVIOUS
<1> DEFINE T == (0 .. n) \ S
<1>1. T \in SUBSET Nat /\ T # {}
  OBVIOUS
<1>2. PICK m \in T : \A k \in T : m <= k
  BY <1>1, Least
<1>3. m # 0 /\ m \in 1 .. n
  BY <1>2
<1>4. m - 1 \in 0 .. n /\ m - 1 \notin T
  BY <1>2, <1>3
<1> QED BY <1>2, <1>3, <1>4

\* A recursive function over 0 .. n is what its definition says: step is the
\* value at k made of the one at k - 1.
Iterates(f, n, A, start, step) ==
  /\ f \in [0 .. n -> A]
  /\ f[0] = start
  /\ \A k \in 1 .. n : f[k] = step[<<f[k - 1], k>>]

LEMMA Recursion ==
  ASSUME NEW n \in Nat, NEW A, NEW start \in A, NEW step \in [A \X (1 .. n) -> A]
  PROVE  \E f : Iterates(f, n, A, start, step)
<1> DEFINE Follows(f, m) == f[0] = start /\ \A k \in 1 .. m : f[k] = step[<<f[k - 1], k>>]
           S == {m \in 0 .. n : \E f \in [0 .. m -> A] : Follows(f, m)}
<1>1. 0 \in S
  <2> DEFINE f == [k \in 0 .. 0 |-> start]
  <2>1. f \in [0 .. 0 -> A] /\ Follows(f, 0)
    OBVIOUS
  <2> HIDE DEF f
  <2> QED BY <2>1
<1>2. ASSUME NEW m \in 1 .. n, m - 1 \in S PROVE m \in S
  <2>1. PICK f \in [0 .. m - 1 -> A] : Follows(f, m - 1)
    BY <1>2
  <2>2. /\ m \in 0 .. n /\ m - 1 \in 0 .. m - 1 /\ f[m - 1] \in A
        /\ step[<<f[m - 1], m>>] \in A
    BY <2>1
  <2> DEFINE g == [k \in 0 .. m |-> IF k = m THEN step[<<f[m - 1], m>>] ELSE f[k]]
  <2>3. g \in [0 .. m -> A] /\ g[0] = start
    BY <2>1, <2>2
  <2>4. ASSUME NEW k \in 1 .. m PROVE g[k] = step[<<g[k - 1], k>>]
    <3>1. k - 1 \in 0 .. m /\ k - 1 # m /\ k \in 0 .. m
      OBVIOUS
    <3>2. g[k - 1] = f[k - 1]
      BY <3>1
    <3>3. CASE k = m
      <4>1. g[k] = step[<<f[m - 1], m>>]
        BY <3>1, <3>3
      <4> QED BY <3>2, <3>3, <4>1
    <3>4. CASE k # m
      <4>1. k \in 1 .. m - 1 /\ g[k] = f[k]
        BY <3>1, <3>4
      <4>2. f[k] = step[<<f[k - 1], k>>]
        BY <2>1, <4>1
      <4> QED BY <3>2, <4>1, <4>2
    <3> QED BY <3>3, <3>4
  <2> HIDE DEF g
  <2>5. Follows(g, m)
    BY <2>3, <2>4
  <2> QED BY <2>2, <2>3, <2>5
<1> HIDE DEF S
<1>3. n \in S
  BY <1>1, <1>2, UpTo
<1> QED BY <1>3 DEF S, Iterates

-----------------------------------------------------------------------------
(* Amounts.                                                                *)

LEMMA Pow10Def ==
  /\ Pow10 \in [0 .. Places -> Nat \ {0}]
  /\ Pow10[0] = 1
  /\ \A k \in 1 .. Places : Pow10[k] = 10 * Pow10[k - 1]
<1> DEFINE A == Nat \ {0}
           step == [p \in A \X (1 .. Places) |-> 10 * p[1]]
           Rec(f) == [k \in 0 .. Places |-> IF k = 0 THEN 1 ELSE 10 * f[k - 1]]
<1>0. Places \in Nat
  BY WidthAssumption
<1>1. step \in [A \X (1 .. Places) -> A] /\ 1 \in A
  OBVIOUS
<1> HIDE DEF step
<1>2. PICK f : Iterates(f, Places, A, 1, step)
  BY <1>0, <1>1, Recursion
<1>3. \A k \in 1 .. Places : f[k] = 10 * f[k - 1]
  <2> SUFFICES ASSUME NEW k \in 1 .. Places PROVE f[k] = 10 * f[k - 1]
    OBVIOUS
  <2>1. f[k - 1] \in A
    BY <1>0, <1>2 DEF Iterates
  <2> QED BY <1>2, <2>1 DEF step, Iterates
<1>4. f = Rec(f)
  BY <1>0, <1>2, <1>3 DEF Iterates
<1>5. Pow10 = CHOOSE g : g = Rec(g)
  BY DEF Pow10
<1>6. Pow10 = Rec(Pow10)
  BY <1>4, <1>5
<1> HIDE DEF Rec
<1>7. \A k \in 0 .. Places : Pow10[k] = IF k = 0 THEN 1 ELSE 10 * Pow10[k - 1]
  BY <1>6 DEF Rec
<1>8. DOMAIN Pow10 = 0 .. Places /\ Pow10 = [k \in 0 .. Places |-> Pow10[k]]
  BY <1>6 DEF Rec
<1>9. \A k \in 0 .. Places : Pow10[k] \in A
  <2> DEFINE S == {k \in 0 .. Places : Pow10[k] \in A}
  <2>1. 0 \in S
    BY <1>0, <1>7
  <2>2. ASSUME NEW k \in 1 .. Places, k - 1 \in S PROVE k \in S
    BY <1>0, <1>7, <2>2
  <2> HIDE DEF S
  <2>3. 0 .. Places \subseteq S
    BY <1>0, <2>1, <2>2, UpTo
  <2> QED BY <2>3 DEF S
<1>10. Pow10 \in [0 .. Places -> A]
  BY <1>8, <1>9
<1> QED BY <1>0, <1>7, <1>10

\* A larger power is not below a smaller one.
LEMMA Pow10Grows ==
  ASSUME NEW j \in 0 .. Places, NEW k \in 0 .. Places, j <= k
  PROVE  Pow10[j] <= Pow10[k]
<1>0. Places \in Nat
  BY WidthAssumption
<1> DEFINE S == {m \in 0 .. Places : j <= m => Pow10[j] <= Pow10[m]}
<1>1. 0 \in S
  BY <1>0, Pow10Def
<1>2. ASSUME NEW m \in 1 .. Places, m - 1 \in S PROVE m \in S
  <2>1. /\ Pow10[m] = 10 * Pow10[m - 1] /\ Pow10[m - 1] \in Nat
        /\ Pow10[j] \in Nat /\ m \in 0 .. Places
    BY <1>0, Pow10Def
  <2> QED BY <1>2, <2>1
<1> HIDE DEF S
<1>3. 0 .. Places \subseteq S
  BY <1>0, <1>1, <1>2, UpTo
<1> QED BY <1>3 DEF S

\* A number below one bitcoin has at most Places digits.
LEMMA DigitsDef ==
  ASSUME NEW n \in Nat, n < OneBitcoin
  PROVE  Digits(n) \in 1 .. Places /\ n < Pow10[Digits(n)]
<1> DEFINE S == {w \in 1 .. Places : n < Pow10[w]}
<1>0. Places \in Nat \ {0}
  BY WidthAssumption
<1>1. Places \in S
  BY <1>0 DEF OneBitcoin
<1>2. S \in SUBSET Nat /\ S # {}
  BY <1>1
<1> HIDE DEF S
<1>3. PICK w \in S : \A v \in S : w <= v
  BY <1>2, Least
<1>4. w \in 1 .. Places /\ n < Pow10[w]
  BY <1>3 DEF S
<1>5. \A v \in 1 .. w - 1 : n >= Pow10[v]
  <2> SUFFICES ASSUME NEW v \in 1 .. w - 1 PROVE n >= Pow10[v]
    OBVIOUS
  <2>0. v \in 1 .. Places /\ v \in 0 .. Places
    BY <1>0, <1>4
  <2>1. v \in 1 .. Places /\ Pow10[v] \in Nat
    BY <2>0, Pow10Def
  <2>2. v \notin S
    BY <1>3, <1>4
  <2> QED BY <2>1, <2>2 DEF S
<1> QED BY <1>4, <1>5 DEF Digits

\* Quotients by successive powers.
LEMMA NextDigit ==
  ASSUME NEW n \in Nat, NEW j \in 0 .. Places - 1
  PROVE  /\ n \div Pow10[j] \in Nat
         /\ n \div Pow10[j] = 10 * (n \div Pow10[j + 1]) + ((n \div Pow10[j]) % 10)
<1>0. /\ Pow10[j] \in Nat \ {0} /\ Pow10[j + 1] = 10 * Pow10[j]
      /\ Pow10[j + 1] \in Nat \ {0}
  <2>1. Places \in Nat
    BY WidthAssumption
  <2>2. j \in 0 .. Places /\ j + 1 \in 1 .. Places /\ (j + 1) - 1 = j
    BY <2>1
  <2> QED BY <2>2, Pow10Def
<1> DEFINE p == Pow10[j]
           q == n \div p
           r == n % p
           d == q % 10
           t == q \div 10
<1>p. p \in Nat \ {0}
  BY <1>0
<1> HIDE DEF p
<1>1. q \in Nat /\ r \in 0 .. p - 1 /\ n = q * p + r
  BY <1>p, SMT
<1>2. d \in 0 .. 9 /\ t \in Nat /\ q = 10 * t + d
  BY <1>1, SMT
<1> HIDE DEF q, r, d, t
<1>3. d * p + r \in 0 .. 10 * p - 1
  <2>1. d * p <= 9 * p /\ d * p >= 0
    BY <1>p, <1>2, SMT
  <2>2. d * p \in Int /\ d \in Int /\ p \in Int /\ r \in Int
    BY <1>p, <1>1, <1>2, SMT
  <2> QED BY <1>1, <2>1, <2>2, SMT
<1>4. n = t * (10 * p) + (d * p + r)
  <2>1. q * p = t * (10 * p) + d * p
    BY <1>p, <1>2, SMT
  <2> QED BY <1>p, <1>1, <1>2, <2>1, SMT
<1>5. n \div (10 * p) = t
  <2>1. 10 * p \in Nat \ {0}
    BY <1>p
  <2> QED BY <1>2, <1>3, <1>4, <2>1, Euclid
<1>6. Pow10[j + 1] = 10 * p
  BY <1>0 DEF p
<1>7. n \div Pow10[j] = q /\ q % 10 = d
  BY DEF q, d, p
<1>8. n \div Pow10[j + 1] = t
  BY <1>5, <1>6
<1> QED BY <1>1, <1>2, <1>7, <1>8

\* The quotient of a natural number; it is zero below the divisor.
LEMMA Quotient ==
  ASSUME NEW n \in Nat, NEW p \in Nat \ {0}
  PROVE  n \div p \in Nat /\ (n < p => n \div p = 0)
BY SMT

\* The decimal places of a number below one bitcoin, and how one more place is
\* read.
Expansion(r) == [k \in 1 .. Places |-> (r \div Pow10[Places - k]) % 10]
Reading(frac) == [p \in Nat \X (1 .. Places) |-> 10 * p[1] + frac[p[2]]]

\* Leading zeros are the digits of the powers a number does not reach.
LEMMA Padded ==
  ASSUME NEW r \in Nat, r < OneBitcoin
  PROVE  Pad(FormatUint(r)) = Expansion(r)
<1> DEFINE w == Digits(r)
           z == [k \in 1 .. Places - w |-> 0]
           s == FormatUint(r)
<1>0. Places \in Nat \ {0} /\ w \in 1 .. Places /\ r < Pow10[w]
  BY WidthAssumption, DigitsDef
<1>d. ASSUME NEW j \in 0 .. Places
      PROVE  Pow10[j] \in Nat \ {0} /\ (r \div Pow10[j]) % 10 \in 0 .. 9
  <2>1. Pow10[j] \in Nat \ {0}
    BY Pow10Def
  <2>2. r \div Pow10[j] \in Nat
    BY <2>1, SMT
  <2> QED BY <2>1, <2>2, SMT
<1>1. s = [k \in 1 .. w |-> (r \div Pow10[w - k]) % 10]
  BY DEF FormatUint
<1> HIDE DEF w, s
<1>2. s \in Seq(0 .. 9) /\ Len(s) = w
  <2>1. \A k \in 1 .. w : (r \div Pow10[w - k]) % 10 \in 0 .. 9
    BY <1>0, <1>d
  <2> QED BY <1>0, <1>1, <2>1
<1>3. z \in Seq(0 .. 9) /\ Len(z) = Places - w
  BY <1>0
<1>4. Pad(s) = z \o s
  BY <1>2 DEF Pad
<1>5. /\ z \o s \in Seq(0 .. 9) /\ Len(z \o s) = Places
      /\ \A k \in 1 .. Places :
           (z \o s)[k] = IF k <= Places - w THEN z[k] ELSE s[k - (Places - w)]
  <2> HIDE DEF z
  <2>1. /\ z \o s \in Seq(0 .. 9) /\ Len(z \o s) = Len(z) + Len(s)
        /\ \A k \in 1 .. Len(z) + Len(s) :
             (z \o s)[k] = IF k <= Len(z) THEN z[k] ELSE s[k - Len(z)]
    BY <1>2, <1>3, ConcatProperties, Zenon
  <2>2. Len(z) + Len(s) = Places
    BY <1>0, <1>2, <1>3
  <2> QED BY <1>3, <2>1, <2>2
<1>6. ASSUME NEW k \in 1 .. Places
      PROVE  (z \o s)[k] = (r \div Pow10[Places - k]) % 10
  <2>1. CASE k <= Places - w
    <3>1. Pow10[w] <= Pow10[Places - k]
      BY <1>0, <2>1, Pow10Grows
    <3>2. r < Pow10[Places - k] /\ Pow10[Places - k] \in Nat \ {0}
      BY <1>0, <1>d, <3>1
    <3> DEFINE p == Pow10[Places - k]
    <3> HIDE DEF p
    <3>3. p \in Nat \ {0} /\ r < p
      BY <3>2 DEF p
    <3>4. r \div p = 0
      BY <3>3, SMT
    <3>5. (r \div p) % 10 = 0
      BY <3>4
    <3>6. z[k] = 0
      BY <1>0, <2>1
    <3> HIDE DEF z
    <3> QED BY <1>5, <2>1, <3>5, <3>6 DEF p
  <2>2. CASE k > Places - w
    <3>1. k - (Places - w) \in 1 .. w /\ w - (k - (Places - w)) = Places - k
      BY <1>0, <2>2
    <3>2. s[k - (Places - w)] = (r \div Pow10[Places - k]) % 10
      BY <1>1, <3>1
    <3> HIDE DEF z
    <3> QED BY <1>0, <1>5, <2>2, <3>2
  <2>3. k <= Places - w \/ k > Places - w
    BY <1>0
  <2> QED BY <2>1, <2>2, <2>3, Zenon
<1> HIDE DEF z
<1>7. z \o s = [k \in 1 .. Places |-> (z \o s)[k]]
  <2>1. z \o s \in [1 .. Places -> 0 .. 9]
    BY <1>5, LenProperties
  <2> QED BY <2>1
<1>8. z \o s = [k \in 1 .. Places |-> (r \div Pow10[Places - k]) % 10]
  BY <1>6, <1>7, Zenon
<1> QED BY <1>4, <1>8 DEF s, Expansion

\* What bitcoind has read after k decimal places.
LEMMA ReadSoFar ==
  ASSUME NEW whole \in Nat, NEW r \in Nat, r < OneBitcoin,
         NEW value, Iterates(value, Places, Nat, whole, Reading(Expansion(r)))
  PROVE  value[Places] = whole * OneBitcoin + r
<1> DEFINE frac == Expansion(r)
           Part(k) == r \div Pow10[Places - k]
           S == {k \in 0 .. Places : value[k] = whole * Pow10[k] + Part(k)}
<1>0. Places \in Nat \ {0}
  BY WidthAssumption
<1>p. \A k \in 0 .. Places : Pow10[k] \in Nat \ {0} /\ Part(k) \in Nat
  <2> SUFFICES ASSUME NEW k \in 0 .. Places
               PROVE  Pow10[k] \in Nat \ {0} /\ Part(k) \in Nat
    OBVIOUS
  <2>1. k \in 0 .. Places /\ Places - k \in 0 .. Places
    BY <1>0
  <2>2. Pow10[k] \in Nat \ {0} /\ Pow10[Places - k] \in Nat \ {0}
    BY <2>1, Pow10Def
  <2> DEFINE p == Pow10[Places - k]
  <2> HIDE DEF p
  <2>3. p \in Nat \ {0}
    BY <2>2 DEF p
  <2>4. r \div p \in Nat
    BY <2>3, Quotient, Zenon
  <2>5. Part(k) = r \div p
    BY DEF p
  <2> HIDE DEF Part
  <2> QED BY <2>2, <2>4, <2>5
<1>f. \A k \in 1 .. Places : frac[k] = Part(k) % 10
  BY DEF Expansion
<1> HIDE DEF frac
<1>i. Iterates(value, Places, Nat, whole, Reading(frac))
  BY DEF frac
<1>v. /\ value \in [0 .. Places -> Nat] /\ value[0] = whole
      /\ \A k \in 1 .. Places : value[k] = 10 * value[k - 1] + frac[k]
  <2>1. value \in [0 .. Places -> Nat] /\ value[0] = whole
    BY <1>i DEF Iterates
  <2> SUFFICES ASSUME NEW k \in 1 .. Places PROVE value[k] = 10 * value[k - 1] + frac[k]
    BY <2>1
  <2>2. value[k - 1] \in Nat
    BY <1>0, <2>1
  <2> QED BY <1>i, <2>2 DEF Iterates, Reading
<1>1. 0 \in S
  <2>1. Part(0) = 0
    <3> DEFINE p == Pow10[Places]
    <3>1. p \in Nat \ {0} /\ r < p
      BY <1>0, <1>p DEF OneBitcoin
    <3> HIDE DEF p
    <3>2. r \div p = 0
      BY <3>1, Quotient
    <3>3. Places - 0 = Places
      BY <1>0
    <3>4. Part(0) = r \div Pow10[Places - 0]
      OBVIOUS
    <3> QED BY <3>2, <3>3, <3>4, Zenon DEF p
  <2>2. Pow10[0] = 1
    BY Pow10Def
  <2> HIDE DEF Part
  <2> QED BY <1>0, <1>v, <2>1, <2>2
<1>2. ASSUME NEW k \in 1 .. Places, k - 1 \in S PROVE k \in S
  <2>1. Part(k) = 10 * Part(k - 1) + frac[k]
    <3>1. /\ Places - k \in 0 .. Places - 1 /\ (Places - k) + 1 = Places - (k - 1)
          /\ frac[k] = Part(k) % 10
      BY <1>0, <1>f
    <3>2. Part(k) = 10 * (r \div Pow10[(Places - k) + 1]) + (Part(k) % 10)
      BY <3>1, NextDigit
    <3> QED BY <3>1, <3>2
  <2>2. value[k] = 10 * value[k - 1] + frac[k]
    BY <1>v
  <2>3. value[k - 1] = whole * Pow10[k - 1] + Part(k - 1)
    BY <1>2
  <2>4. /\ Pow10[k] = 10 * Pow10[k - 1] /\ Pow10[k - 1] \in Nat
        /\ Part(k) \in Nat /\ Part(k - 1) \in Nat
    <3>1. k \in 0 .. Places /\ k - 1 \in 0 .. Places
      BY <1>0
    <3> HIDE DEF Part
    <3> QED BY <1>p, <3>1, Pow10Def
  <2> DEFINE a == Part(k - 1)
             b == Part(k)
             q == Pow10[k - 1]
             f == frac[k]
  <2>5. b = 10 * a + f /\ a \in Nat /\ b \in Nat /\ q \in Nat
    BY <2>1, <2>4
  <2>6. value[k] = 10 * (whole * q + a) + f
    BY <2>2, <2>3
  <2>7. Pow10[k] = 10 * q
    BY <2>4
  <2> HIDE DEF a, b, q, f
  <2>8. 10 * (whole * q + a) + (b - 10 * a) = whole * (10 * q) + b
    BY <2>5, SMT
  <2>9. f = b - 10 * a
    <3>1. f \in Int
      BY <1>f, <2>4, SMT DEF f
    <3> QED BY <2>5, <3>1
  <2>10. value[k] = whole * Pow10[k] + Part(k)
    BY <2>6, <2>7, <2>8, <2>9 DEF b
  <2> HIDE DEF Part
  <2> QED BY <2>10
<1> HIDE DEF S
<1>3. 0 .. Places \subseteq S
  BY <1>0, <1>1, <1>2, UpTo
<1>4. value[Places] = whole * OneBitcoin + (r \div Pow10[0])
  BY <1>0, <1>3 DEF S, OneBitcoin
<1>5. r \div 1 = r
  BY SMT
<1> QED BY <1>4, <1>5, Pow10Def

\* What FormatAmount passes on is read as the amount it was made of.
THEOREM AmountRoundTrip == \A sat \in Nat : ParseAmount(FormatAmount(sat)) = sat
<1> SUFFICES ASSUME NEW sat \in Nat PROVE ParseAmount(FormatAmount(sat)) = sat
  OBVIOUS
<1> DEFINE whole == sat \div OneBitcoin
           r == sat % OneBitcoin
           frac == Pad(FormatUint(r))
           Value(f) == [k \in 0 .. Len(frac) |->
                         IF k = 0 THEN whole ELSE 10 * f[k - 1] + frac[k]]
           value == CHOOSE f : f = Value(f)
<1>0. Places \in Nat \ {0} /\ OneBitcoin \in Nat \ {0} /\ Pow10[0] = 1
  BY WidthAssumption, Pow10Def DEF OneBitcoin
<1>1. whole \in Nat /\ r \in Nat /\ r < OneBitcoin /\ sat = whole * OneBitcoin + r
  <2> DEFINE p == OneBitcoin
  <2>1. p \in Nat \ {0}
    BY <1>0
  <2> HIDE DEF p
  <2>2. /\ sat \div p \in Nat /\ sat % p \in Nat /\ sat % p < p
        /\ sat = (sat \div p) * p + (sat % p)
    BY <2>1, SMT
  <2> QED BY <2>2 DEF p
<1>2. ParseAmount(FormatAmount(sat)) = value[Len(frac)] * Pow10[Places - Len(frac)]
  BY DEF ParseAmount, FormatAmount
<1> HIDE DEF whole, r
<1>3. frac = Expansion(r)
  BY <1>1, Padded
<1> HIDE DEF frac
<1>4. Len(frac) = Places /\ \A k \in 1 .. Places : frac[k] \in 0 .. 9
  <2>1. ASSUME NEW k \in 1 .. Places PROVE (r \div Pow10[Places - k]) % 10 \in 0 .. 9
    <3>1. Places - k \in 0 .. Places
      BY <1>0
    <3>2. Pow10[Places - k] \in Nat \ {0}
      BY <3>1, Pow10Def
    <3>3. r \div Pow10[Places - k] \in Nat
      BY <1>1, <3>2, Quotient
    <3> QED BY <3>3, SMT
  <2> QED BY <1>0, <1>3, <2>1 DEF Expansion
<1>5. Reading(frac) \in [Nat \X (1 .. Places) -> Nat]
  BY <1>0, <1>4 DEF Reading
<1>6. PICK f : Iterates(f, Places, Nat, whole, Reading(frac))
  BY <1>0, <1>1, <1>5, Recursion
<1>7. \A g : Iterates(g, Places, Nat, whole, Reading(frac)) => g[Places] = sat
  <2> SUFFICES ASSUME NEW g, Iterates(g, Places, Nat, whole, Reading(frac))
               PROVE  g[Places] = sat
    OBVIOUS
  <2>1. Iterates(g, Places, Nat, whole, Reading(Expansion(r)))
    BY <1>3, Zenon
  <2>2. g[Places] = whole * OneBitcoin + r
    BY <1>1, <2>1, ReadSoFar, Zenon
  <2> QED BY <1>1, <2>2, Zenon
<1>8. f = Value(f)
  <2>1. f \in [0 .. Places -> Nat] /\ f[0] = whole
    BY <1>6 DEF Iterates
  <2>2. ASSUME NEW k \in 1 .. Places PROVE f[k] = 10 * f[k - 1] + frac[k]
    <3>1. f[k - 1] \in Nat
      BY <1>0, <2>1
    <3> QED BY <1>6, <3>1 DEF Reading, Iterates
  <2> QED BY <1>0, <1>4, <2>1, <2>2
<1>9. value = Value(value)
  BY <1>8
<1> HIDE DEF value
<1>10. Iterates(value, Places, Nat, whole, Reading(frac))
  <2>1. \A k \in 0 .. Places : value[k] = IF k = 0 THEN whole ELSE 10 * value[k - 1] + frac[k]
    BY <1>4, <1>9
  <2>2. DOMAIN value = 0 .. Places /\ value = [k \in 0 .. Places |-> value[k]]
    BY <1>4, <1>9
  <2> HIDE DEF Value
  <2>3. \A k \in 0 .. Places : value[k] \in Nat
    <3> DEFINE S == {k \in 0 .. Places : value[k] \in Nat}
    <3>1. 0 \in S
      BY <1>0, <1>1, <2>1
    <3>2. ASSUME NEW k \in 1 .. Places, k - 1 \in S PROVE k \in S
      <4>1. k \in 0 .. Places /\ k # 0 /\ value[k - 1] \in Nat /\ frac[k] \in 0 .. 9
        BY <1>0, <1>4, <3>2
      <4>2. value[k] = 10 * value[k - 1] + frac[k]
        BY <2>1, <4>1
      <4> QED BY <4>1, <4>2
    <3> HIDE DEF S
    <3>3. 0 .. Places \subseteq S
      BY <1>0, <3>1, <3>2, UpTo
    <3> QED BY <3>3 DEF S
  <2>4. value \in [0 .. Places -> Nat] /\ value[0] = whole
    <3>1. value \in [0 .. Places -> Nat]
      BY <2>2, <2>3, Zenon
    <3>2. 0 \in 0 .. Places
      BY <1>0
    <3> QED BY <2>1, <3>1, <3>2, Zenon
  <2>5. ASSUME NEW k \in 1 .. Places PROVE value[k] = Reading(frac)[<<value[k - 1], k>>]
    <3>1. value[k - 1] \in Nat /\ k \in 0 .. Places
      BY <1>0, <2>4
    <3> QED BY <2>1, <3>1 DEF Reading
  <2> QED BY <2>4, <2>5 DEF Iterates
<1>11. value[Places] = sat
  BY <1>7, <1>10
<1>12. Places - Places = 0
  BY <1>0
<1> QED BY <1>0, <1>2, <1>4, <1>11, <1>12

-----------------------------------------------------------------------------
(* Payments.                                                               *)

USE PaymentAssumption

-----------------------------------------------------------------------------
(* The actions that leave the payment and the invoice alone are taken      *)
(* together; the rest have a step of their own.                            *)

\* What the payment calls never touch, whatever they do.
LEMMA CallsKeepNodes == [Next]_vars => UNCHANGED nodeVars
BY DEF Next, Payer, vars, nodeVars, Fund, CreateBolt11Invoice, Pay, GetRoute, Send, Wait,
       WaitTooLate, PayReply, RouteReply, PaymentError, CallFails, RequestFails,
       RouteError, Retry, PayReplyUnread, GetInvoice, AskFails, HtlcSettles, HtlcReturns, HtlcFails, ClnRetries, Expire, Tick

NodeInv == payer \in Kinds /\ payee \in Kinds /\ hops \in Nat \ {0} /\ tip \in Nat

LEMMA Nodes == Init => NodeInv
BY DEF Init, NodeInv

LEMMA NodesStep == NodeInv /\ [Next]_vars => NodeInv'
BY CallsKeepNodes DEF NodeInv, nodeVars

(***************************************************************************)
(* The invoice and the payment agree: an HTLC is under way exactly when    *)
(* the payment is pending, it is on its way back only when the invoice is  *)
(* paid, and a complete payment is never taken on again.                   *)
(***************************************************************************)
InvoiceInv ==
  /\ invoice \in {"none", "open", "paid", "expired"}
  /\ received = IF invoice = "paid" THEN AmountMsat ELSE 0
  /\ pc \in {"fund", "create"} => payment = "none" /\ invoice = "none"

HtlcInv ==
  /\ htlc \in {"none", "out", "back"}
  /\ htlc # "none" => payment = "pending"
  /\ htlc = "back" => invoice = "paid"

SpentInv ==
  /\ payment = "complete" => invoice = "paid"
  /\ payment \in {"pending", "complete"} => spent = TotalMsat

PayInv == InvoiceInv /\ HtlcInv /\ SpentInv /\ ResultIsTrue

(***************************************************************************)
(* The test goes on to nothing once a call returned a result, and calls    *)
(* Pay or PayViaRoute, never both: Told tells their results apart.         *)
(***************************************************************************)
BeforeRoute == {"fund", "create", "choose", "pay"}
Over == {"told", "dead"}
ReplyInv ==
  /\ pc \notin Over => result = None
  /\ pc \in BeforeRoute => request = None

LEMMA ReplyInit == Init => ReplyInv
BY DEF Init, ReplyInv

LEMMA ReplyStep == ReplyInv /\ [Next]_vars => ReplyInv'
<1> SUFFICES ASSUME ReplyInv, [Next]_vars PROVE ReplyInv'
  OBVIOUS
<1> USE DEF ReplyInv, BeforeRoute, Over
<1>1. CASE /\ UNCHANGED <<request, result>>
           /\ pc' \notin Over => pc \notin Over
           /\ pc' \in BeforeRoute => pc \in BeforeRoute
  BY <1>1
<1>2. CASE Fund \/ CreateBolt11Invoice \/ Pay \/ GetRoute \/ Wait \/ WaitTooLate
           \/ PaymentError \/ CallFails \/ RequestFails \/ RouteError \/ Retry
  BY <1>1, <1>2 DEF Fund, CreateBolt11Invoice, Pay, GetRoute, Wait, WaitTooLate,
     PaymentError, CallFails, RequestFails, RouteError, Retry, Goto, Panic, Blocked
<1>3. CASE Send
  BY <1>3 DEF Send, Goto
<1>4. CASE PayReply \/ PayReplyUnread \/ RouteReply
  BY <1>4 DEF PayReply, PayReplyUnread, RouteReply, Goto
<1>5. CASE GetInvoice
  BY <1>1, <1>5 DEF GetInvoice, Panic
<1>6. CASE AskFails \/ HtlcSettles \/ HtlcReturns \/ HtlcFails \/ ClnRetries \/ Expire
           \/ Tick \/ UNCHANGED vars
  BY <1>1, <1>6 DEF AskFails, HtlcSettles, HtlcReturns, HtlcFails, ClnRetries, Expire,
     Tick, vars, callVars
<1> QED
  BY <1>2, <1>3, <1>4, <1>5, <1>6 DEF Next, Payer

LEMMA TotalIsInt == NodeInv => TotalMsat \in Int /\ (hops - 1) * FeeMsat \in Int
<1> SUFFICES ASSUME NodeInv PROVE TotalMsat \in Int /\ (hops - 1) * FeeMsat \in Int
  OBVIOUS
<1>1. hops - 1 \in Int /\ FeeMsat \in Int /\ AmountMsat \in Int
  BY DEF NodeInv
<1>2. (hops - 1) * FeeMsat \in Int
  BY <1>1, SMT
<1> QED BY <1>1, <1>2 DEF TotalMsat

\* What lnd reports of the last hop: the payee and what it received.
LEMMA LastHop ==
  NodeInv => PaymentRoute[hops].amount = AmountMsat /\ PaymentRoute[hops].id = hops
BY DEF NodeInv, PaymentRoute, Found

\* The two ways an lnd payment's amount is computed agree with what is true.
LEMMA ReplyIsTrue ==
  ASSUME NodeInv, PayInv, payment = "complete"
  PROVE  /\ PaymentRoute[hops].amount = received /\ AmountMsat = received
         /\ PaymentRoute[hops].id = hops
         /\ spent - (hops - 1) * FeeMsat = received
<1>1. received = AmountMsat /\ spent = TotalMsat
  BY DEF PayInv, InvoiceInv, SpentInv
<1>2. spent - (hops - 1) * FeeMsat = AmountMsat
  BY <1>1, TotalIsInt DEF TotalMsat
<1> QED BY <1>1, <1>2, LastHop

LEMMA PayInit == Init => PayInv
BY DEF Init, PayInv, InvoiceInv, HtlcInv, SpentInv, ResultIsTrue, Told, None

LEMMA PayStep == NodeInv /\ ReplyInv /\ PayInv /\ [Next]_vars => PayInv'
<1> SUFFICES ASSUME NodeInv, ReplyInv, PayInv, [Next]_vars PROVE PayInv'
  OBVIOUS
<1>0. TotalMsat' = TotalMsat /\ hops' = hops /\ payer' = payer
  BY CallsKeepNodes DEF TotalMsat, nodeVars
<1> USE DEF PayInv, InvoiceInv, HtlcInv, SpentInv, ResultIsTrue, Told
<1>1. CASE UNCHANGED <<daemonVars, request, result, reply>> /\ pc' \notin {"fund", "create"}
  BY <1>0, <1>1 DEF daemonVars
<1>2. CASE UNCHANGED <<daemonVars, callVars>>
  BY <1>0, <1>2 DEF daemonVars, callVars
<1>3. CASE Fund
  BY <1>0, <1>3 DEF Fund, Goto, daemonVars
<1>4. CASE CreateBolt11Invoice
  BY <1>0, <1>4 DEF CreateBolt11Invoice, Goto, None
<1>5. CASE Pay
  BY <1>0, <1>5 DEF Pay, TakeOn, Goto
<1>6. CASE Send
  <2>1. result' = None
    BY <1>6 DEF Send, ReplyInv, Over
  <2> QED BY <1>0, <1>6, <2>1 DEF Send, TakeOn, Goto
<1>7. CASE PayReply
  <2>1. /\ payment = "complete" /\ invoice = "paid"
        /\ result' = Some([amount |-> received, spent |-> spent, dest |-> hops])
    BY <1>7, ReplyIsTrue DEF PayReply
  <2> QED BY <1>0, <1>7, <2>1 DEF PayReply, Goto, daemonVars
<1>8. CASE RouteReply
  <2>1. /\ payment = "complete" /\ invoice = "paid"
        /\ result' = Some([amount |-> received, spent |-> spent, dest |-> hops])
    BY <1>8, ReplyIsTrue DEF RouteReply
  <2> QED BY <1>0, <1>8, <2>1 DEF RouteReply, Goto, daemonVars
<1>9. CASE HtlcSettles
  BY <1>0, <1>9 DEF HtlcSettles, callVars
<1>10. CASE HtlcReturns
  BY <1>0, <1>10 DEF HtlcReturns, callVars
<1>11. CASE HtlcFails
  BY <1>0, <1>11 DEF HtlcFails, callVars
<1>12. CASE ClnRetries
  BY <1>0, <1>12 DEF ClnRetries, callVars
<1>13. CASE Expire
  BY <1>0, <1>13 DEF Expire, callVars
<1>14. CASE GetRoute \/ Wait \/ WaitTooLate \/ PaymentError \/ CallFails \/ RequestFails \/ RouteError \/ Retry
  BY <1>1, <1>14 DEF GetRoute, Wait, WaitTooLate, PaymentError, CallFails, RequestFails, RouteError,
                     Retry, Goto, Panic
<1>15. CASE GetInvoice
  BY <1>1, <1>2, <1>15 DEF GetInvoice, Panic, callVars
<1>16. CASE AskFails \/ Tick \/ UNCHANGED vars
  BY <1>2, <1>16 DEF AskFails, Tick, vars, callVars
<1>17. CASE PayReplyUnread
  <2>1. ~ Told'
    BY <1>0, <1>17 DEF PayReplyUnread, ReplyInv, BeforeRoute
  <2> QED BY <1>0, <1>17, <2>1 DEF PayReplyUnread, Goto, daemonVars
<1> QED
  BY <1>3, <1>4, <1>5, <1>6, <1>7, <1>8, <1>9, <1>10, <1>11, <1>12, <1>13, <1>14,
     <1>15, <1>16, <1>17 DEF Next, Payer

\* lnd_node.go Pay and PayViaRoute, cln_node.go PayViaRoute, and Pay of cln where
\* cln's reply called the payment complete, which Pay does not ask for: whatever
\* the number of timeouts and retries, a result names a payment that is complete,
\* with the amounts the payee received and the payer spent.
THEOREM ResultsAreTrue == Spec => []ResultIsTrue
<1>1. NodeInv /\ PayInv => ResultIsTrue
  BY DEF PayInv
<1> QED
  BY <1>1, Nodes, NodesStep, ReplyInit, ReplyStep, PayInit, PayStep, PTL DEF Spec

-----------------------------------------------------------------------------
(* The time cln is given: getTimeoutSeconds cuts what is left of the       *)
(* deadline to whole seconds, which takes away less than a second.         *)

TimeInv == now \in 0 .. Deadline + 1 /\ GivesUpInTime

LEMMA Truncated ==
  ASSUME NEW left \in Nat
  PROVE  2 * TimeoutSeconds(left) \in left - 1 .. left
BY DEF TimeoutSeconds

LEMMA TimeInit == Init => TimeInv
BY DEF Init, TimeInv, GivesUpInTime

LEMMA TimeStep == TimeInv /\ [Next]_vars => TimeInv'
<1> SUFFICES ASSUME TimeInv, [Next]_vars PROVE TimeInv'
  OBVIOUS
<1>0. payer' = payer
  BY CallsKeepNodes DEF nodeVars
<1> USE DEF TimeInv, GivesUpInTime
<1>1. CASE Pay
  <2>1. payer = "cln" => timer' \in Deadline - 1 .. Deadline
    <3> SUFFICES ASSUME payer = "cln" PROVE timer' \in Deadline - 1 .. Deadline
      OBVIOUS
    <3>1. Deadline - now \in Nat
      BY <1>1 DEF Pay, Overdue
    <3>2. 2 * TimeoutSeconds(Deadline - now) \in (Deadline - now) - 1 .. Deadline - now
      BY <3>1, Truncated
    <3> QED BY <1>1, <3>1, <3>2 DEF Pay
  <2> QED BY <1>0, <1>1, <2>1 DEF Pay
<1>2. CASE Wait
  <2>1. Deadline - now \in Nat
    BY <1>2 DEF Wait, Overdue
  <2>2. 2 * TimeoutSeconds(Deadline - now) \in (Deadline - now) - 1 .. Deadline - now
    BY <2>1, Truncated
  <2> QED BY <1>0, <1>2, <2>1, <2>2 DEF Wait
<1>3. CASE Tick
  BY <1>3 DEF Tick, Overdue, callVars, nodeVars
<1>4. CASE UNCHANGED <<now, timer>> /\ (pc' = pc \/ pc' \notin {"pay", "wait"})
  BY <1>0, <1>4
<1>5. CASE Fund \/ CreateBolt11Invoice \/ GetRoute \/ Send \/ WaitTooLate \/ PayReply
           \/ RouteReply \/ PaymentError \/ CallFails \/ RequestFails \/ RouteError \/ Retry
           \/ PayReplyUnread
  BY <1>4, <1>5 DEF Fund, CreateBolt11Invoice, GetRoute, Send, WaitTooLate, PayReply,
     RouteReply, PaymentError, CallFails, RequestFails, RouteError, Retry,
     PayReplyUnread, Goto, Panic
<1>6. CASE GetInvoice
  BY <1>4, <1>6 DEF GetInvoice, Panic
<1>7. CASE AskFails \/ HtlcSettles \/ HtlcReturns \/ HtlcFails \/ ClnRetries \/ Expire
           \/ UNCHANGED vars
  BY <1>4, <1>7 DEF AskFails, HtlcSettles, HtlcReturns, HtlcFails, ClnRetries, Expire,
     vars, callVars
<1> QED
  BY <1>1, <1>2, <1>3, <1>5, <1>6, <1>7 DEF Next, Payer

\* test_common.go getTimeoutSeconds: cln is told to give up neither after the
\* deadline of the harness nor a second or more before it.
THEOREM ClnGivesUpInTime == Spec => []GivesUpInTime
<1>1. TimeInv => GivesUpInTime
  BY DEF TimeInv
<1> QED
  BY <1>1, TimeInit, TimeStep, PTL DEF Spec

-----------------------------------------------------------------------------
(* Routes.  GetRoute and PayViaRoute are inverse to each other, hop by     *)
(* hop: the round trips of a channel id and the width of the delay.        *)

FullRoute == [k \in 1 .. hops |-> HopOf(Found(payer)[k])]

\* Wherever PayViaRoute may be about to be called, or is under way.
Routing == {"send", "sent", "toroute", "wait", "error"}

RouteInv ==
  /\ pc \in Routing => route = FullRoute
  /\ request # None => route = FullRoute /\ request = Requested

LEMMA RouteInit == Init => RouteInv
BY DEF Init, RouteInv, Routing

LEMMA RouteStep == RouteInv /\ [Next]_vars => RouteInv'
<1> SUFFICES ASSUME RouteInv, [Next]_vars PROVE RouteInv'
  OBVIOUS
<1>0. UNCHANGED nodeVars
  BY CallsKeepNodes
<1>1. FullRoute' = FullRoute
  BY <1>0 DEF FullRoute, Found, HopOf, nodeVars
<1>2. UNCHANGED route => Requested' = Requested
  BY <1>0 DEF Requested, nodeVars
<1> USE DEF RouteInv, Routing
<1>3. CASE GetRoute
  <2>1. route' = FullRoute
    BY <1>3 DEF GetRoute, FullRoute
  <2>2. request' # None => route' = route
    BY <1>3, <2>1 DEF GetRoute
  <2> QED BY <1>1, <1>2, <1>3, <2>1, <2>2 DEF GetRoute
<1>4. CASE Send
  BY <1>1, <1>2, <1>4 DEF Send, Goto
<1>5. CASE UNCHANGED <<route, request>> /\ (pc' \in Routing => pc \in Routing)
  BY <1>1, <1>2, <1>5
<1>6. CASE Fund \/ CreateBolt11Invoice \/ Pay \/ Wait \/ WaitTooLate \/ PayReply
           \/ RouteReply \/ PaymentError \/ CallFails \/ RequestFails \/ RouteError \/ Retry
           \/ PayReplyUnread
  BY <1>5, <1>6 DEF Fund, CreateBolt11Invoice, Pay, Wait, WaitTooLate, PayReply,
     RouteReply, PaymentError, CallFails, RequestFails, RouteError, Retry,
     PayReplyUnread, Goto, Panic, Blocked
<1>7. CASE GetInvoice
  BY <1>5, <1>7 DEF GetInvoice, Panic
<1>8. CASE AskFails \/ HtlcSettles \/ HtlcReturns \/ HtlcFails \/ ClnRetries \/ Expire
           \/ Tick \/ UNCHANGED vars
  BY <1>5, <1>8 DEF AskFails, HtlcSettles, HtlcReturns, HtlcFails, ClnRetries, Expire,
     Tick, vars, callVars
<1> QED
  BY <1>3, <1>4, <1>6, <1>7, <1>8 DEF Next, Payer

\* Channels have a place in the chain that a channel id can hold.
LEMMA PlaceIsScid == ASSUME NEW k \in Nat PROVE Place(k) \in Scids
<1>1. {HeightWidth, TxWidth, OutWidth} \subseteq Nat \ {0}
  BY WidthAssumption
<1>2. HeightWidth - 1 \in 0 .. HeightWidth - 1
  BY <1>1
<1>3. k % TxWidth \in 0 .. TxWidth - 1 /\ (k + 1) % OutWidth \in 0 .. OutWidth - 1
  BY <1>1, SMT
<1> QED BY <1>2, <1>3 DEF Place, Scids

\* A hop that both calls handled is the hop the daemon found.
LEMMA HopKept ==
  ASSUME NodeInv, NEW k \in 1 .. hops, Found(payer)[k].delay < DelayWidth
  PROVE  LET hop == HopOf(Found(payer)[k])
         IN [id |-> hop.id, amount |-> hop.amount, delay |-> hop.delay,
             chan |-> IF payer = "lnd" THEN ToUint64(hop.channel)
                                       ELSE String(hop.channel)] = Found(payer)[k]
<1>1. Place(k) \in Scids /\ DelayWidth \in Nat \ {0}
  BY PlaceIsScid, WidthAssumption DEF NodeInv
<1>2. Found(payer)[k].delay \in Nat
  BY DEF NodeInv, Found, Kinds
<1>3. Delay(Found(payer)[k].delay) = Found(payer)[k].delay
  BY <1>1, <1>2, SMT DEF Delay
<1>4. CASE payer = "lnd"
  <2>1. ToUint64(NewShortChanIDFromInt(ToUint64(Place(k)))) = ToUint64(Place(k))
    BY <1>1, IntRoundTrip
  <2> QED BY <1>3, <1>4, <2>1 DEF HopOf, Found
<1>5. CASE payer = "cln"
  <2>1. String(NewShortChanIDFromString(String(Place(k)))) = String(Place(k))
    BY <1>1, StringRoundTrip
  <2> QED BY <1>3, <1>5, <2>1 DEF HopOf, Found
<1> QED BY <1>4, <1>5 DEF NodeInv, Kinds

\* lnd_node.go and cln_node.go GetRoute, PayViaRoute: the daemon is asked to
\* use the very hops it found, as long as the delays fit into Hop.Delay.
THEOREM RoutesAreKept == Spec => []RouteKept
<1>1. NodeInv /\ RouteInv => RouteKept
  <2> SUFFICES ASSUME NodeInv, RouteInv, request # None,
                      \A k \in 1 .. hops : Found(payer)[k].delay < DelayWidth
               PROVE  request = Found(payer)
    BY DEF RouteKept
  <2>1. \A k \in 1 .. hops : Requested[k] = Found(payer)[k]
    BY HopKept DEF Requested, RouteInv, FullRoute
  <2>2. /\ Found(payer) = [k \in 1 .. hops |-> Found(payer)[k]]
        /\ Requested = [k \in 1 .. hops |-> Requested[k]]
    BY DEF Found, Requested
  <2> QED BY <2>1, <2>2 DEF RouteInv
<1> QED
  BY <1>1, Nodes, NodesStep, RouteInit, RouteStep, PTL DEF Spec

-----------------------------------------------------------------------------
(* The funds.  Fund is called once, before anything else, and the amount   *)
(* it was called with survives the way through a decimal string.           *)

FundInv ==
  /\ fund \in Nat /\ funds \in {0, fund}
  /\ pc = "fund" => funds = 0

LEMMA FundInit == Init => FundInv
BY DEF Init, FundInv

LEMMA FundStep == FundInv /\ [Next]_vars => FundInv'
<1> SUFFICES ASSUME FundInv, [Next]_vars PROVE FundInv'
  OBVIOUS
<1>0. fund' = fund
  BY CallsKeepNodes DEF nodeVars
<1> USE DEF FundInv
<1>1. CASE Fund
  <2>1. ParseAmount(FormatAmount(fund)) = fund
    BY AmountRoundTrip
  <2>2. funds' = 0 + fund /\ pc' = "create"
    BY <1>1, <2>1 DEF Fund, Goto
  <2> QED BY <1>0, <2>2
<1>2. CASE UNCHANGED funds /\ pc' # "fund"
  BY <1>0, <1>2
<1>3. CASE UNCHANGED <<funds, pc>>
  BY <1>0, <1>3
<1>4. CASE CreateBolt11Invoice \/ Pay \/ GetRoute \/ Send \/ Wait \/ WaitTooLate
           \/ PayReply \/ RouteReply \/ PaymentError \/ CallFails \/ RequestFails \/ RouteError \/ Retry
           \/ PayReplyUnread
  BY <1>2, <1>4 DEF CreateBolt11Invoice, Pay, GetRoute, Send, Wait, WaitTooLate, PayReply,
     RouteReply, PaymentError, CallFails, RequestFails, RouteError, Retry,
     PayReplyUnread, Goto, Panic
<1>5. CASE GetInvoice
  BY <1>2, <1>3, <1>5 DEF GetInvoice, Panic
<1>6. CASE AskFails \/ HtlcSettles \/ HtlcReturns \/ HtlcFails \/ ClnRetries \/ Expire
           \/ Tick \/ UNCHANGED vars
  BY <1>3, <1>6 DEF AskFails, HtlcSettles, HtlcReturns, HtlcFails, ClnRetries, Expire,
     Tick, vars, callVars
<1> QED
  BY <1>1, <1>4, <1>5, <1>6 DEF Next, Payer

\* miner.go SendToAddress, under Fund of either node: whatever the amount, what
\* arrives is what Fund was called with.
THEOREM FundsArrive == Spec => []FundedExactly
<1>1. FundInv => FundedExactly
  BY DEF FundInv, FundedExactly
<1> QED
  BY <1>1, FundInit, FundStep, PTL DEF Spec

-----------------------------------------------------------------------------
(* The types.  Most conjuncts are those of the invariants above; what is   *)
(* left is that a route has as many hops as the daemon found, and that the *)
(* time at which cln gives up is no earlier than 0.                        *)

ShapeInv ==
  /\ hops \in Routes /\ tip \in Tips /\ fund \in Funds
  /\ payment \in {"none", "pending", "complete", "failed"}
  /\ spent \in {0, TotalMsat}
  /\ pc \in Labels
  /\ reply \in {"none", "pending", "complete", "failed"}
  /\ tries \in 0 .. MaxTries
  /\ timer \in 0 .. Deadline + 1
  /\ route \in {None, FullRoute}
  /\ asking \in BOOLEAN /\ panicked \in BOOLEAN

LEMMA ShapeInit == Init => ShapeInv
<1> SUFFICES ASSUME Init PROVE ShapeInv
  OBVIOUS
<1>1. /\ hops \in Routes /\ tip \in Tips /\ fund \in Funds
      /\ payment = "none" /\ spent = 0 /\ pc = "fund" /\ tries = 0 /\ timer = 0
      /\ reply = "none" /\ route = None /\ asking = TRUE /\ panicked = FALSE
  BY DEF Init
<1>2. tries \in 0 .. MaxTries /\ timer \in 0 .. Deadline + 1
  BY <1>1
<1> QED BY <1>1, <1>2 DEF ShapeInv, Labels

\* The constants of a behaviour, and what is computed of them alone.
LEMMA ShapeKept ==
  ASSUME [Next]_vars
  PROVE  /\ UNCHANGED <<hops, tip, fund, payer>>
         /\ TotalMsat' = TotalMsat /\ FullRoute' = FullRoute
<1>1. UNCHANGED nodeVars
  BY CallsKeepNodes
<1> QED BY <1>1 DEF nodeVars, TotalMsat, FullRoute, Found, HopOf

\* A timer that is set lies between now and the deadline.
LEMMA TimerSet ==
  ASSUME TimeInv, ~ Overdue
  PROVE  now + 2 * TimeoutSeconds(Deadline - now) \in 0 .. Deadline + 1
<1>1. Deadline - now \in Nat /\ now \in Nat
  BY DEF TimeInv, Overdue
<1>2. TimeoutSeconds(Deadline - now) \in Nat
  BY <1>1 DEF TimeoutSeconds
<1>3. 2 * TimeoutSeconds(Deadline - now) \in (Deadline - now) - 1 .. Deadline - now
  BY <1>1, Truncated
<1> QED BY <1>1, <1>2, <1>3

LEMMA ShapeStep == TimeInv /\ ShapeInv /\ [Next]_vars => ShapeInv'
<1> SUFFICES ASSUME TimeInv, ShapeInv, [Next]_vars PROVE ShapeInv'
  OBVIOUS
<1>0. /\ UNCHANGED <<hops, tip, fund, payer>>
      /\ TotalMsat' = TotalMsat /\ FullRoute' = FullRoute
  BY ShapeKept
<1> USE DEF ShapeInv, Labels, Blocked
<1>1. CASE Pay
  <2>1. timer' \in 0 .. Deadline + 1
    BY <1>1, TimerSet DEF Pay
  <2> QED BY <1>0, <1>1, <2>1 DEF Pay, TakeOn, Goto, askVars
<1>2. CASE GetRoute
  BY <1>0, <1>2 DEF GetRoute, FullRoute, Goto, daemonVars, askVars
<1>3. CASE Send
  BY <1>0, <1>3 DEF Send, TakeOn, Goto, askVars
<1>4. CASE Wait
  <2>1. timer' \in 0 .. Deadline + 1
    BY <1>4, TimerSet DEF Wait
  <2> QED BY <1>0, <1>4, <2>1 DEF Wait, Goto, daemonVars, askVars
<1>5. CASE Fund \/ CreateBolt11Invoice \/ WaitTooLate \/ PaymentError \/ CallFails
           \/ RequestFails \/ RouteError \/ Retry
  BY <1>0, <1>5 DEF Fund, CreateBolt11Invoice, WaitTooLate, PaymentError, CallFails,
     RequestFails, RouteError, Retry, Goto, Panic, daemonVars, askVars
<1>6. CASE PayReply \/ PayReplyUnread \/ RouteReply
  <2>1. reply' = payment /\ pc' = "told"
    BY <1>6 DEF PayReply, PayReplyUnread, RouteReply, Goto
  <2>2. UNCHANGED <<payment, spent, tries, timer, route, asking, panicked>>
    BY <1>6 DEF PayReply, PayReplyUnread, RouteReply, daemonVars, askVars
  <2> QED BY <1>0, <2>1, <2>2
<1>7. CASE GetInvoice
  BY <1>0, <1>7 DEF GetInvoice, Panic, daemonVars
<1>8. CASE HtlcSettles \/ HtlcReturns \/ HtlcFails \/ ClnRetries \/ Expire
  BY <1>0, <1>8 DEF HtlcSettles, HtlcReturns, HtlcFails, ClnRetries, Expire, callVars,
     askVars
<1>9. CASE AskFails \/ Tick
  <2>1. UNCHANGED <<payment, spent, pc, reply, tries, timer, route, panicked>>
    BY <1>9 DEF AskFails, Tick, daemonVars, callVars
  <2>2. asking' \in BOOLEAN
    BY <1>9 DEF AskFails, Tick, askVars
  <2> QED BY <1>0, <2>1, <2>2
<1>10. CASE UNCHANGED vars
  <2>1. UNCHANGED <<payment, spent, pc, reply, tries, timer, route, asking, panicked>>
    BY <1>10 DEF vars, daemonVars, callVars, askVars
  <2> QED BY <1>0, <2>1
<1> QED
  BY <1>1, <1>2, <1>3, <1>4, <1>5, <1>6, <1>7, <1>8, <1>9, <1>10 DEF Next, Payer

\* Every reachable state is well typed; with Deadline = 0 as well, since only cln,
\* whose getTimeoutSeconds refuses a deadline that has passed, sets the timer.
THEOREM TypeCorrect == Spec => []TypeOK
<1>1. NodeInv /\ PayInv /\ TimeInv /\ RouteInv /\ FundInv /\ ShapeInv => TypeOK
  <2> SUFFICES ASSUME NodeInv, PayInv, TimeInv, RouteInv, FundInv, ShapeInv PROVE TypeOK
    OBVIOUS
  <2>1. Len(None) = 0 /\ Len(FullRoute) = hops /\ Len(Requested) = hops
    BY DEF NodeInv, None, FullRoute, Requested
  <2>2. Len(route) \in {0, hops} /\ Len(request) \in {0, hops}
    BY <2>1 DEF ShapeInv, RouteInv
  <2>3. invoice \in {"none", "open", "paid", "expired"} /\ received \in {0, AmountMsat}
    BY DEF PayInv, InvoiceInv
  <2>4. htlc \in {"none", "out", "back"} /\ (htlc # "none" => payment = "pending")
    BY DEF PayInv, HtlcInv
  <2>5. funds \in Nat /\ now \in 0 .. Deadline + 1 /\ {payer, payee} \subseteq Kinds
    BY DEF NodeInv, FundInv, TimeInv
  <2> QED BY <2>2, <2>3, <2>4, <2>5 DEF TypeOK, ShapeInv
<1> QED
  BY <1>1, Nodes, NodesStep, ReplyInit, ReplyStep, PayInit, PayStep, TimeInit, TimeStep,
     RouteInit, RouteStep, FundInit, FundStep, ShapeInit, ShapeStep, PTL DEF Spec

-----------------------------------------------------------------------------
(* Every step of the system is one of module PaymentPromise, or a stutter. *)

LEMMA PromiseInit == Init => Promise!Init
BY DEF Init, Promise!Init, Seen, Told, None

LEMMA PromiseStep ==
  NodeInv /\ ReplyInv /\ PayInv /\ [Next]_vars => [Promise!Next]_(Promise!vars)
<1> SUFFICES ASSUME NodeInv, ReplyInv, PayInv, [Next]_vars
             PROVE  [Promise!Next]_(Promise!vars)
  OBVIOUS
<1> USE DEF Promise!Next, Promise!vars
<1>0. payer' = payer
  BY CallsKeepNodes DEF nodeVars
<1>1. CASE UNCHANGED <<invoice, request, result, reply, answer>>
  BY <1>0, <1>1 DEF Seen, Told
<1>2. CASE CreateBolt11Invoice
  <2>1. invoice = "none"
    BY <1>2 DEF CreateBolt11Invoice, PayInv, InvoiceInv
  <2>2. Seen' = Seen /\ Told' = Told
    BY <1>0, <1>2 DEF CreateBolt11Invoice, askVars, Seen, Told
  <2> QED BY <1>2, <2>1, <2>2 DEF CreateBolt11Invoice, Promise!Create
<1>3. CASE HtlcSettles
  <2>1. Seen' = Seen /\ Told' = Told
    BY <1>0, <1>3 DEF HtlcSettles, askVars, callVars, Seen, Told
  <2> QED BY <1>3, <2>1 DEF HtlcSettles, Promise!Settle
<1>4. CASE Expire
  <2>1. Seen' = Seen /\ Told' = Told
    BY <1>0, <1>4 DEF Expire, askVars, callVars, Seen, Told
  <2> QED BY <1>4, <2>1 DEF Expire, Promise!Expire
<1>5. CASE PayReply
  <2>1. Seen' = Seen /\ invoice' = invoice /\ invoice = "paid"
    BY <1>5 DEF PayReply, askVars, daemonVars, Seen, PayInv, SpentInv
  <2>2. Told'
    BY <1>5 DEF PayReply, Told, Some, None
  <2> QED BY <2>1, <2>2 DEF Promise!Tell
<1>6. CASE RouteReply
  <2>1. Seen' = Seen /\ invoice' = invoice /\ invoice = "paid"
    BY <1>6 DEF RouteReply, askVars, daemonVars, Seen, PayInv, SpentInv
  <2>2. Told'
    BY <1>6 DEF RouteReply, Told, Some, None
  <2> QED BY <2>1, <2>2 DEF Promise!Tell
<1>7. CASE GetInvoice
  <2>0. UNCHANGED <<invoice, request, result, reply>> /\ Told' = Told
    BY <1>0, <1>7 DEF GetInvoice, daemonVars, Told
  <2>1. CASE UNCHANGED answer
    BY <1>1, <2>0, <2>1
  <2>2. CASE answer' = Some([exists |-> FALSE]) /\ invoice = "none"
    <3>1. Seen' = "none"
      BY <2>2 DEF Seen, Some, None
    <3> QED BY <2>0, <2>2, <3>1 DEF Promise!Look
  <2>3. CASE /\ answer' = Some([exists |-> TRUE, received |-> received,
                                status |-> Status(invoice)])
             /\ invoice # "none"
    <3>1. Seen' = IF invoice = "paid" THEN "paid"
                  ELSE IF invoice = "expired" THEN "expired" ELSE "open"
      BY <2>3 DEF Seen, Some, None, Status
    <3>2. Seen' = invoice
      BY <2>3, <3>1 DEF PayInv, InvoiceInv
    <3> QED BY <2>0, <3>2 DEF Promise!Look
  <2> QED BY <1>7, <2>1, <2>2, <2>3 DEF GetInvoice, Panic, NodeInv, Kinds
<1>8. CASE Fund \/ Pay \/ GetRoute \/ Wait \/ WaitTooLate \/ PaymentError
           \/ CallFails \/ RequestFails \/ RouteError \/ Retry
  BY <1>1, <1>8 DEF Fund, Pay, GetRoute, Wait, WaitTooLate, PaymentError,
     CallFails, RequestFails, RouteError, Retry, Panic, daemonVars, askVars
<1>9. CASE AskFails \/ HtlcReturns \/ HtlcFails \/ ClnRetries \/ Tick \/ UNCHANGED vars
  BY <1>1, <1>9 DEF AskFails, HtlcReturns, HtlcFails, ClnRetries, Tick, vars,
     daemonVars, callVars, askVars
<1>10. CASE PayReplyUnread
  <2>1. Told' = Told
    BY <1>0, <1>10 DEF PayReplyUnread, ReplyInv, BeforeRoute, Over, Told
  <2>2. invoice' = invoice /\ Seen' = Seen
    BY <1>10 DEF PayReplyUnread, daemonVars, askVars, Seen
  <2> QED BY <2>1, <2>2
<1>11. CASE Send
  <2>1. Told' = Told
    BY <1>11 DEF Send, ReplyInv, Over, Told
  <2>2. invoice' = invoice /\ Seen' = Seen
    BY <1>11 DEF Send, askVars, Seen
  <2> QED BY <2>1, <2>2
<1> QED
  BY <1>2, <1>3, <1>4, <1>5, <1>6, <1>7, <1>8, <1>9, <1>10, <1>11 DEF Next, Payer

\* lnd's Pay and PayViaRoute and cln's PayViaRoute return no result before the
\* payee has been paid, nor does cln's Pay make one of a reply of a complete payment;
\* what GetInvoice says is how the invoice is at that moment, on either side.
THEOREM PromiseKept == Spec => ImplementsPromise
<1>1. Init => Promise!Init
  BY PromiseInit
<1>2. NodeInv /\ ReplyInv /\ PayInv /\ [Next]_vars => [Promise!Next]_(Promise!vars)
  BY PromiseStep
<1> QED
  BY <1>1, <1>2, Nodes, NodesStep, ReplyInit, ReplyStep, PayInit, PayStep, PTL
     DEF Spec, ImplementsPromise,
     Promise!Spec
=============================================================================
