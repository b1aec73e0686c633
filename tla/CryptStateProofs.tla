-------------------------- MODULE CryptStateProofs --------------------------
(* Proofs about CryptState, for any base, window, number of digits and start.  *)
(* The cipher accepts a datagram only if all digits of the guess are right;    *)
(* the two lowest ones already tell which datagram it is, unless the client    *)
(* has sent nearly Base * Base of them.  WindowInv says what the guess is at   *)
(* each point of Decrypt, HistoryInv what the history still knows.             *)
EXTENDS CryptState, WellFoundedInduction, TLAPS

-----------------------------------------------------------------------------
\* Induction over the naturals, from the library's theorem that they are
\* well-founded, for sets of numbers (the digits of a nonce, the powers of Base).

\* A nonempty set of naturals has a least element.
LEMMA Least ==
    ASSUME NEW T \in SUBSET Nat, T # {}
    PROVE  \E x \in T : \A y \in T : x <= y
<1>1. PICK x \in T : \A y \in T : <<y, x>> \notin OpToRel(<, Nat)
  BY NatLessThanWellFounded, WFMin
<1>2. \A y \in T : <<y, x>> \in Nat \X Nat
  OBVIOUS
<1>3. \A y \in T : ~(y < x)
  BY <1>1, <1>2, Zenon DEF OpToRel
<1>. QED BY <1>3

\* A set that has 0, and the successors of its elements, has all naturals.
LEMMA Induction ==
    ASSUME NEW S \in SUBSET Nat, 0 \in S, \A n \in S : n + 1 \in S
    PROVE  S = Nat
<1>1. SUFFICES ASSUME Nat \ S # {} PROVE FALSE
  BY Zenon
<1>2. PICK x \in Nat \ S : \A y \in Nat \ S : x <= y
  BY <1>1, Least, Zenon
<1>3. x - 1 \in Nat /\ x - 1 \notin Nat \ S
  BY <1>2
<1>. QED BY <1>2, <1>3

\* A nonempty set of naturals that has a bound has a greatest element, which is
\* what Max is.
LEMMA Greatest ==
    ASSUME NEW S \in SUBSET Nat, S # {}, NEW m \in Nat, \A s \in S : s <= m
    PROVE  Max(S) \in S /\ \A s \in S : s <= Max(S)
<1> DEFINE U == {n \in Nat : \A s \in S : s <= n}
<1>1. PICK x \in U : \A y \in U : x <= y
  <2>1. m \in U /\ U \in SUBSET Nat
    OBVIOUS
  <2>. HIDE DEF U
  <2>. QED BY <2>1, Least
<1>2. x \in S
  <2>1. SUFFICES ASSUME x \notin S PROVE FALSE
    OBVIOUS
  <2>2. \A s \in S : s <= x - 1
    BY <2>1
  <2>3. x - 1 \in Nat
    <3>1. PICK s \in S : TRUE
      BY Zenon
    <3>2. s \in Nat /\ s <= x - 1 /\ x \in Nat
      BY <2>2, <3>1
    <3>. QED BY <3>2
  <2>4. x - 1 \in U
    BY <2>2, <2>3
  <2>. QED BY <1>1, <2>4
<1>3. x \in S /\ \A y \in S : x >= y
  BY <1>2
<1>4. Max(S) \in S /\ \A y \in S : Max(S) >= y
  BY <1>3, Zenon DEF Max
<1>. QED BY <1>4

\* The greatest element is Max.
LEMMA MaxIs ==
    ASSUME NEW S \in SUBSET Nat, NEW x \in S, \A s \in S : s <= x
    PROVE  Max(S) = x
<1>1. Max(S) \in S /\ \A s \in S : s <= Max(S)
  BY Greatest
<1>2. Max(S) \in Nat /\ x \in Nat /\ x <= Max(S) /\ Max(S) <= x
  BY <1>1, Zenon
<1>. QED BY <1>2

-----------------------------------------------------------------------------
\* Division.  The provers know quotient and remainder by this equation.
LEMMA DivMod ==
    ASSUME NEW n \in Int, NEW b \in Nat \ {0}
    PROVE  /\ n \div b \in Int /\ n % b \in 0..b - 1
           /\ n = b * (n \div b) + (n % b)
BY SMT

\* Different multiples of b are at least b apart.
LEMMA Scaled ==
    ASSUME NEW x \in Int, NEW y \in Int, NEW b \in Nat \ {0}, x < y
    PROVE  b * x + b <= b * y
BY SMT

\* Quotient and remainder are determined by the equation.
LEMMA DivUnique ==
    ASSUME NEW b \in Nat \ {0}, NEW n \in Int, NEW q \in Int, NEW r \in 0..b - 1, n = b * q + r
    PROVE  n \div b = q /\ n % b = r
<1>1. n \div b \in Int /\ n % b \in 0..b - 1 /\ n = b * (n \div b) + (n % b)
  BY DivMod
<1>2. ~(n \div b < q) /\ ~(q < n \div b)
  BY <1>1, Scaled
<1>. QED BY <1>1, <1>2

\* Dividing twice is dividing by the product.
LEMMA NestedDiv ==
    ASSUME NEW n \in Nat, NEW p \in Nat \ {0}, NEW b \in Nat \ {0}
    PROVE  n \div (b * p) = (n \div p) \div b
<1> DEFINE q == n \div p  r == n % p  s == q \div b  t == q % b
<1>1. q \in Int /\ r \in 0..p - 1 /\ n = p * q + r
  BY DivMod
<1>2. s \in Int /\ t \in 0..b - 1 /\ q = b * s + t
  BY <1>1, DivMod
<1>3. b * p \in Nat \ {0}
  OBVIOUS
<1>. HIDE DEF q, r, s, t
<1>4. p * t \in Nat /\ p * t + p <= p * b
  BY <1>2, Scaled
<1>5. p * t + r \in 0..(b * p) - 1
  BY <1>1, <1>3, <1>4
<1>6. n = (b * p) * s + (p * t + r)
  BY <1>1, <1>2
<1>7. n \div (b * p) = s
  BY <1>2, <1>3, <1>5, <1>6, DivUnique
<1>. QED BY <1>7 DEF s, q

-----------------------------------------------------------------------------
\* The digits of a number.

\* Base and the two windows (CryptAssumption).
LEMMA BaseFacts == /\ Base \in Nat \ {0} /\ Base > 1 /\ Half \in Nat \ {0} /\ Base = 2 * Half
                   /\ LateWindow \in 1..Half /\ Digits \in Nat \ {0, 1}
                   /\ Starts \subseteq Nat /\ MaxSent \in Nat
BY CryptAssumption DEF Half

\* Division of naturals by Base.
LEMMA BaseMod ==
    \A n \in Nat : /\ n \div Base \in Nat /\ n % Base \in 0..Base - 1
                   /\ n = Base * (n \div Base) + (n % Base)
BY BaseFacts

\* Numbers less than a round apart that end in the same digit are equal.
LEMMA SameRound ==
    ASSUME NEW x \in Int, NEW y \in Int, NEW k \in Int, NEW l \in Int, NEW r \in Int,
           x = Base * k + r, y = Base * l + r, x - y < Base, y - x < Base
    PROVE  x = y
<1>1. ASSUME NEW B \in Nat \ {0}, NEW z \in Int, B * z < B, -B < B * z PROVE z = 0
  BY <1>1
<1>2. x - y = Base * (k - l) /\ k - l \in Int
  BY BaseFacts
<1>3. k - l = 0
  BY <1>1, <1>2, BaseFacts
<1>. QED BY <1>2, <1>3, BaseFacts

\* The recursive definition of Power has the value it describes.
LEMMA PowerDef == Power = [n \in Nat |-> IF n = 0 THEN 1 ELSE Base * Power[n - 1]]
<1> DEFINE Good(n, f) == /\ f \in [0..n -> Nat] /\ f[0] = 1
                         /\ \A i \in 1..n : f[i] = Base * f[i - 1]
           S == {n \in Nat : \E f \in [0..n -> Nat] : Good(n, f)}
<1>1. 0 \in S
  <2>1. Good(0, [i \in 0..0 |-> 1])
    OBVIOUS
  <2>. QED BY <2>1, Zenon
<1>2. ASSUME NEW n \in S PROVE n + 1 \in S
  <2>1. PICK f : Good(n, f)
    OBVIOUS
  <2> DEFINE g == [i \in 0..n + 1 |-> IF i = n + 1 THEN Base * f[n] ELSE f[i]]
  <2>2. Good(n + 1, g)
    <3>1. n \in Nat /\ f[n] \in Nat /\ Base * f[n] \in Nat
      BY <2>1, BaseFacts
    <3>2. g \in [0..n + 1 -> Nat] /\ g[0] = 1
      BY <2>1, <3>1
    <3>3. ASSUME NEW i \in 1..n + 1 PROVE g[i] = Base * g[i - 1]
      <4>1. i \in 0..n + 1 /\ i - 1 \in 0..n + 1 /\ i - 1 # n + 1 /\ i - 1 \in 0..n
        BY <3>1
      <4>2. g[i - 1] = f[i - 1]
        BY <4>1
      <4>3. i # n + 1 => i \in 1..n
        BY <3>1
      <4>4. i = n + 1 => i - 1 = n
        BY <3>1
      <4>. QED BY <2>1, <4>1, <4>2, <4>3, <4>4
    <3>. QED BY <3>2, <3>3, Zenon
  <2>3. n + 1 \in Nat
    OBVIOUS
  <2>. HIDE DEF Good
  <2>. QED BY <2>2, <2>3, Zenon DEF Good
<1>3. S = Nat
  <2>1. S \in SUBSET Nat
    OBVIOUS
  <2>. HIDE DEF S
  <2>. QED BY <1>1, <1>2, <2>1, Induction
<1>4. ASSUME NEW n \in Nat, NEW f, NEW m \in Nat, NEW g, Good(n, f), Good(m, g), n <= m
      PROVE  \A i \in 0..n : f[i] = g[i]
  <2> DEFINE E == {i \in Nat : i <= n => f[i] = g[i]}
  <2>1. 0 \in E
    BY <1>4
  <2>2. ASSUME NEW i \in E PROVE i + 1 \in E
    BY <1>4
  <2>3. E = Nat
    <3>1. E \in SUBSET Nat
      OBVIOUS
    <3>. HIDE DEF E
    <3>. QED BY <2>1, <2>2, <3>1, Induction
  <2>. QED BY <2>3
<1> DEFINE F(n) == CHOOSE f : Good(n, f)
           P == [n \in Nat |-> F(n)[n]]
<1>5. \A n \in Nat : Good(n, F(n))
  BY <1>3, Zenon
<1>. HIDE DEF F
<1>6. P[0] = 1
  BY <1>5
<1>7. ASSUME NEW n \in Nat, n # 0 PROVE P[n] = Base * P[n - 1]
  <2>1. n - 1 \in Nat /\ n - 1 <= n /\ n - 1 \in 0..n - 1 /\ n \in 1..n
    BY <1>7
  <2>2. Good(n, F(n)) /\ Good(n - 1, F(n - 1))
    BY <1>5, <2>1, Zenon
  <2>3. F(n - 1)[n - 1] = F(n)[n - 1]
    <3>. HIDE DEF Good
    <3>. QED BY <1>4, <2>1, <2>2
  <2>4. F(n)[n] = Base * F(n)[n - 1]
    BY <2>1, <2>2
  <2>. QED BY <2>1, <2>3, <2>4
<1>8. \A n \in Nat : P[n] = IF n = 0 THEN 1 ELSE Base * P[n - 1]
  BY <1>6, <1>7
<1>9. P = [n \in Nat |-> P[n]]
  OBVIOUS
<1>. HIDE DEF P
<1>10. P = [n \in Nat |-> IF n = 0 THEN 1 ELSE Base * P[n - 1]]
  BY <1>8, <1>9, Zenon
<1>. QED BY <1>10 DEF Power

\* The powers are positive, and each is Base times the one before.
LEMMA PowerFacts ==
    /\ Power[0] = 1
    /\ \A k \in Nat : Power[k] \in Nat \ {0} /\ Power[k + 1] = Base * Power[k]
<1>1. Power[0] = 1 /\ \A k \in Nat : Power[k + 1] = Base * Power[k]
  BY PowerDef
<1> DEFINE S == {k \in Nat : Power[k] \in Nat \ {0}}
<1>2. 0 \in S /\ S \in SUBSET Nat
  BY <1>1
<1>3. ASSUME NEW k \in S PROVE k + 1 \in S
  <2>1. Base * Power[k] \in Nat \ {0}
    BY BaseFacts
  <2>. QED BY <1>1, <2>1
<1>4. S = Nat
  <2>. HIDE DEF S
  <2>. QED BY <1>2, <1>3, Induction
<1>. QED BY <1>1, <1>4

\* What is left of n above its k lowest digits, and how it goes on.
LEMMA Quotients ==
    ASSUME NEW n \in Nat
    PROVE  /\ n \div Power[0] = n
           /\ n \div Power[1] = n \div Base
           /\ \A k \in Nat : /\ n \div Power[k] \in Nat
                             /\ n \div Power[k + 1] = (n \div Power[k]) \div Base
<1>1. n \div Power[0] = n
  BY PowerFacts
<1>2. ASSUME NEW k \in Nat
      PROVE  n \div Power[k] \in Nat /\ n \div Power[k + 1] = (n \div Power[k]) \div Base
  <2>1. Power[k] \in Nat \ {0} /\ Power[k + 1] = Base * Power[k]
    BY PowerFacts
  <2>2. n \div Power[k + 1] = (n \div Power[k]) \div Base
    BY <2>1, NestedDiv, BaseFacts
  <2>3. n \div Power[k] \in Nat
    BY <2>1
  <2>. QED BY <2>2, <2>3
<1>3. n \div Power[0 + 1] = (n \div Power[0]) \div Base
  BY <1>2
<1>. QED BY <1>1, <1>2, <1>3

\* A nonce has digits, and these are the two lowest.
LEMMA LowDigits ==
    ASSUME NEW n \in Nat
    PROVE  /\ IVOf(n) \in [1..Digits -> 0..Base - 1]
           /\ IVOf(n)[1] = n % Base
           /\ IVOf(n)[2] = (n \div Base) % Base
<1>1. \A i \in 1..Digits : (n \div Power[i - 1]) % Base \in 0..Base - 1
  <2>1. \A m \in Nat : m % Base \in 0..Base - 1
    BY BaseFacts
  <2>2. ASSUME NEW i \in 1..Digits PROVE n \div Power[i - 1] \in Nat
    <3>1. i - 1 \in Nat
      BY BaseFacts
    <3>. QED BY <3>1, Quotients, Zenon
  <2>. QED BY <2>1, <2>2
<1>2. 1 \in 1..Digits /\ 2 \in 1..Digits /\ 1 - 1 = 0 /\ 2 - 1 = 1
  BY BaseFacts
<1>. QED BY <1>1, <1>2, Quotients, Zenon DEF IVOf

-----------------------------------------------------------------------------
\* The guess.

\* Diff, by which of the two digits is larger and how far they are apart.
LEMMA DiffCases ==
    ASSUME NEW d, NEW b \in 0..Base - 1, d[1] \in 0..Base - 1
    PROVE  Diff(d, b) = IF b >= d[1] THEN (IF b - d[1] <= Half THEN b - d[1] ELSE b - d[1] - Base)
                        ELSE (IF d[1] - b < Half THEN b - d[1] ELSE (b - d[1]) + Base)
<1>1. ASSUME b >= d[1] PROVE (b - d[1]) % Base = b - d[1]
  <2>1. b - d[1] \in 0..Base - 1 /\ b - d[1] = Base * 0 + (b - d[1]) /\ 0 \in Int /\ b - d[1] \in Int
    BY <1>1, BaseFacts
  <2>. QED BY <2>1, DivUnique, BaseFacts, Zenon
<1>2. ASSUME b < d[1] PROVE (b - d[1]) % Base = (b - d[1]) + Base
  <2>1. /\ (b - d[1]) + Base \in 0..Base - 1 /\ b - d[1] = Base * (-1) + ((b - d[1]) + Base)
        /\ -1 \in Int /\ b - d[1] \in Int
    BY <1>2, BaseFacts
  <2>. QED BY <2>1, DivUnique, BaseFacts, ZenonT(30)
<1>. QED BY <1>1, <1>2, BaseFacts DEF Diff

\* Diff is less than half a round back and at most half a round ahead, and says
\* how far packet is from top, up to a number of rounds.
LEMMA DiffRange ==
    ASSUME NEW top \in Nat, NEW packt \in Nat, NEW d, d[1] = top % Base
    PROVE  /\ Diff(d, packt % Base) \in 1 - Half..Half
           /\ \E k \in Int : packt = top + Diff(d, packt % Base) + (Base * k)
<1> DEFINE b == packt % Base  e == Diff(d, b)
<1>1. /\ packt \div Base \in Int /\ b \in 0..Base - 1 /\ packt = Base * (packt \div Base) + b
      /\ top \div Base \in Int /\ d[1] \in 0..Base - 1 /\ top = Base * (top \div Base) + d[1]
  BY BaseMod
<1>. HIDE DEF b
<1>2. e = IF b >= d[1] THEN (IF b - d[1] <= Half THEN b - d[1] ELSE b - d[1] - Base)
          ELSE (IF d[1] - b < Half THEN b - d[1] ELSE (b - d[1]) + Base)
  BY <1>1, DiffCases
<1>. HIDE DEF e
<1>3. e \in 1 - Half..Half
  BY <1>1, <1>2, BaseFacts
<1>4. PICK j \in Int : e = (b - d[1]) + (Base * j)
  <2>1. e = (b - d[1]) + (Base * 0) \/ e = (b - d[1]) + (Base * 1) \/ e = (b - d[1]) + (Base * (-1))
    BY <1>1, <1>2, BaseFacts
  <2>. QED BY <2>1
<1>5. ASSUME NEW p \in Int, NEW t \in Int, packt = Base * p + b, top = Base * t + d[1]
      PROVE  (p - t) - j \in Int /\ packt = top + e + (Base * ((p - t) - j))
  BY <1>1, <1>4, <1>5, BaseFacts
<1>. QED BY <1>1, <1>3, <1>5 DEF e, b

\* Where Diff says that the digits are of the next round, or of the one before.
LEMMA Rounds ==
    ASSUME NEW top \in Nat, NEW d, d[1] = top % Base, NEW b \in 0..Base - 1
    PROVE  LET e == Diff(d, b)
               q == top \div Base
           IN /\ top + e \in Int /\ (top + e) % Base = b
              /\ (top + e) \div Base = IF e > 0 /\ b < d[1] THEN q + 1
                                     ELSE IF e < 0 /\ b > d[1] THEN q - 1 ELSE q
<1> DEFINE e == Diff(d, b)  q == top \div Base
           r == IF e > 0 /\ b < d[1] THEN q + 1 ELSE IF e < 0 /\ b > d[1] THEN q - 1 ELSE q
<1>1. q \in Int /\ d[1] \in 0..Base - 1 /\ top = Base * q + d[1]
  BY BaseMod
<1>2. e = IF b >= d[1] THEN (IF b - d[1] <= Half THEN b - d[1] ELSE b - d[1] - Base)
          ELSE (IF d[1] - b < Half THEN b - d[1] ELSE (b - d[1]) + Base)
  BY <1>1, DiffCases
<1>. HIDE DEF e, q
<1>3. r \in Int /\ e \in Int /\ top + e \in Int /\ top + e = Base * r + b
  <2>1. Base * (q + 1) = Base * q + Base /\ Base * (q - 1) = Base * q - Base
    BY <1>1, BaseFacts
  <2>. QED BY <1>1, <1>2, <2>1, BaseFacts
<1>4. (top + e) % Base = b /\ (top + e) \div Base = r
  <2>. HIDE DEF r
  <2>. QED BY <1>3, DivUnique, BaseFacts, Zenon
<1>. QED BY <1>1, <1>3, <1>4 DEF e, q

\* A remainder may be taken before something is added.
LEMMA ModAdd ==
    ASSUME NEW q \in Int, NEW c \in Int
    PROVE  ((q % Base) + c) % Base = (q + c) % Base
<1> DEFINE m == q % Base  r == (m + c) % Base
<1>1. PICK k \in Int : m \in 0..Base - 1 /\ q = Base * k + m
  BY DivMod, BaseFacts, Zenon
<1>2. m + c \in Int
  BY <1>1
<1>3. PICK l \in Int : r \in 0..Base - 1 /\ m + c = Base * l + r
  BY <1>2, DivMod, BaseFacts, ZenonT(30)
<1>. HIDE DEF m, r
<1>4. k + l \in Int /\ q + c \in Int /\ q + c = Base * (k + l) + r
  BY <1>1, <1>3, BaseFacts
<1>5. (q + c) % Base = r
  BY <1>3, <1>4, DivUnique, BaseFacts, Zenon
<1>. QED BY <1>5 DEF r, m

\* Carry and borrow keep the lowest digit and change the second one by one.
LEMMA CarryLow ==
    ASSUME NEW d \in [1..Digits -> 0..Base - 1]
    PROVE  /\ Carry(d) \in [1..Digits -> 0..Base - 1]
           /\ Carry(d)[1] = d[1] /\ Carry(d)[2] = (d[2] + 1) % Base
           /\ Borrow(d) \in [1..Digits -> 0..Base - 1]
           /\ Borrow(d)[1] = d[1] /\ Borrow(d)[2] = (d[2] - 1) % Base
<1>1. 1 \in 1..Digits /\ 2 \in 1..Digits /\ DOMAIN d = 1..Digits
  BY BaseFacts
<1>2. \A m \in Int : m % Base \in 0..Base - 1
  BY BaseFacts
<1>3. \A i \in 1..Digits : (d[i] + 1) % Base \in 0..Base - 1 /\ (d[i] - 1) % Base \in 0..Base - 1
  <2>1. ASSUME NEW i \in 1..Digits PROVE d[i] + 1 \in Int /\ d[i] - 1 \in Int
    BY BaseFacts
  <2>. QED BY <1>2, <2>1
<1>4. Carry(d) \in [1..Digits -> 0..Base - 1] /\ Borrow(d) \in [1..Digits -> 0..Base - 1]
  BY <1>1, <1>3, SMTT(30) DEF Carry, Borrow
<1>5. ~(1 > 1) /\ 2 > 1 /\ 2..2 - 1 = {}
  OBVIOUS
<1>6. Carry(d)[1] = d[1] /\ Borrow(d)[1] = d[1]
  BY <1>1, <1>5 DEF Carry, Borrow
<1>7. Carry(d)[2] = (d[2] + 1) % Base /\ Borrow(d)[2] = (d[2] - 1) % Base
  BY <1>1, <1>5 DEF Carry, Borrow
<1>. QED BY <1>4, <1>6, <1>7

\* The guess is a nonce, and its two lowest digits are those of the number that
\* is as far from top as Diff says.
LEMMA PlaceLow ==
    ASSUME NEW top \in Nat, NEW b \in 0..Base - 1
    PROVE  LET d == IVOf(top)
           IN /\ Place(d, b) \in [1..Digits -> 0..Base - 1]
              /\ Place(d, b)[1] = b
              /\ Place(d, b)[2] = ((top + Diff(d, b)) \div Base) % Base
<1> DEFINE d == IVOf(top)  e == Diff(d, b)  q == top \div Base  put == [d EXCEPT ![1] = b]
<1>1. d \in [1..Digits -> 0..Base - 1] /\ d[1] = top % Base /\ d[2] = q % Base
  BY LowDigits, SMTT(30)
<1>2. q \in Int
  BY BaseMod
<1>3. (top + e) \div Base = IF e > 0 /\ b < d[1] THEN q + 1
                            ELSE IF e < 0 /\ b > d[1] THEN q - 1 ELSE q
  BY <1>1, Rounds, Zenon
<1>4. 1 \in 1..Digits /\ 2 \in 1..Digits
  BY BaseFacts
<1>5. put \in [1..Digits -> 0..Base - 1] /\ put[1] = b /\ put[2] = d[2]
  BY <1>1, <1>4
<1>6. (d[2] + 1) % Base = (q + 1) % Base /\ (d[2] - 1) % Base = (q - 1) % Base
  <2>1. ((q % Base) + 1) % Base = (q + 1) % Base /\ ((q % Base) + (-1)) % Base = (q + (-1)) % Base
    <3>1. 1 \in Int /\ -1 \in Int
      OBVIOUS
    <3>. QED BY <1>2, <3>1, ModAdd, Zenon
  <2>2. d[2] - 1 = d[2] + (-1) /\ q - 1 = q + (-1)
    BY <1>1, <1>2, <1>4, BaseFacts
  <2>. QED BY <1>1, <2>1, <2>2
<1>7. Place(d, b) = IF e > 0 /\ b < d[1] THEN Carry(put)
                    ELSE IF e < 0 /\ b > d[1] THEN Borrow(put) ELSE put
  <2>1. ~(b < d[1] /\ b > d[1])
    BY <1>1, <1>4, BaseFacts
  <2>. HIDE DEF d, e
  <2>. QED BY <2>1 DEF Place, e
<1>. HIDE DEF d, e, q, put
<1>8. CASE e > 0 /\ b < d[1]
  BY <1>1, <1>3, <1>5, <1>6, <1>7, <1>8, CarryLow, Zenon DEF d, e
<1>9. CASE ~(e > 0 /\ b < d[1]) /\ e < 0 /\ b > d[1]
  BY <1>1, <1>3, <1>5, <1>6, <1>7, <1>9, CarryLow, Zenon DEF d, e
<1>10. CASE ~(e > 0 /\ b < d[1]) /\ ~(e < 0 /\ b > d[1])
  BY <1>1, <1>3, <1>5, <1>6, <1>7, <1>10 DEF d, e
<1>. QED BY <1>8, <1>9, <1>10

\* The cipher accepts a guess only for the datagram that is as far from top as
\* Diff says.
LEMMA Identified ==
    ASSUME NEW top \in Nat, NEW n \in Nat, n - top < (Base * Base) - Half, top - n < (Base * Base) - Half,
           Place(IVOf(top), n % Base) = IVOf(n)
    PROVE  n = top + Diff(IVOf(top), n % Base)
<1> DEFINE d == IVOf(top)  b == n % Base  e == Diff(d, b)  x == top + e
<1>1. b \in 0..Base - 1 /\ d[1] = top % Base
  BY BaseMod, LowDigits
<1>2. e \in 1 - Half..Half
  BY <1>1, DiffRange
<1>3. x \in Int /\ x % Base = b
  BY <1>1, Rounds
<1>4. (x \div Base) % Base = (n \div Base) % Base
  BY <1>1, PlaceLow, LowDigits
<1> DEFINE s == (n \div Base) % Base
<1>5. PICK p \in Int : n = Base * p + b /\ p % Base = s
  BY BaseMod
<1>6. PICK y \in Int : x = Base * y + b /\ y % Base = s
  BY <1>3, <1>4, DivMod, BaseFacts, Zenon
<1>. HIDE DEF s
<1>7. PICK u \in Int : p = Base * u + s
  BY DivMod, BaseFacts, <1>5, ZenonT(30)
<1>8. PICK v \in Int : y = Base * v + s
  BY DivMod, BaseFacts, <1>6, Zenon
<1>9. s \in Int /\ b \in Int
  BY <1>1, <1>5, DivMod, BaseFacts
<1>. HIDE DEF b, d, e, x
<1>10. n - x = (Base * Base) * (u - v)
  BY <1>5, <1>6, <1>7, <1>8, <1>9, BaseFacts
<1>11. n - x < Base * Base /\ -(Base * Base) < n - x
  BY <1>2, BaseFacts DEF x
<1>12. u = v
  <2>1. Base * Base \in Nat \ {0}
    BY BaseFacts
  <2>2. ASSUME NEW B \in Nat \ {0}, NEW z \in Int, B * z < B, -B < B * z PROVE z = 0
    BY <2>2
  <2>3. u - v \in Int
    OBVIOUS
  <2>4. u - v = 0
    BY <1>10, <1>11, <2>1, <2>2, <2>3
  <2>. QED BY <2>4
<1>13. n = x
  BY <1>10, <1>12, <1>3, BaseFacts
<1>. QED BY <1>13 DEF x, e, d, b

-----------------------------------------------------------------------------
\* The invariant.

Nonce == [1..Digits -> 0..Base - 1]
Top == Max({base} \cup seen)

\* The client's numbers, and which of them the server may have met.
CryptType ==
    /\ first \in Nat /\ sent \in 0..MaxSent
    /\ base \in first..first + sent /\ seen \subseteq first + 1..first + sent
    /\ nonce \in {-1} \cup first..first + sent
    /\ phase \in {"idle", "placed", "opened"}
    /\ phase # "idle" => packet \in first + 1..first + sent
    /\ history \in [0..Base - 1 -> 0..Base - 1]
    /\ iv \in Nonce /\ (phase # "idle" => saved \in Nonce)
    /\ twice \in BOOLEAN /\ raced \in BOOLEAN

\* In Decrypt saveiv is the window's end, DecryptIV the guess made from it.
Guessed ==
    /\ saved = IVOf(Top)
    /\ ~Refused(saved, packet % Base)
    /\ restore = Late(saved, packet % Base)
    /\ iv = IF Repeated(saved, packet % Base) THEN saved ELSE Place(saved, packet % Base)
    /\ phase = "opened" => iv = IVOf(packet)

WindowInv ==
    ~raced => /\ IF phase = "idle" THEN iv = IVOf(Top) ELSE Guessed
              /\ ~twice

\* The history has every datagram that is not too old to be guessed again.
HistoryInv ==
    ~raced => \A n \in seen : n > Top - LateWindow => history[n % Base] = (n \div Base) % Base

CryptInv == CryptType /\ WindowInv /\ HistoryInv

\* What is asked of the network: a datagram that the cipher has opened was sent
\* less than Base * Base - Half datagrams (65408) before or after the last one
\* accepted.  The two lowest digits then tell which datagram it is.  A borrow that
\* stops too early makes the guess for one Base * Base further on.
Near ==
    (phase = "opened" /\ ~raced) =>
        packet - Top < (Base * Base) - Half /\ Top - packet < (Base * Base) - Half

\* It is so whenever the client sends no more datagrams than that.
ShortRun == MaxSent < (Base * Base) - Half

-----------------------------------------------------------------------------
\* The end of the window is the nonce last set or a datagram accepted since.
LEMMA TopFacts ==
    ASSUME CryptType
    PROVE  /\ Top \in {base} \cup seen /\ Top \in first..first + sent
           /\ \A s \in {base} \cup seen : s <= Top
<1> DEFINE S == {base} \cup seen
<1>1. first \in Nat /\ sent \in Nat
  BY BaseFacts DEF CryptType
<1>2. S \in SUBSET Nat /\ S # {} /\ \A s \in S : s \in first..first + sent
  BY <1>1 DEF CryptType
<1>3. first + sent \in Nat /\ \A s \in S : s <= first + sent
  BY <1>1, <1>2
<1>4. Max(S) \in S /\ \A s \in S : s <= Max(S)
  <2>. HIDE DEF S
  <2>. QED BY <1>2, <1>3, Greatest, Zenon
<1>. QED BY <1>2, <1>4 DEF Top

\* A datagram with the digit of the window's end itself is refused.
LEMMA SameDigit ==
    ASSUME NEW top \in Nat, NEW n \in Nat, IVOf(top) = IVOf(n)
    PROVE  Refused(IVOf(top), n % Base)
<1>1. IVOf(top)[1] = n % Base /\ n % Base \in 0..Base - 1
  BY LowDigits, BaseMod
<1>2. Diff(IVOf(top), n % Base) = 0
  BY <1>1, DiffCases, BaseFacts
<1>. QED BY <1>2 DEF Refused

\* What Decrypt has accepted, if the nonce was not set meanwhile: a datagram ahead
\* of the window, which it moves, or a late one that was not accepted before.
LEMMA Accepted ==
    ASSUME Near, CryptInv, ~raced, phase = "opened"
    PROVE  /\ packet \in Nat /\ Top \in Nat /\ packet \notin seen
           /\ iv = IVOf(packet) /\ saved = IVOf(Top)
           /\ packet > Top - LateWindow
           /\ restore <=> packet < Top
           /\ packet # Top
<1> DEFINE b == packet % Base  e == Diff(saved, b)
<1>1. packet \in Nat /\ Top \in Nat
  <2>1. Top \in first..first + sent
    BY TopFacts DEF CryptInv
  <2>2. first \in Nat /\ sent \in 0..MaxSent /\ packet \in first + 1..first + sent
    BY DEF CryptInv, CryptType
  <2>. QED BY <2>1, <2>2, BaseFacts
<1>2. /\ saved = IVOf(Top) /\ iv = IVOf(packet) /\ ~Refused(saved, b)
      /\ restore = Late(saved, b)
      /\ iv = IF Repeated(saved, b) THEN saved ELSE Place(saved, b)
  BY DEF CryptInv, WindowInv, Guessed
<1>3. ~Repeated(saved, b) /\ iv = Place(saved, b)
  <2>1. iv # saved
    BY <1>1, <1>2, SameDigit, Zenon
  <2>. QED BY <1>2, <2>1
<1>4. packet = Top + e
  BY <1>1, <1>2, <1>3, Identified, Zenon DEF Near
<1>5. e \in Int
  <2>1. saved[1] = Top % Base
    BY <1>1, <1>2, LowDigits
  <2>2. e \in 1 - Half..Half
    BY <1>1, <2>1, DiffRange
  <2>. QED BY <2>2, BaseFacts
<1>6. e > -LateWindow /\ e # 0
  BY <1>2, <1>5, BaseFacts DEF Refused
<1>7. restore <=> e < 0
  BY <1>2, <1>5, <1>6, BaseFacts, Zenon DEF Late
<1>8. packet \notin seen
  <2>1. SUFFICES ASSUME packet \in seen PROVE FALSE
    OBVIOUS
  <2>2. packet <= Top
    BY <2>1, TopFacts DEF CryptInv
  <2>3. e < 0
    BY <1>1, <1>4, <1>5, <1>6, <2>2
  <2>4. packet > Top - LateWindow
    BY <1>1, <1>4, <1>5, <1>6, BaseFacts
  <2>5. history[b] = (packet \div Base) % Base
    BY <2>1, <2>4 DEF CryptInv, HistoryInv
  <2>6. Place(saved, b)[1] = b /\ Place(saved, b)[2] = (packet \div Base) % Base
    BY <1>1, <1>2, <1>3, LowDigits, Zenon
  <2>7. Diff(saved, b) # 1
    BY <1>5, <2>3
  <2>. QED BY <1>3, <2>5, <2>6, <2>7 DEF Repeated
<1>. QED BY <1>1, <1>2, <1>4, <1>5, <1>6, <1>7, <1>8, BaseFacts

\* The types, step by step.
LEMMA TypeStep ==
    ASSUME CryptType, [Next]_vars
    PROVE  CryptType'
<1>. USE DEF CryptType
<1>0. first \in Nat /\ sent \in Nat /\ MaxSent \in Nat
  BY BaseFacts
<1>1. ASSUME NEW n \in Nat PROVE IVOf(n) \in Nonce
  BY LowDigits, SMTT(30) DEF Nonce
<1>2. CASE Encrypt
  BY <1>0, <1>2 DEF Encrypt, decryptVars
<1>3. ASSUME NEW n, decryptRefuse(n) PROVE CryptType'
  BY <1>3 DEF decryptRefuse, decryptVars
<1>4. ASSUME NEW n, decryptPlace(n) PROVE CryptType'
  <2>1. n \in Nat /\ n \in first + 1..first + sent
    BY <1>0, <1>4 DEF decryptPlace
  <2>2. IVOf(n)[1] \in 0..Base - 1
    BY <2>1, LowDigits, BaseMod, Zenon
  <2>3. ASSUME NEW d \in Nonce, NEW b \in 0..Base - 1 PROVE Place(d, b) \in Nonce
    <3>0. 1 \in 1..Digits
      BY BaseFacts
    <3>1. [d EXCEPT ![1] = b] \in Nonce
      BY <3>0 DEF Nonce
    <3>2. /\ Carry([d EXCEPT ![1] = b]) \in Nonce
          /\ Borrow([d EXCEPT ![1] = b]) \in Nonce
      BY <3>1, CarryLow, Zenon DEF Nonce
    <3>. QED BY <3>1, <3>2 DEF Place
  <2>4. iv' \in Nonce /\ saved' \in Nonce
    BY <1>4, <2>2, <2>3 DEF decryptPlace
  <2>. QED BY <1>4, <2>1, <2>4 DEF decryptPlace
<1>5. CASE decryptFail
  BY <1>5 DEF decryptFail
<1>6. CASE decryptOpen
  BY <1>6 DEF decryptOpen
<1>7. CASE decryptMark
  <2>0. 1 \in 1..Digits /\ 2 \in 1..Digits
    BY BaseFacts
  <2>1. iv[1] \in 0..Base - 1 /\ iv[2] \in 0..Base - 1
    BY <2>0 DEF Nonce
  <2>2. history' \in [0..Base - 1 -> 0..Base - 1]
    BY <1>7, <2>1 DEF decryptMark
  <2>3. iv' \in Nonce
    BY <1>7 DEF decryptMark
  <2>4. twice' \in BOOLEAN /\ seen' \subseteq first + 1..first + sent
    BY <1>7, Zenon DEF decryptMark
  <2>. QED BY <1>7, <2>2, <2>3, <2>4 DEF decryptMark
<1>8. CASE AnswerNonce
  BY <1>0, <1>8 DEF AnswerNonce, decryptVars
<1>9. CASE handleCryptSetup
  <2>1. nonce \in first..first + sent /\ nonce \in Nat
    BY <1>0, <1>9 DEF handleCryptSetup
  <2>2. iv' \in Nonce /\ (phase # "idle" => saved' \in Nonce)
    BY <1>1, <1>9, <2>1 DEF handleCryptSetup
  <2>. QED BY <1>9, <2>1, <2>2, Zenon DEF handleCryptSetup
<1>10. CASE UNCHANGED vars
  BY <1>10 DEF vars, decryptVars
<1>. QED BY <1>2, <1>3, <1>4, <1>5, <1>6, <1>7, <1>8, <1>9, <1>10 DEF Next

\* Steps that leave the window, Decrypt and the history alone.
LEMMA Framed ==
    ASSUME WindowInv, HistoryInv, UNCHANGED <<iv, history, decryptVars, base, seen, twice, raced>>
    PROVE  WindowInv' /\ HistoryInv'
BY Zenon DEF WindowInv, HistoryInv, Guessed, decryptVars, Top, Repeated

\* decryptMark, when the nonce was not set meanwhile.
LEMMA MarkStep ==
    ASSUME Near, CryptInv, CryptType', decryptMark, ~raced
    PROVE  WindowInv' /\ HistoryInv'
<1>1. /\ packet \in Nat /\ Top \in Nat /\ packet \notin seen
      /\ iv = IVOf(packet) /\ saved = IVOf(Top)
      /\ packet > Top - LateWindow
      /\ restore <=> packet < Top
      /\ packet # Top
  BY Accepted DEF decryptMark
<1>2. /\ base' = base /\ seen' = seen \cup {packet} /\ raced' = raced /\ phase' = "idle"
      /\ iv' = (IF restore THEN saved ELSE iv)
      /\ history' = [history EXCEPT ![iv[1]] = iv[2]]
      /\ ~twice'
  BY <1>1, Zenon DEF decryptMark, CryptInv, WindowInv
<1>3. /\ Top \in {base} \cup seen /\ \A s \in {base} \cup seen : s <= Top
      /\ {base} \cup seen \in SUBSET Nat
  <2>1. first \in Nat /\ sent \in Nat
    BY BaseFacts DEF CryptInv, CryptType
  <2>2. {base} \cup seen \in SUBSET Nat
    BY <2>1 DEF CryptInv, CryptType
  <2>. QED BY <2>2, TopFacts DEF CryptInv
<1>4. Top' = IF packet < Top THEN Top ELSE packet
  <2> DEFINE S == {base} \cup seen \cup {packet}
             x == IF packet < Top THEN Top ELSE packet
  <2>1. S \in SUBSET Nat /\ x \in S
    BY <1>1, <1>3
  <2>2. \A s \in S : s <= x
    BY <1>1, <1>3
  <2>3. Max(S) = x
    <3>. HIDE DEF S, x
    <3>. QED BY <2>1, <2>2, MaxIs
  <2>4. {base'} \cup seen' = S
    BY <1>2
  <2>. QED BY <2>3, <2>4 DEF Top
<1>5. WindowInv'
  <2>1. iv' = IVOf(Top')
    BY <1>1, <1>2, <1>4
  <2>. QED BY <1>2, <2>1 DEF WindowInv
<1>6. ASSUME NEW n \in seen', n > Top' - LateWindow
      PROVE  history'[n % Base] = (n \div Base) % Base
  <2>1. n \in Nat /\ n <= Top' /\ Top' \in Nat
    BY <1>1, <1>2, <1>3, <1>4
  <2>2. /\ iv[1] = packet % Base /\ iv[2] = (packet \div Base) % Base
        /\ packet % Base \in 0..Base - 1 /\ n % Base \in 0..Base - 1
        /\ DOMAIN history = 0..Base - 1
    BY <1>1, <2>1, LowDigits, BaseMod, Zenon DEF CryptInv, CryptType
  <2>3. CASE n = packet
    BY <1>2, <2>2, <2>3
  <2>4. CASE n # packet
    <3>1. n \in seen /\ history[n % Base] = (n \div Base) % Base
      <4>1. n > Top - LateWindow
        BY <1>1, <1>4, <1>6, <2>1, BaseFacts
      <4>. QED BY <1>2, <2>4, <4>1 DEF CryptInv, HistoryInv
    <3>2. n % Base # packet % Base
      <4>1. SUFFICES ASSUME n % Base = packet % Base PROVE FALSE
        OBVIOUS
      <4>2. PICK k \in Int : n = Base * k + (packet % Base)
        BY <2>1, <4>1, BaseMod
      <4>3. PICK l \in Int : packet = Base * l + (packet % Base)
        BY <1>1, BaseMod
      <4>4. n - packet < Base /\ packet - n < Base
        BY <1>1, <1>4, <1>6, <2>1, BaseFacts
      <4>5. n \in Int /\ packet \in Int /\ packet % Base \in Int
        BY <1>1, <2>1, <2>2
      <4>. QED BY <2>4, <4>2, <4>3, <4>4, <4>5, SameRound
    <3>. QED BY <1>2, <2>2, <3>1, <3>2
  <2>. QED BY <2>3, <2>4
<1>. QED BY <1>5, <1>6 DEF HistoryInv

\* The whole invariant, step by step.
LEMMA CryptStep ==
    ASSUME Near, CryptInv, [Next]_vars
    PROVE  CryptInv'
<1>1. CryptType'
  BY TypeStep DEF CryptInv
<1>2. SUFFICES WindowInv' /\ HistoryInv'
  BY <1>1 DEF CryptInv
<1>3. WindowInv /\ HistoryInv /\ CryptType
  BY DEF CryptInv
<1>4. CASE Encrypt
  BY <1>3, <1>4, Framed DEF Encrypt
<1>5. ASSUME NEW n, decryptRefuse(n) PROVE WindowInv' /\ HistoryInv'
  BY <1>3, <1>5, Framed DEF decryptRefuse
<1>6. ASSUME NEW n, decryptPlace(n) PROVE WindowInv' /\ HistoryInv'
  <2>1. n \in Nat /\ IVOf(n)[1] = n % Base
    <3>1. n \in Nat
      BY <1>3, <1>6, BaseFacts DEF CryptType, decryptPlace
    <3>. QED BY <3>1, LowDigits
  <2>2. /\ phase = "idle" /\ phase' = "placed" /\ ~Refused(iv, n % Base)
        /\ iv' = (IF Repeated(iv, n % Base) THEN iv ELSE Place(iv, n % Base))
        /\ saved' = iv /\ packet' = n /\ restore' = Late(iv, n % Base)
        /\ UNCHANGED <<history, base, seen, twice, raced>>
    BY <1>6, <2>1 DEF decryptPlace
  <2>3. HistoryInv'
    BY <1>3, <2>2, SMTT(30) DEF HistoryInv, Top
  <2>4. WindowInv'
    BY <1>3, <2>2 DEF WindowInv, Guessed, Top, Repeated
  <2>. QED BY <2>3, <2>4
<1>7. CASE decryptFail
  BY <1>3, <1>7, Zenon DEF decryptFail, WindowInv, HistoryInv, Guessed, Top
<1>8. CASE decryptOpen
  BY <1>3, <1>8, Zenon DEF decryptOpen, WindowInv, HistoryInv, Guessed, Top, Repeated
<1>9. CASE decryptMark
  <2>1. CASE raced
    BY <1>9, <2>1 DEF decryptMark, WindowInv, HistoryInv
  <2>2. CASE ~raced
    BY <1>1, <1>9, <2>2, MarkStep
  <2>. QED BY <2>1, <2>2
<1>10. CASE AnswerNonce
  BY <1>3, <1>10, Framed DEF AnswerNonce
<1>11. CASE handleCryptSetup
  <2>1. nonce \in Nat /\ base' = nonce /\ seen' = {} /\ twice' = FALSE /\ iv' = IVOf(nonce)
    BY <1>3, <1>11, BaseFacts DEF CryptType, handleCryptSetup
  <2>2. Top' = nonce
    <3>1. {nonce} \in SUBSET Nat /\ {base'} \cup seen' = {nonce}
      BY <2>1
    <3>2. Max({nonce}) = nonce
      BY <3>1, MaxIs
    <3>. QED BY <3>1, <3>2 DEF Top
  <2>. QED BY <1>11, <2>1, <2>2, Zenon DEF handleCryptSetup, WindowInv, HistoryInv
<1>12. CASE UNCHANGED vars
  BY <1>3, <1>12, Framed DEF vars
<1>. QED BY <1>4, <1>5, <1>6, <1>7, <1>8, <1>9, <1>10, <1>11, <1>12 DEF Next

\* It holds at first.
LEMMA CryptInit ==
    ASSUME Init
    PROVE  CryptInv
<1>1. /\ first \in Nat /\ sent = 0 /\ iv = IVOf(first) /\ base = first /\ seen = {}
      /\ phase = "idle" /\ nonce = -1 /\ twice = FALSE /\ raced = FALSE
      /\ history = [b \in 0..Base - 1 |-> 0]
  BY BaseFacts DEF Init
<1>2. Top = first
  <2>1. {first} \in SUBSET Nat /\ {base} \cup seen = {first}
    BY <1>1
  <2>2. Max({first}) = first
    BY <2>1, MaxIs
  <2>. QED BY <2>1, <2>2 DEF Top
<1>3. CryptType
  <2>1. iv \in Nonce
    BY <1>1, LowDigits DEF Nonce
  <2>2. first + sent \in Nat /\ base \in first..first + sent
    BY <1>1
  <2>3. history \in [0..Base - 1 -> 0..Base - 1] /\ sent \in 0..MaxSent
    BY <1>1, BaseFacts
  <2>. QED BY <1>1, <2>1, <2>2, <2>3, Zenon DEF CryptType
<1>. QED BY <1>1, <1>2, <1>3 DEF CryptInv, WindowInv, HistoryInv

\* A client that sends few datagrams keeps within reach.
LEMMA ShortIsNear ==
    ASSUME ShortRun, CryptType
    PROVE  Near
<1>1. SUFFICES ASSUME phase = "opened"
               PROVE  packet - Top < (Base * Base) - Half /\ Top - packet < (Base * Base) - Half
  BY DEF Near
<1>2. Top \in first..first + sent
  BY TopFacts
<1>3. first \in Nat /\ sent \in 0..MaxSent /\ packet \in first + 1..first + sent
  BY <1>1 DEF CryptType
<1>4. Base * Base \in Nat
  BY BaseFacts
<1>. QED BY <1>2, <1>3, <1>4, BaseFacts DEF ShortRun

-----------------------------------------------------------------------------
\* The higher digits of the guess.

\* Numbers with the same quotient have the same digits from there on.
LEMMA SameHigh ==
    ASSUME NEW x \in Nat, NEW y \in Nat, NEW m \in Nat, x \div Power[m] = y \div Power[m]
    PROVE  \A k \in Nat : k >= m => x \div Power[k] = y \div Power[k]
<1> DEFINE S == {k \in Nat : k >= m => x \div Power[k] = y \div Power[k]}
<1>1. S \in SUBSET Nat
  OBVIOUS
<1>2. 0 \in S
  <2>1. 0 >= m => m = 0
    OBVIOUS
  <2>. QED BY <2>1
<1>3. ASSUME NEW k \in S PROVE k + 1 \in S
  <2>1. CASE k >= m
    BY <2>1, Quotients
  <2>2. CASE ~(k >= m)
    <3>1. k + 1 >= m => k + 1 = m
      BY <2>2
    <3>. QED BY <3>1
  <2>. QED BY <2>1, <2>2
<1>4. S = Nat
  <2>. HIDE DEF S
  <2>. QED BY <1>1, <1>2, <1>3, Induction
<1>. QED BY <1>4

\* One more in the second digit carries as far as the digits are the highest.
LEMMA CarryHigh ==
    ASSUME NEW x \in Nat, NEW y \in Nat, y \div Base = (x \div Base) + 1
    PROVE  \A k \in Nat \ {0} :
               y \div Power[k] = IF \A j \in 2..k : (x \div Power[j - 1]) % Base = Base - 1
                                 THEN (x \div Power[k]) + 1 ELSE x \div Power[k]
<1> DEFINE Full(k) == \A j \in 2..k : (x \div Power[j - 1]) % Base = Base - 1
           S == {k \in Nat : y \div Power[k + 1] = IF Full(k + 1) THEN (x \div Power[k + 1]) + 1
                                                   ELSE x \div Power[k + 1]}
<1>1. S \in SUBSET Nat
  OBVIOUS
<1>2. 0 \in S
  <2>1. Full(1) /\ 0 + 1 = 1
    OBVIOUS
  <2>. QED BY <2>1, Quotients
<1>3. ASSUME NEW k \in S PROVE k + 1 \in S
  <2> DEFINE p == x \div Power[k + 1]  q == y \div Power[k + 1]
  <2>1. /\ k + 1 \in Nat /\ p \in Nat /\ q \in Nat
        /\ x \div Power[(k + 1) + 1] = p \div Base /\ y \div Power[(k + 1) + 1] = q \div Base
    BY Quotients
  <2>2. q = IF Full(k + 1) THEN p + 1 ELSE p
    OBVIOUS
  <2>3. Full((k + 1) + 1) <=> Full(k + 1) /\ p % Base = Base - 1
    <3>1. 2..(k + 1) + 1 = 2..k + 1 \cup {k + 2} /\ (k + 2) - 1 = k + 1
      OBVIOUS
    <3>. QED BY <3>1
  <2>. HIDE DEF p, q, Full
  <2>4. PICK u \in Nat : p \div Base = u /\ p = Base * u + (p % Base) /\ p % Base \in 0..Base - 1
    BY <2>1, BaseMod
  <2>5. CASE p % Base = Base - 1
    <3>1. p + 1 = Base * (u + 1) + 0 /\ 0 \in 0..Base - 1 /\ p + 1 \in Int /\ u + 1 \in Int
      BY <2>1, <2>4, <2>5, BaseFacts
    <3>2. (p + 1) \div Base = u + 1
      <4>. HIDE DEF S
      <4>. QED BY <3>1, DivUnique, BaseFacts, ZenonT(30)
    <3>3. q \div Base = IF Full((k + 1) + 1) THEN (p \div Base) + 1 ELSE p \div Base
      BY <2>2, <2>3, <2>4, <2>5, <3>2
    <3>. QED BY <2>1, <3>3
  <2>6. CASE p % Base # Base - 1
    <3>1. PICK r \in 0..Base - 1 : p + 1 = Base * u + r /\ p + 1 \in Int /\ u \in Int
      <4>1. p + 1 = Base * u + ((p % Base) + 1) /\ (p % Base) + 1 \in 0..Base - 1
        BY <2>1, <2>4, <2>6, BaseFacts
      <4>. QED BY <2>1, <4>1
    <3>2. (p + 1) \div Base = u
      <4>. HIDE DEF S
      <4>. QED BY <3>1, DivUnique, BaseFacts, Zenon
    <3>3. q \div Base = IF Full((k + 1) + 1) THEN (p \div Base) + 1 ELSE p \div Base
      BY <2>2, <2>3, <2>4, <2>6, <3>2
    <3>. QED BY <2>1, <3>3
  <2>. QED BY <2>5, <2>6
<1>4. S = Nat
  <2>. HIDE DEF S
  <2>. QED BY <1>1, <1>2, <1>3, Induction
<1>5. ASSUME NEW k \in Nat \ {0}
      PROVE  y \div Power[k] = IF Full(k) THEN (x \div Power[k]) + 1 ELSE x \div Power[k]
  <2>1. k - 1 \in Nat /\ (k - 1) + 1 = k
    OBVIOUS
  <2>2. k - 1 \in S
    <3>. HIDE DEF S
    <3>. QED BY <1>4, <2>1
  <2>. HIDE DEF Full
  <2>. QED BY <2>1, <2>2
<1>. QED BY <1>5

\* A digit above the lowest one, of a number and of a nonce with another lowest
\* digit.
LEMMA HighDigit ==
    ASSUME NEW x \in Nat, NEW b, NEW i \in 1..Digits, i # 1
    PROVE  /\ i - 1 \in Nat \ {0}
           /\ IVOf(x)[i] = (x \div Power[i - 1]) % Base
           /\ [IVOf(x) EXCEPT ![1] = b][i] = IVOf(x)[i]
           /\ x \div Power[i - 1] \in Nat
<1>1. i - 1 \in Nat \ {0}
  BY BaseFacts
<1>. QED BY <1>1, Quotients DEF IVOf

\* The guess is right, carried or not, and borrowed if the second digit is above
\* one.
LEMMA PlaceExact ==
    ASSUME NEW top \in Nat, NEW n \in Nat, n = top + Diff(IVOf(top), n % Base),
           (n < top /\ n \div Base # top \div Base) => BorrowSafe(IVOf(top))
    PROVE  Place(IVOf(top), n % Base) = IVOf(n)
<1> DEFINE d == IVOf(top)  b == n % Base  e == Diff(d, b)  put == [d EXCEPT ![1] = b]
           q == top \div Base
<1>1. /\ d \in [1..Digits -> 0..Base - 1] /\ IVOf(n) \in [1..Digits -> 0..Base - 1]
      /\ d[1] = top % Base /\ d[2] = q % Base /\ IVOf(n)[1] = b /\ b \in 0..Base - 1
  BY LowDigits, BaseMod, Zenon
<1>2. q \in Nat /\ e \in Int
  <2>1. e \in 1 - Half..Half
    BY <1>1, DiffRange, Zenon
  <2>. QED BY <2>1, BaseMod, BaseFacts
<1>3. n \div Base = IF e > 0 /\ b < d[1] THEN q + 1 ELSE IF e < 0 /\ b > d[1] THEN q - 1 ELSE q
  <2>1. n = top + e
    OBVIOUS
  <2>2. (top + e) \div Base = IF e > 0 /\ b < d[1] THEN q + 1
                              ELSE IF e < 0 /\ b > d[1] THEN q - 1 ELSE q
    BY <1>1, Rounds, Zenon
  <2>. HIDE DEF e, q, d, b
  <2>. QED BY <2>1, <2>2, Zenon
<1>4. 1 \in 1..Digits /\ 2 \in 1..Digits
  BY BaseFacts
<1>5. put \in [1..Digits -> 0..Base - 1] /\ put[1] = b
  BY <1>1, <1>4
<1>6. ASSUME NEW p \in [1..Digits -> 0..Base - 1], p[1] = b,
             \A i \in 1..Digits : i # 1 => p[i] = (n \div Power[i - 1]) % Base
      PROVE  p = IVOf(n)
  <2>1. \A i \in 1..Digits : p[i] = IVOf(n)[i]
    BY <1>1, <1>6, HighDigit, Zenon
  <2>2. IVOf(n) \in [1..Digits -> 0..Base - 1]
    BY <1>1
  <2>3. p = [i \in 1..Digits |-> p[i]] /\ IVOf(n) = [i \in 1..Digits |-> IVOf(n)[i]]
    BY <2>2
  <2>. QED BY <2>1, <2>3, Zenon
<1>7. Place(d, b) = IF e > 0 /\ b < d[1] THEN Carry(put)
                    ELSE IF e < 0 /\ b > d[1] THEN Borrow(put) ELSE put
  <2>1. ~(b < d[1] /\ b > d[1])
    BY <1>1, <1>4, BaseFacts
  <2>. HIDE DEF d, e
  <2>. QED BY <2>1 DEF Place, e
<1>8. /\ Carry(put) \in [1..Digits -> 0..Base - 1] /\ Carry(put)[1] = b
      /\ Borrow(put) \in [1..Digits -> 0..Base - 1] /\ Borrow(put)[1] = b
  BY <1>5, CarryLow, Zenon
<1>9. \A i \in 1..Digits : i # 1 => /\ i - 1 \in Nat \ {0} /\ top \div Power[i - 1] \in Nat
                                    /\ put[i] = (top \div Power[i - 1]) % Base
  BY HighDigit
<1>. HIDE DEF d, e, b, q, put
<1>10. CASE e > 0 /\ b < d[1]
  <2>1. n \div Base = (top \div Base) + 1
    BY <1>3, <1>10 DEF q
  <2>2. ASSUME NEW i \in 1..Digits, i # 1
        PROVE  Carry(put)[i] = (n \div Power[i - 1]) % Base
    <3> DEFINE Full == \A j \in 2..i - 1 : (top \div Power[j - 1]) % Base = Base - 1
    <3>1. n \div Power[i - 1] = IF Full THEN (top \div Power[i - 1]) + 1 ELSE top \div Power[i - 1]
      BY <1>9, <2>1, <2>2, CarryHigh
    <3>2. Full <=> \A j \in 2..i - 1 : put[j] = Base - 1
      <4>1. \A j \in 2..i - 1 : j \in 1..Digits /\ j # 1
        BY <2>2, BaseFacts
      <4>. QED BY <1>9, <4>1
    <3>3. Carry(put)[i] = IF Full THEN (put[i] + 1) % Base ELSE put[i]
      <4>1. i > 1 /\ i \in DOMAIN put
        BY <1>5, <2>2, BaseFacts
      <4>. HIDE DEF Full
      <4>. QED BY <3>2, <4>1 DEF Carry
    <3>4. (put[i] + 1) % Base = ((top \div Power[i - 1]) + 1) % Base
      <4>1. top \div Power[i - 1] \in Int /\ 1 \in Int
        BY <1>9, <2>2
      <4>. QED BY <1>9, <2>2, <4>1, ModAdd, ZenonT(30)
    <3>. HIDE DEF Full
    <3>. QED BY <1>9, <2>2, <3>1, <3>3, <3>4
  <2>. QED BY <1>6, <1>7, <1>8, <1>10, <2>2, Zenon DEF d, b
<1>11. CASE ~(e > 0 /\ b < d[1]) /\ e < 0 /\ b > d[1]
  <2>1. n \div Base = q - 1 /\ n < top
    BY <1>2, <1>3, <1>11 DEF e, d, b
  <2>2. d[2] > 1
    BY <1>2, <2>1 DEF BorrowSafe, d, q
  <2>3. PICK u \in Nat : q \div Base = u /\ q = Base * u + d[2] /\ d[2] \in 0..Base - 1
    BY <1>1, <1>2, BaseMod, SMTT(30)
  <2>4. (q - 1) \div Base = u /\ (q - 1) % Base = d[2] - 1
    <3>1. /\ q - 1 = Base * u + (d[2] - 1) /\ d[2] - 1 \in 0..Base - 1
          /\ q - 1 \in Int /\ u \in Int
      BY <1>2, <2>2, <2>3, BaseFacts
    <3>. QED BY <3>1, DivUnique, BaseFacts, ZenonT(30)
  <2>5. n \div Power[2] = top \div Power[2]
    <3>1. 1 \in Nat /\ 1 + 1 = 2
      OBVIOUS
    <3>2. n \div Power[1 + 1] = (n \div Power[1]) \div Base /\ n \div Power[1] = n \div Base
      BY <3>1, Quotients, Zenon
    <3>3. top \div Power[1 + 1] = (top \div Power[1]) \div Base /\ top \div Power[1] = top \div Base
      BY <3>1, Quotients, Zenon
    <3>. QED BY <2>1, <2>3, <2>4, <3>1, <3>2, <3>3 DEF q
  <2>6. put[2] = d[2] /\ put[2] # 1
    BY <1>1, <1>4, <2>2, <2>3, BaseFacts, SMTT(30) DEF put
  <2>7. ASSUME NEW i \in 1..Digits, i # 1
        PROVE  Borrow(put)[i] = (n \div Power[i - 1]) % Base
    <3>1. CASE i = 2
      <4>1. (d[2] - 1) % Base = d[2] - 1
        <5>1. d[2] - 1 \in 0..Base - 1 /\ d[2] - 1 = Base * 0 + (d[2] - 1) /\ 0 \in Int /\ d[2] - 1 \in Int
          BY <2>2, <2>3, BaseFacts
        <5>. QED BY <5>1, DivUnique, BaseFacts, ZenonT(30)
      <4>2. Borrow(put)[2] = (put[2] - 1) % Base
        BY <1>5, CarryLow, Zenon
      <4>3. n \div Power[1] = n \div Base /\ 2 - 1 = 1
        BY Quotients
      <4>. QED BY <2>1, <2>4, <2>6, <3>1, <4>1, <4>2, <4>3
    <3>2. CASE i # 2
      <4>1. i > 1 /\ i \in DOMAIN put /\ 2 \in 2..i - 1 /\ i - 1 >= 2 /\ i - 1 \in Nat
        BY <1>5, <2>7, <3>2, BaseFacts
      <4>2. Borrow(put)[i] = put[i]
        BY <2>6, <4>1 DEF Borrow
      <4>3. n \div Power[i - 1] = top \div Power[i - 1]
        <5>1. 2 \in Nat
          OBVIOUS
        <5>. QED BY <2>5, <4>1, <5>1, SameHigh
      <4>. QED BY <1>9, <2>7, <4>2, <4>3
    <3>. QED BY <3>1, <3>2
  <2>. QED BY <1>6, <1>7, <1>8, <1>11, <2>7, Zenon DEF d, b
<1>12. CASE ~(e > 0 /\ b < d[1]) /\ ~(e < 0 /\ b > d[1])
  <2>1. n \div Power[1] = top \div Power[1] /\ 1 \in Nat
    BY <1>3, <1>12, Quotients DEF q
  <2>2. ASSUME NEW i \in 1..Digits, i # 1
        PROVE  put[i] = (n \div Power[i - 1]) % Base
    <3>1. i - 1 >= 1 /\ i - 1 \in Nat
      BY <2>2, BaseFacts
    <3>2. n \div Power[i - 1] = top \div Power[i - 1]
      BY <2>1, <3>1, SameHigh
    <3>. QED BY <1>9, <2>2, <3>2
  <2>. QED BY <1>5, <1>6, <1>7, <1>12, <2>2, Zenon DEF d, b
<1>. QED BY <1>10, <1>11, <1>12

\* Diff is how far the datagram is from the window's end, if it is in reach.
LEMMA DiffExact ==
    ASSUME NEW top \in Nat, NEW n \in Nat, n \in top - LateWindow + 1..top + Half
    PROVE  n = top + Diff(IVOf(top), n % Base)
<1> DEFINE e == Diff(IVOf(top), n % Base)
<1>1. IVOf(top)[1] = top % Base
  BY LowDigits
<1>2. e \in 1 - Half..Half /\ \E k \in Int : n = top + e + (Base * k)
  BY <1>1, DiffRange
<1>3. PICK k \in Int : n = top + e + (Base * k)
  BY <1>2
<1>. HIDE DEF e
<1>4. n - (top + e) < Base /\ (top + e) - n < Base
  BY <1>2, BaseFacts
<1>5. n \in Int /\ top + e \in Int /\ n = Base * k + (top + e) /\ top + e = Base * 0 + (top + e)
  BY <1>2, <1>3, BaseFacts
<1>6. n = top + e
  BY <1>4, <1>5, SameRound
<1>. QED BY <1>6 DEF e

\* The guess that the invariant describes is the right one, in the cases that
\* GuessExact names.
LEMMA GuessFollows ==
    ASSUME CryptInv
    PROVE  GuessExact
<1>1. SUFFICES ASSUME phase = "placed", ~raced,
                      packet \in Top - LateWindow + 1..Top + Half,
                      history[IVOf(packet)[1]] # IVOf(packet)[2] \/ packet = Top + 1,
                      (packet < Top /\ packet \div Base # Top \div Base) => BorrowSafe(saved)
               PROVE  iv = IVOf(packet)
  BY DEF GuessExact, Top
<1>2. /\ saved = IVOf(Top)
      /\ iv = IF Repeated(saved, packet % Base) THEN saved ELSE Place(saved, packet % Base)
  BY <1>1 DEF CryptInv, WindowInv, Guessed
<1>3. packet \in Nat /\ Top \in Nat
  <2>1. Top \in first..first + sent
    BY TopFacts DEF CryptInv
  <2>2. first \in Nat /\ sent \in 0..MaxSent /\ packet \in first + 1..first + sent
    BY <1>1 DEF CryptInv, CryptType
  <2>. QED BY <2>1, <2>2, BaseFacts
<1>4. packet = Top + Diff(saved, packet % Base)
  BY <1>1, <1>2, <1>3, DiffExact
<1>5. Place(saved, packet % Base) = IVOf(packet)
  BY <1>1, <1>2, <1>3, <1>4, PlaceExact
<1>6. ~Repeated(saved, packet % Base)
  <2>1. packet = Top + 1 => Diff(saved, packet % Base) = 1
    <3>1. Diff(saved, packet % Base) \in Int
      <4>1. saved[1] = Top % Base
        BY <1>2, <1>3, LowDigits
      <4>2. Diff(saved, packet % Base) \in 1 - Half..Half
        BY <1>3, <4>1, DiffRange
      <4>. QED BY <4>2, BaseFacts
    <3>. QED BY <1>3, <1>4, <3>1
  <2>. QED BY <1>1, <1>5, <2>1 DEF Repeated
<1>. QED BY <1>2, <1>5, <1>6

-----------------------------------------------------------------------------
\* The theorems.

\* Every datagram lost, repeated or out of order, the nonce set at any moment: the
\* types, what Decrypt's guess is made from and what its history still has.
THEOREM CryptInvariant == Spec /\ []Near => []CryptInv
<1>1. Init => CryptInv
  BY CryptInit
<1>2. CryptInv /\ Near /\ [Next]_vars => CryptInv'
  BY CryptStep
<1>. QED BY <1>1, <1>2, PTL DEF Spec

\* Decrypt accepts no datagram twice, unless handleCryptSetup interferes.
THEOREM NoReplayTheorem == Spec /\ []Near => []NoReplay
<1>1. CryptInv => NoReplay
  BY DEF CryptInv, WindowInv, NoReplay
<1>. QED BY <1>1, CryptInvariant, PTL

\* DecryptIV is the largest nonce accepted, whenever Decrypt is not at work.
THEOREM WindowExactTheorem == Spec /\ []Near => []WindowExact
<1>1. CryptInv => WindowExact
  BY DEF CryptInv, WindowInv, WindowExact, Top
<1>. QED BY <1>1, CryptInvariant, PTL

\* Decrypt's carry and borrow give the right nonce, all of its digits, wherever
\* GuessExact says so.
THEOREM GuessExactTheorem == Spec /\ []Near => []GuessExact
<1>1. CryptInv => GuessExact
  BY GuessFollows
<1>. QED BY <1>1, CryptInvariant, PTL

\* A client that sends less than Base * Base - Half datagrams is near throughout,
\* whatever the network does.
THEOREM ShortRunTheorem ==
    ASSUME ShortRun
    PROVE  Spec => [](NoReplay /\ WindowExact /\ GuessExact)
<1>1. Init => CryptType
  BY CryptInit DEF CryptInv
<1>2. CryptType /\ [Next]_vars => CryptType'
  BY TypeStep
<1>3. CryptType => Near
  BY ShortIsNear
<1>4. Spec => []Near
  BY <1>1, <1>2, <1>3, PTL DEF Spec
<1>. QED BY <1>4, NoReplayTheorem, WindowExactTheorem, GuessExactTheorem, PTL
=============================================================================
