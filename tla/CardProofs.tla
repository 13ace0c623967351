----------------------------- MODULE CardProofs -----------------------------
(***************************************************************************)
(* Proofs about a card. First its economics, for any scales, prices, fee   *)
(* rates and amounts: the roundings of compilers, validators and verifiers *)
(* are reduced to a few lemmas on products and quotients, which are then   *)
(* cited with names for the terms, since the solvers lose themselves in    *)
(* products of variables. Then the order of a journey's steps with its     *)
(* card, for any kind of journey, any lives and headrooms and any number   *)
(* of ticks.                                                               *)
(***************************************************************************)
EXTENDS CardEconomics, Journey, NaturalsInduction, WellFoundedInduction, TLAPS

-----------------------------------------------------------------------------
(* Arithmetic *)

(* Products of naturals: closed, monotone, distributive, commutative.      *)
LEMMA MulNat == \A a, b \in Nat : a * b \in Nat
BY SMT

LEMMA MulMono == \A a, b, c \in Nat : a <= b => a * c <= b * c
BY SMT

LEMMA MulStrict == \A a, b, c \in Nat : a * c < b * c => a < b
BY SMT

LEMMA MulAdd == \A a, b, c \in Nat : (a + b) * c = a * c + b * c
BY SMT

LEMMA MulSwap == \A a, b, c \in Nat : (a * b) * c = (a * c) * b /\ (a * b) * c = a * (b * c) /\ a * b = b * a
BY SMT

(* Division of naturals and its remainder.                                 *)
LEMMA DivFacts ==
    ASSUME NEW a \in Nat, NEW b \in Nat \ {0}
    PROVE  /\ a \div b \in Nat
           /\ (a \div b) * b <= a
           /\ a < (a \div b) * b + b
           /\ a % b = a - (a \div b) * b
BY SMT

(* a \div b is the greatest number of b's that a holds ...                 *)
LEMMA DivGreatest ==
    ASSUME NEW a \in Nat, NEW b \in Nat \ {0}, NEW q \in Nat
    PROVE  q * b <= a <=> q <= a \div b
<1>1. q * b <= a => q <= a \div b
  <2> HAVE q * b <= a
  <2>1. PICK d : d = a \div b
    OBVIOUS
  <2>2. d \in Nat /\ a < d * b + b
    BY <2>1, DivFacts
  <2>3. (d + 1) * b = d * b + b /\ q * b \in Nat /\ d * b \in Nat
    BY <2>2, MulAdd, MulNat
  <2>4. q * b < (d + 1) * b
    BY <2>2, <2>3
  <2>5. q < d + 1
    BY <2>2, <2>4, MulStrict
  <2> QED BY <2>1, <2>2, <2>5
<1>2. q <= a \div b => q * b <= a
  <2> HAVE q <= a \div b
  <2>1. a \div b \in Nat /\ (a \div b) * b <= a
    BY DivFacts
  <2>2. q * b <= (a \div b) * b
    BY <2>1, MulMono
  <2> QED BY <2>1, <2>2, MulNat
<1> QED BY <1>1, <1>2

(* ... and CeilDiv(a, b) the least number that holds a.                    *)
LEMMA CeilLeast ==
    ASSUME NEW a \in Nat, NEW b \in Nat \ {0}
    PROVE  /\ CeilDiv(a, b) \in Nat /\ a <= CeilDiv(a, b) * b
           /\ \A c \in Nat : CeilDiv(a, b) <= c <=> a <= c * b
<1>1. PICK d : d = CeilDiv(a, b)
  OBVIOUS
<1>2. a + b - 1 \in Nat
  OBVIOUS
<1>3. d \in Nat /\ d * b <= a + b - 1 /\ a + b - 1 < d * b + b /\ d * b \in Nat
  BY <1>1, <1>2, DivFacts, MulNat DEF CeilDiv
<1>4. a <= d * b
  BY <1>3
<1>5. ASSUME NEW c \in Nat, d <= c
      PROVE  a <= c * b
  <2>1. d * b <= c * b
    BY <1>3, <1>5, MulMono
  <2> QED BY <1>3, <1>4, <2>1, MulNat
<1>6. ASSUME NEW c \in Nat, a <= c * b
      PROVE  d <= c
  <2>1. c * b + b = (c + 1) * b /\ c * b \in Nat
    BY MulAdd, MulNat
  <2>2. d * b < (c + 1) * b
    BY <1>3, <1>6, <2>1
  <2>3. d < c + 1
    BY <1>3, <2>2, MulStrict
  <2> QED BY <1>3, <2>3
<1> QED BY <1>1, <1>3, <1>4, <1>5, <1>6

(* Both grow with what is divided, and what divides evenly has no rest.    *)
LEMMA DivMono ==
    ASSUME NEW a \in Nat, NEW c \in Nat, a <= c, NEW b \in Nat \ {0}
    PROVE  a \div b <= c \div b /\ CeilDiv(a, b) <= CeilDiv(c, b) /\ a \div b <= CeilDiv(a, b)
<1>1. a \div b \in Nat /\ (a \div b) * b <= a /\ (a \div b) * b \in Nat
  BY DivFacts, MulNat
<1>2. a \div b <= c \div b
  BY <1>1, DivGreatest
<1>3. CeilDiv(a, b) <= CeilDiv(c, b)
  <2>1. CeilDiv(c, b) \in Nat /\ c <= CeilDiv(c, b) * b
    BY CeilLeast
  <2>2. a <= CeilDiv(c, b) * b
    BY <2>1, MulNat
  <2> QED BY <2>1, <2>2, CeilLeast
<1>4. a \div b <= CeilDiv(a, b)
  <2>1. CeilDiv(a, b) \in Nat /\ a <= CeilDiv(a, b) * b /\ CeilDiv(a, b) * b \in Nat
    BY CeilLeast, MulNat
  <2>2. CASE a \div b > CeilDiv(a, b)
    <3>1. CeilDiv(a, b) + 1 <= a \div b
      BY <1>1, <2>1, <2>2
    <3>2. (CeilDiv(a, b) + 1) * b <= a
      BY <1>1, <2>1, <3>1, DivGreatest
    <3>3. (CeilDiv(a, b) + 1) * b = CeilDiv(a, b) * b + b
      BY <2>1, MulAdd
    <3> QED BY <2>1, <3>2, <3>3
  <2>3. CASE ~(a \div b > CeilDiv(a, b))
    BY <1>1, <2>1, <2>3
  <2> QED BY <2>2, <2>3
<1> QED BY <1>2, <1>3, <1>4

(* A multiple divides without rest, and what divides so is a multiple.     *)
LEMMA DivExact ==
    ASSUME NEW q \in Nat, NEW b \in Nat \ {0}
    PROVE  (q * b) \div b = q /\ (q * b) % b = 0
<1>1. q * b \in Nat
  BY MulNat
<1>2. q <= (q * b) \div b
  BY <1>1, DivGreatest
<1>3. (q * b) \div b \in Nat /\ ((q * b) \div b) * b <= q * b
  BY <1>1, DivFacts
<1>4. (q * b) \div b <= q
  <2> SUFFICES ASSUME q + 1 <= (q * b) \div b
               PROVE  FALSE
    BY <1>3
  <2>1. (q + 1) * b <= q * b
    BY <1>1, DivGreatest
  <2> QED BY <1>1, <2>1, MulAdd
<1>5. (q * b) \div b = q
  BY <1>2, <1>3, <1>4
<1> QED BY <1>1, <1>5, DivFacts

LEMMA NoRest ==
    ASSUME NEW a \in Nat, NEW b \in Nat \ {0}, a % b = 0
    PROVE  a = (a \div b) * b /\ a \div b \in Nat
BY DivFacts, MulNat

-----------------------------------------------------------------------------
(* The compiler of an OPEN *)

(* The least-number principle, for a set.                                  *)
LEMMA LeastNat ==
    ASSUME NEW T \in SUBSET Nat, T # {}
    PROVE  \E n \in T : \A m \in T : n <= m
<1> DEFINE R == OpToRel(<, Nat)
<1>1. IsWellFoundedOn(R, Nat)
  BY NatLessThanWellFounded
<1>2. PICK n \in T : \A m \in T : <<m, n>> \notin R
  <2> HIDE DEF R
  <2> QED BY <1>1, WFMin
<1>3. \A m \in T : ~(m < n)
  BY <1>2 DEF OpToRel
<1> HIDE DEF R
<1> QED BY <1>2, <1>3

(* A number of shares has an aligned principal if and only if the quantum  *)
(* divides it.                                                             *)
LEMMA QuantumFacts ==
    ASSUME NEW price \in Nat \ {0}
    PROVE  /\ ShareQuantum(price) \in 1..Step
           /\ (ShareQuantum(price) * price) % Step = 0
           /\ \A k \in Nat : (k * price) % Step = 0 => k % ShareQuantum(price) = 0
<1> DEFINE Aligned(q) == (q * price) % Step = 0
           T == {q \in 1..Step : Aligned(q)}
<1>1. Step \in Nat \ {0}
  BY CardScales
<1>2. Step \in T
  <2>1. (price * Step) % Step = 0 /\ price * Step = Step * price
    BY <1>1, DivExact, MulSwap
  <2> QED BY <1>1, <2>1
<1>3. T \in SUBSET Nat /\ T # {}
  BY <1>1, <1>2
<1>4. PICK least \in T : \A m \in T : least <= m
  <2> HIDE DEF T
  <2> QED BY <1>3, LeastNat
<1>5. \A r \in 1..(least - 1) : ~Aligned(r)
  <2> SUFFICES ASSUME NEW r \in 1..(least - 1), Aligned(r)
               PROVE  FALSE
    OBVIOUS
  <2>1. r \in T
    BY <1>1, <1>4
  <2> QED BY <1>4, <2>1
<1>6. PICK q : q = ShareQuantum(price)
  OBVIOUS
<1>7. q \in 1..Step /\ Aligned(q) /\ \A r \in 1..(q - 1) : ~Aligned(r)
  <2>1. \E s \in 1..Step : (s * price) % Step = 0 /\ \A r \in 1..(s - 1) : (r * price) % Step # 0
    BY <1>4, <1>5
  <2> QED BY <1>6, <2>1 DEF ShareQuantum
<1>8. ASSUME NEW k \in Nat, Aligned(k)
      PROVE  k % q = 0
  <2>1. q \in Nat \ {0} /\ k * price \in Nat /\ q * price \in Nat
    BY <1>1, <1>7, MulNat
  <2>2. PICK a, b : a = k \div q /\ b = k % q
    OBVIOUS
  <2>3. a \in Nat /\ k = a * q + b /\ b \in Nat /\ b < q /\ a * q \in Nat
    <3>1. a \in Nat /\ a * q <= k /\ k < a * q + q /\ b = k - a * q
      BY <2>1, <2>2, DivFacts
    <3>2. a * q \in Nat
      BY <2>1, <3>1, MulNat
    <3> QED BY <2>1, <3>1, <3>2
  <2>4. PICK m, n : m = (k * price) \div Step /\ n = (q * price) \div Step
    OBVIOUS
  <2>5. m \in Nat /\ k * price = m * Step /\ n \in Nat /\ q * price = n * Step
    BY <1>1, <1>7, <1>8, <2>1, <2>4, NoRest
  <2>6. k * price = (a * q) * price + b * price /\ (a * q) * price = (a * n) * Step
        /\ a * n \in Nat /\ b * price \in Nat /\ (a * n) * Step \in Nat
    <3>1. k * price = (a * q) * price + b * price
      BY <2>3, MulAdd
    <3>2. (a * q) * price = a * (q * price) /\ a * (n * Step) = (a * n) * Step
      BY <1>1, <2>1, <2>3, <2>5, MulSwap
    <3> QED BY <1>1, <2>3, <2>5, <3>1, <3>2, MulNat
  <2>7. a * n <= m
    <3> SUFFICES ASSUME m < a * n
                 PROVE  FALSE
      BY <2>5, <2>6
    <3>1. m + 1 <= a * n
      BY <2>5, <2>6
    <3>2. (m + 1) * Step <= (a * n) * Step /\ (m + 1) * Step = m * Step + Step /\ m * Step \in Nat
      BY <1>1, <2>5, <2>6, <3>1, MulMono, MulAdd, MulNat
    <3> QED BY <1>1, <2>5, <2>6, <3>2
  <2>8. PICK d : d = m - a * n
    OBVIOUS
  <2>9. d \in Nat /\ m = a * n + d
    BY <2>5, <2>6, <2>7, <2>8
  <2>10. b * price = d * Step
    <3>1. m * Step = (a * n) * Step + d * Step
      BY <1>1, <2>6, <2>9, MulAdd
    <3>2. d * Step \in Nat
      BY <1>1, <2>9, MulNat
    <3> QED BY <2>5, <2>6, <3>1, <3>2
  <2>11. Aligned(b)
    BY <1>1, <2>9, <2>10, DivExact
  <2>12. b \notin 1..(q - 1)
    BY <1>7, <2>11
  <2> QED BY <2>1, <2>2, <2>3, <2>12
<1> QED BY <1>6, <1>7, <1>8

(* A principal x can be paid for, its fee included, if and only if it is   *)
(* not above what the compiler calls affordable.                           *)
LEMMA Affordable ==
    ASSUME NEW x \in Nat, NEW budget \in Nat, NEW rate \in Nat
    PROVE  /\ FeeReserve(x, rate) \in Nat
           /\ x * (BpsScale + rate) = x * BpsScale + x * rate
           /\ x + FeeReserve(x, rate) <= budget <=> x * (BpsScale + rate) <= budget * BpsScale
           /\ x + FeeReserve(x, rate) <= budget <=> x <= (budget * BpsScale) \div (BpsScale + rate)
<1>1. BpsScale \in Nat \ {0} /\ BpsScale + rate \in Nat \ {0}
  BY CardScales
<1>2. PICK fee : fee = FeeReserve(x, rate)
  OBVIOUS
<1>3. x * rate \in Nat /\ x * BpsScale \in Nat /\ budget * BpsScale \in Nat
  BY <1>1, MulNat
<1>4. fee \in Nat /\ x * rate <= fee * BpsScale /\ (\A c \in Nat : fee <= c <=> x * rate <= c * BpsScale)
  BY <1>1, <1>2, <1>3, CeilLeast DEF FeeReserve
<1>5. x * (BpsScale + rate) = x * BpsScale + x * rate
  BY <1>1, MulAdd, MulSwap
<1>6. ASSUME x + fee <= budget PROVE x * BpsScale + x * rate <= budget * BpsScale
  <2>1. (x + fee) * BpsScale <= budget * BpsScale /\ (x + fee) * BpsScale = x * BpsScale + fee * BpsScale
    BY <1>1, <1>4, <1>6, MulMono, MulAdd
  <2> QED BY <1>1, <1>3, <1>4, <2>1, MulNat
<1>7. ASSUME x * BpsScale + x * rate <= budget * BpsScale PROVE x + fee <= budget
  <2>1. x <= budget
    <3> SUFFICES ASSUME budget + 1 <= x
                 PROVE  FALSE
      OBVIOUS
    <3>1. (budget + 1) * BpsScale <= x * BpsScale /\ (budget + 1) * BpsScale = budget * BpsScale + BpsScale
      BY <1>1, MulMono, MulAdd
    <3> QED BY <1>1, <1>3, <1>7, <3>1
  <2>2. PICK d : d = budget - x
    OBVIOUS
  <2>3. d \in Nat /\ budget = x + d
    BY <2>1, <2>2
  <2>4. budget * BpsScale = x * BpsScale + d * BpsScale /\ d * BpsScale \in Nat
    BY <1>1, <2>3, MulAdd, MulNat
  <2>5. fee <= d
    BY <1>3, <1>4, <1>7, <2>3, <2>4
  <2> QED BY <1>4, <2>3, <2>5
<1>8. x * (BpsScale + rate) <= budget * BpsScale <=> x <= (budget * BpsScale) \div (BpsScale + rate)
  BY <1>1, <1>3, DivGreatest
<1> QED BY <1>2, <1>4, <1>5, <1>6, <1>7, <1>8

(* The least principal that the venue takes, and what it costs.            *)
LEMMA MinimumFacts ==
    ASSUME NEW price \in Nat \ {0}
    PROVE  /\ MinimumPrincipal(price) \in Nat /\ MinimumPrincipal(price) >= Scale
           /\ \E n \in Nat : MinimumPrincipal(price) = (n * ShareQuantum(price)) * price
<1>1. Scale \in Nat \ {0} /\ Step \in Nat
  BY CardScales
<1>2. PICK q : q = ShareQuantum(price)
  OBVIOUS
<1>3. q \in Nat \ {0}
  <2>1. q \in 1..Step
    BY <1>2, QuantumFacts
  <2> QED BY <1>1, <2>1
<1>4. PICK a : a = CeilDiv(Scale, price)
  OBVIOUS
<1>5. a \in Nat /\ Scale <= a * price
  BY <1>1, <1>4, CeilLeast
<1>6. PICK n : n = CeilDiv(a, q)
  OBVIOUS
<1>7. n \in Nat /\ a <= n * q /\ n * q \in Nat
  BY <1>3, <1>5, <1>6, CeilLeast, MulNat
<1>8. a * price <= (n * q) * price /\ (n * q) * price \in Nat /\ a * price \in Nat
  BY <1>5, <1>7, MulMono, MulNat
<1>9. MinimumPrincipal(price) = (n * q) * price
  BY <1>2, <1>4, <1>6 DEF MinimumPrincipal
<1> QED BY <1>1, <1>2, <1>5, <1>7, <1>8, <1>9

(* What is aligned is a multiple of the quantum's principal.               *)
LEMMA AlignedMultiple ==
    ASSUME NEW price \in Nat \ {0}, NEW x \in Nat, x % price = 0, x % Step = 0
    PROVE  \E n \in Nat : x = (n * ShareQuantum(price)) * price
<1>1. Step \in Nat
  BY CardScales
<1>2. PICK q : q = ShareQuantum(price)
  OBVIOUS
<1>3. q \in Nat \ {0}
  <2>1. q \in 1..Step
    BY <1>2, QuantumFacts
  <2> QED BY <1>1, <2>1
<1>4. PICK k : k = x \div price
  OBVIOUS
<1>5. k \in Nat /\ x = k * price
  BY <1>4, NoRest
<1>6. k % q = 0
  BY <1>2, <1>5, QuantumFacts
<1>7. PICK n : n = k \div q
  OBVIOUS
<1>8. n \in Nat /\ k = n * q
  BY <1>3, <1>5, <1>6, <1>7, NoRest
<1> QED BY <1>2, <1>5, <1>8

(* What a compiled OPEN says, and when it is compiled.                     *)
LEMMA OpenFacts ==
    ASSUME NEW budget \in Nat, NEW price \in 1..(Scale - 1), NEW rate \in 0..BpsScale,
           NEW c, c = OpenCard(budget, price, rate)
    PROVE  /\ c \in Cards /\ c.kind = "OPEN" /\ c.price = price /\ c.rate = rate
           /\ c.maximumFee = CeilDiv(c.principal * c.rate, BpsScale)
           /\ c.principal % Step = 0 /\ c.shares % Scale = 0
           /\ c.shares * c.price = c.principal * Scale
           /\ OpenCompiles(c, budget) <=> budget >= MinimumBudget(price, rate)
           /\ OpenCompiles(c, budget) => c.principal > 0 /\ c.shares > 0
           /\ \A more \in Nat : more > c.principal /\ more % price = 0 /\ more % Step = 0 =>
                 more * BpsScale + more * rate > budget * BpsScale
<1>1. /\ Scale \in Nat \ {0} /\ Step \in Nat \ {0} /\ BpsScale \in Nat \ {0}
      /\ price \in Nat \ {0} /\ rate \in Nat /\ BpsScale + rate \in Nat \ {0}
  BY CardScales
<1>2. PICK q, affordable : q = ShareQuantum(price) /\ affordable = (budget * BpsScale) \div (BpsScale + rate)
  OBVIOUS
<1>3. q \in Nat \ {0} /\ (q * price) % Step = 0
  <2>1. q \in 1..Step /\ (q * price) % Step = 0
    BY <1>1, <1>2, QuantumFacts
  <2> QED BY <1>1, <2>1
<1>4. affordable \in Nat
  BY <1>1, <1>2, MulNat, DivFacts
<1>5. PICK quanta : quanta = (affordable \div price) \div q
  OBVIOUS
<1>6. quanta \in Nat /\ affordable \div price \in Nat
  BY <1>1, <1>3, <1>4, <1>5, DivFacts
<1>7. PICK shares, principal : shares = quanta * q /\ principal = shares * price
  OBVIOUS
<1>8. shares \in Nat /\ principal \in Nat
  BY <1>1, <1>3, <1>6, <1>7, MulNat
<1>9. PICK fee : fee = FeeReserve(principal, rate)
  OBVIOUS
<1>10. fee \in Nat /\ fee = CeilDiv(principal * rate, BpsScale)
  BY <1>1, <1>8, <1>9, Affordable DEF FeeReserve
<1>11. c = [kind |-> "OPEN", shares |-> shares * Scale, price |-> price, rate |-> rate, principal |-> principal,
            feeAtPrice |-> fee, maximumFee |-> fee]
  BY <1>2, <1>5, <1>7, <1>9 DEF OpenCard
<1>12. shares * Scale \in Nat
  BY <1>1, <1>8, MulNat
<1>13. /\ c.kind = "OPEN" /\ c.shares = shares * Scale /\ c.price = price /\ c.rate = rate
       /\ c.principal = principal /\ c.feeAtPrice = fee /\ c.maximumFee = fee
  BY <1>11
<1>14. c \in Cards
  BY <1>1, <1>8, <1>10, <1>11, <1>12 DEF Cards, CardKinds
(* The principal is the greatest aligned one that can be afforded.         *)
<1>15. ASSUME NEW n \in Nat, (n * q) * price <= affordable
       PROVE  (n * q) * price <= principal
  <2>1. n * q \in Nat
    BY <1>3, MulNat
  <2>2. n * q <= affordable \div price
    BY <1>1, <1>4, <1>15, <2>1, DivGreatest
  <2>3. n <= quanta
    BY <1>3, <1>5, <1>6, <2>2, DivGreatest
  <2>4. n * q <= shares
    BY <1>3, <1>6, <1>7, <2>3, MulMono
  <2> QED BY <1>1, <1>7, <1>8, <2>1, <2>4, MulMono
<1>16. principal <= affordable
  <2>1. shares <= affordable \div price
    BY <1>3, <1>5, <1>6, <1>7, DivFacts
  <2> QED BY <1>1, <1>4, <1>7, <1>8, <2>1, DivGreatest
<1>17. principal + fee <= budget
  BY <1>1, <1>2, <1>8, <1>9, <1>16, Affordable
<1>18. principal % Step = 0 /\ (shares * Scale) % Scale = 0 /\ (shares * Scale) * price = principal * Scale
  <2>1. PICK m : m = (q * price) \div Step
    OBVIOUS
  <2>2. m \in Nat /\ q * price = m * Step
    BY <1>1, <1>3, <2>1, NoRest, MulNat
  <2>3. principal = quanta * (q * price) /\ quanta * (m * Step) = (quanta * m) * Step
    BY <1>1, <1>3, <1>6, <1>7, <2>2, MulSwap
  <2>4. quanta * m \in Nat
    BY <1>6, <2>2, MulNat
  <2>5. principal % Step = 0
    BY <1>1, <2>2, <2>3, <2>4, DivExact
  <2>6. (shares * Scale) % Scale = 0
    BY <1>1, <1>8, DivExact
  <2>7. (shares * Scale) * price = (shares * price) * Scale
    BY <1>1, <1>8, MulSwap
  <2> QED BY <1>7, <2>5, <2>6, <2>7
<1>19. PICK least : least = MinimumPrincipal(price)
  OBVIOUS
<1>20. least \in Nat /\ least >= Scale /\ \E n \in Nat : least = (n * q) * price
  BY <1>1, <1>2, <1>19, MinimumFacts
<1>21. MinimumBudget(price, rate) <= budget <=> least <= affordable
  <2>1. least + FeeReserve(least, rate) <= budget <=> least <= affordable
    BY <1>1, <1>2, <1>20, Affordable
  <2> QED BY <1>19, <2>1 DEF MinimumBudget
<1>22. FeeReserve(least, rate) \in Nat /\ MinimumBudget(price, rate) = least + FeeReserve(least, rate)
  BY <1>1, <1>19, <1>20, Affordable DEF MinimumBudget
<1>23. OpenCompiles(c, budget) <=> budget >= MinimumBudget(price, rate)
  <2>1. OpenCompiles(c, budget) <=> budget >= Scale /\ principal >= least
    BY <1>13, <1>17, <1>18, <1>19 DEF OpenCompiles
  <2>2. principal >= least => least <= affordable
    BY <1>4, <1>8, <1>16, <1>20
  <2>3. least <= affordable => principal >= least
    BY <1>8, <1>15, <1>20
  <2>4. budget >= MinimumBudget(price, rate) => budget >= Scale
    BY <1>1, <1>20, <1>22
  <2>5. principal >= least => budget >= Scale
    BY <1>1, <1>8, <1>10, <1>17, <1>20
  <2>6. budget >= MinimumBudget(price, rate) <=> least <= affordable
    BY <1>20, <1>21, <1>22
  <2> QED BY <2>1, <2>2, <2>3, <2>4, <2>5, <2>6
<1>24. OpenCompiles(c, budget) => principal > 0 /\ shares * Scale > 0
  <2> HAVE OpenCompiles(c, budget)
  <2>1. principal >= least
    BY <1>13, <1>19 DEF OpenCompiles
  <2>2. principal > 0
    BY <1>1, <1>8, <1>20, <2>1
  <2>3. shares # 0
    BY <1>1, <1>7, <2>2
  <2>4. 1 * Scale <= shares * Scale
    BY <1>1, <1>8, <2>3, MulMono
  <2> QED BY <1>1, <1>12, <2>2, <2>4
<1>25. ASSUME NEW more \in Nat, more > principal, more % price = 0, more % Step = 0
       PROVE  more * BpsScale + more * rate > budget * BpsScale
  <2>1. PICK n \in Nat : more = (n * q) * price
    BY <1>1, <1>2, <1>25, AlignedMultiple
  <2>2. ~(more <= affordable)
    BY <1>8, <1>15, <1>25, <2>1
  <2>3. ~(more * BpsScale + more * rate <= budget * BpsScale)
    BY <1>1, <1>2, <2>2, Affordable
  <2>4. more * BpsScale \in Nat /\ more * rate \in Nat /\ budget * BpsScale \in Nat
    BY <1>1, MulNat
  <2> QED BY <2>3, <2>4
<1> QED BY <1>10, <1>13, <1>14, <1>18, <1>23, <1>24, <1>25

(* What a compiled order of whole shares to sell says.                     *)
LEMMA SellFacts ==
    ASSUME NEW kind \in {"CLOSE", "TAKE_PROFIT"}, NEW lot \in Nat, NEW price \in 1..(Scale - 1), NEW rate \in 0..BpsScale,
           NEW c, c = SellCard(kind, lot, price, rate)
    PROVE  /\ c \in Cards /\ c.kind = kind /\ c.price = price /\ c.rate = rate
           /\ c.shares * c.price = c.principal * Scale /\ c.shares % Scale = 0
           /\ c.feeAtPrice = CeilDiv(c.principal * c.rate, BpsScale)
           /\ c.maximumFee = CeilDiv(c.shares * c.rate, BpsScale)
           /\ CloseCompiles(c) \/ TakeProfitCompiles(c) => c.shares > 0
           /\ TakeProfitCompiles(c) => c.shares >= MinLot
<1>1. /\ Scale \in Nat \ {0} /\ Step \in Nat \ {0} /\ BpsScale \in Nat \ {0} /\ MinLot \in Nat \ {0}
      /\ price \in Nat \ {0} /\ rate \in Nat
  BY CardScales
<1>2. PICK gross, shares : gross = lot * price /\ shares = lot * Scale
  OBVIOUS
<1>3. gross \in Nat /\ shares \in Nat
  BY <1>1, <1>2, MulNat
<1>4. PICK least, most : least = FeeReserve(gross, rate) /\ most = FeeReserve(shares, rate)
  OBVIOUS
<1>5. least \in Nat /\ most \in Nat
  BY <1>1, <1>3, <1>4, Affordable
<1>6. least = CeilDiv(gross * rate, BpsScale) /\ most = CeilDiv(shares * rate, BpsScale)
  BY <1>4 DEF FeeReserve
<1>7. c = [kind |-> kind, shares |-> shares, price |-> price, rate |-> rate, principal |-> gross,
           feeAtPrice |-> least, maximumFee |-> most]
  BY <1>2, <1>4 DEF SellCard
<1>8. /\ c.kind = kind /\ c.shares = shares /\ c.price = price /\ c.rate = rate
      /\ c.principal = gross /\ c.feeAtPrice = least /\ c.maximumFee = most
  BY <1>7
<1>9. c \in Cards
  BY <1>1, <1>3, <1>5, <1>7 DEF Cards, CardKinds
<1>10. shares * price = gross * Scale /\ shares % Scale = 0
  BY <1>1, <1>2, MulSwap, DivExact
<1>11. CloseCompiles(c) => shares > 0
  <2> HAVE CloseCompiles(c)
  <2>1. gross # 0
    BY <1>1, <1>8 DEF CloseCompiles
  <2>2. lot # 0
    BY <1>1, <1>2, <2>1
  <2>3. 1 * Scale <= lot * Scale
    BY <1>1, <2>2, MulMono
  <2> QED BY <1>1, <1>2, <1>3, <2>3
<1>12. TakeProfitCompiles(c) => shares >= MinLot /\ shares > 0
  BY <1>1, <1>3, <1>8 DEF TakeProfitCompiles
<1> QED BY <1>6, <1>8, <1>9, <1>10, <1>11, <1>12

(* The exchange's rounding: the most whole units that the price covers.    *)
LEMMA FlooredFacts ==
    ASSUME NEW shares \in Nat, NEW price \in 1..(Scale - 1), NEW v, v = Floored(shares, price)
    PROVE  /\ v \in Nat /\ v * Scale <= shares * price /\ v <= shares
           /\ v > 0 => shares > 0
           /\ \A m \in Nat : m * Scale <= shares * price <=> m <= v
<1>1. Scale \in Nat \ {0} /\ price \in Nat /\ price <= Scale
  BY CardScales
<1>2. shares * price \in Nat /\ shares * Scale \in Nat
  BY <1>1, MulNat
<1>3. PICK x : x = shares * price
  OBVIOUS
<1>4. v = x \div Scale /\ x \in Nat
  BY <1>2, <1>3 DEF Floored
<1>5. v \in Nat /\ v * Scale <= x
  BY <1>1, <1>4, DivFacts
<1>6. \A m \in Nat : m * Scale <= x <=> m <= v
  BY <1>1, <1>4, DivGreatest
<1>7. v <= shares
  <2>1. price * shares <= Scale * shares
    BY <1>1, MulMono
  <2>2. x <= shares * Scale
    BY <1>1, <1>2, <1>3, <2>1, MulSwap
  <2>3. v * Scale <= shares * Scale /\ v * Scale \in Nat
    BY <1>1, <1>2, <1>4, <1>5, <2>2, MulNat
  <2>4. PICK most, least : most = shares * Scale /\ least = v * Scale
    OBVIOUS
  <2>5. least \div Scale <= most \div Scale
    BY <1>1, <1>2, <2>3, <2>4, DivMono
  <2>6. most \div Scale = shares /\ least \div Scale = v
    BY <1>1, <1>5, <2>4, DivExact
  <2> QED BY <2>5, <2>6
<1> QED BY <1>3, <1>5, <1>6, <1>7

(* What is left of x after a fee that the rate covers is no less than what *)
(* is left of less after a fee that covers the rate.                       *)
LEMMA NetMono ==
    ASSUME NEW x \in Nat, NEW y \in Nat, y <= x, NEW rate \in 0..BpsScale,
           NEW fee \in Nat, fee * BpsScale <= x * rate
    PROVE  x - fee >= y - CeilDiv(y * rate, BpsScale)
<1>1. BpsScale \in Nat \ {0} /\ rate \in Nat /\ rate <= BpsScale
  BY CardScales
<1>2. y * rate \in Nat /\ x * rate \in Nat
  BY <1>1, MulNat
<1>3. PICK top : top = CeilDiv(y * rate, BpsScale)
  OBVIOUS
<1>4. top \in Nat /\ y * rate <= top * BpsScale
  BY <1>1, <1>2, <1>3, CeilLeast
<1>5. PICK d \in Nat : x = y + d
  <2>1. x - y \in Nat /\ x = y + (x - y)
    OBVIOUS
  <2> QED BY <2>1
<1>6. x * rate = y * rate + d * rate /\ d * rate \in Nat
  BY <1>1, <1>5, MulAdd, MulNat
<1>7. d * rate <= d * BpsScale
  BY <1>1, MulMono, MulSwap
<1>8. (top + d) * BpsScale = top * BpsScale + d * BpsScale
  BY <1>1, <1>4, MulAdd
<1>9. fee * BpsScale <= (top + d) * BpsScale
  <2>1. fee * BpsScale \in Nat /\ top * BpsScale \in Nat /\ d * BpsScale \in Nat
    BY <1>1, <1>4, MulNat
  <2> QED BY <1>2, <1>4, <1>6, <1>7, <1>8, <2>1
<1>10. fee <= top + d
  <2> SUFFICES ASSUME fee > top + d PROVE FALSE
    BY <1>4
  <2>1. (top + d) + 1 <= fee /\ (top + d) + 1 \in Nat
    BY <1>4
  <2>2. ((top + d) + 1) * BpsScale <= fee * BpsScale
    BY <1>1, <2>1, MulMono
  <2>3. ((top + d) + 1) * BpsScale = (top + d) * BpsScale + 1 * BpsScale
    BY <1>1, <1>4, MulAdd
  <2>4. fee * BpsScale \in Nat /\ (top + d) * BpsScale \in Nat
    BY <1>1, <1>4, MulNat
  <2> QED BY <1>1, <1>9, <2>2, <2>3, <2>4
<1> QED BY <1>3, <1>4, <1>5, <1>10

-----------------------------------------------------------------------------
(* Sums of pieces *)

(* What f adds at k.                                                       *)
EntryAt(f, k) == IF k \in DOMAIN f THEN f[k] ELSE 0

(* A sum over at most two numbers is what f adds at them.                  *)
LEMMA SumFacts ==
    ASSUME NEW f
    PROVE  /\ SumTo(f, 0) = 0
           /\ SumTo(f, 1) = 0 + EntryAt(f, 1)
           /\ SumTo(f, 2) = (0 + EntryAt(f, 1)) + EntryAt(f, 2)
<1> DEFINE Sum(n) == CHOOSE sum : sum = [k \in 0..n |-> IF k = 0 THEN 0 ELSE sum[k - 1] + EntryAt(f, k)]
<1>1. \A n : SumTo(f, n) = Sum(n)[n]
  BY DEF SumTo, EntryAt
<1>2. Sum(0)[0] = 0
  <2> DEFINE s == [k \in 0..0 |-> 0]
  <2>1. s = [k \in 0..0 |-> IF k = 0 THEN 0 ELSE s[k - 1] + EntryAt(f, k)]
    OBVIOUS
  <2> HIDE DEF s
  <2>2. PICK g : g = Sum(0)
    OBVIOUS
  <2>3. g = [k \in 0..0 |-> IF k = 0 THEN 0 ELSE g[k - 1] + EntryAt(f, k)]
    BY <2>1, <2>2, Zenon
  <2>4. g[0] = 0
    BY <2>3
  <2> QED BY <2>2, <2>4
<1>3. Sum(1)[1] = 0 + EntryAt(f, 1)
  <2> DEFINE s == [k \in 0..1 |-> IF k = 0 THEN 0 ELSE 0 + EntryAt(f, 1)]
  <2>1. s = [k \in 0..1 |-> IF k = 0 THEN 0 ELSE s[k - 1] + EntryAt(f, k)]
    <3>1. ASSUME NEW k \in 0..1
          PROVE  s[k] = IF k = 0 THEN 0 ELSE s[k - 1] + EntryAt(f, k)
      <4>1. CASE k = 0
        BY <4>1
      <4>2. CASE k = 1
        <5>1. s[0] = 0 /\ s[1] = 0 + EntryAt(f, 1)
          OBVIOUS
        <5> QED BY <4>2, <5>1
      <4> QED BY <4>1, <4>2
    <3> QED BY <3>1
  <2> HIDE DEF s
  <2>2. PICK g : g = Sum(1)
    OBVIOUS
  <2>3. g = [k \in 0..1 |-> IF k = 0 THEN 0 ELSE g[k - 1] + EntryAt(f, k)]
    BY <2>1, <2>2, Zenon
  <2>4. g[0] = 0
    BY <2>3
  <2>5. g[1] = g[1 - 1] + EntryAt(f, 1)
    BY <2>3
  <2> QED BY <2>2, <2>4, <2>5
<1>4. Sum(2)[2] = (0 + EntryAt(f, 1)) + EntryAt(f, 2)
  <2> DEFINE s == [k \in 0..2 |-> IF k = 0 THEN 0 ELSE IF k = 1 THEN 0 + EntryAt(f, 1) ELSE (0 + EntryAt(f, 1)) + EntryAt(f, 2)]
  <2>1. s = [k \in 0..2 |-> IF k = 0 THEN 0 ELSE s[k - 1] + EntryAt(f, k)]
    <3>1. ASSUME NEW k \in 0..2
          PROVE  s[k] = IF k = 0 THEN 0 ELSE s[k - 1] + EntryAt(f, k)
      <4>0. s[0] = 0 /\ s[1] = 0 + EntryAt(f, 1) /\ s[2] = (0 + EntryAt(f, 1)) + EntryAt(f, 2)
        OBVIOUS
      <4> HIDE DEF s
      <4>1. CASE k = 0
        BY <4>0, <4>1
      <4>2. CASE k = 1
        BY <4>0, <4>2
      <4>3. CASE k = 2
        BY <4>0, <4>3
      <4> QED BY <4>1, <4>2, <4>3
    <3> QED BY <3>1
  <2> HIDE DEF s
  <2>2. PICK g : g = Sum(2)
    OBVIOUS
  <2>3. g = [k \in 0..2 |-> IF k = 0 THEN 0 ELSE g[k - 1] + EntryAt(f, k)]
    BY <2>1, <2>2, Zenon
  <2>4. g[0] = 0
    BY <2>3
  <2>5. g[1] = g[1 - 1] + EntryAt(f, 1)
    BY <2>3
  <2>6. g[2] = g[2 - 1] + EntryAt(f, 2)
    BY <2>3
  <2>7. g[1] = 0 + EntryAt(f, 1)
    BY <2>4, <2>5
  <2> QED BY <2>2, <2>6, <2>7
<1> QED BY <1>1, <1>2, <1>3, <1>4

(* Sums keep a bound that holds of each summand.                           *)
LEMMA SumBound ==
    ASSUME NEW f, NEW g, NEW n \in 0..2, NEW a \in Nat, NEW b \in Nat,
           \A k \in 1..2 : EntryAt(f, k) \in Nat /\ EntryAt(g, k) \in Nat,
           \A k \in 1..n : EntryAt(f, k) * a <= EntryAt(g, k) * b
    PROVE  SumTo(f, n) \in Nat /\ SumTo(g, n) \in Nat /\ SumTo(f, n) * a <= SumTo(g, n) * b
<1>1. PICK f1, f2, g1, g2 : f1 = EntryAt(f, 1) /\ f2 = EntryAt(f, 2) /\ g1 = EntryAt(g, 1) /\ g2 = EntryAt(g, 2)
  OBVIOUS
<1>2. f1 \in Nat /\ f2 \in Nat /\ g1 \in Nat /\ g2 \in Nat
  BY <1>1
<1>3. /\ SumTo(f, 0) = 0 /\ SumTo(f, 1) = f1 /\ SumTo(f, 2) = f1 + f2
      /\ SumTo(g, 0) = 0 /\ SumTo(g, 1) = g1 /\ SumTo(g, 2) = g1 + g2
  <2>1. /\ SumTo(f, 0) = 0 /\ SumTo(f, 1) = 0 + f1 /\ SumTo(f, 2) = (0 + f1) + f2
        /\ SumTo(g, 0) = 0 /\ SumTo(g, 1) = 0 + g1 /\ SumTo(g, 2) = (0 + g1) + g2
    BY <1>1, SumFacts
  <2> QED BY <1>2, <2>1
<1>4. CASE n = 0
  BY <1>3, <1>4
<1>5. CASE n = 1
  BY <1>1, <1>2, <1>3, <1>5
<1>6. CASE n = 2
  <2>1. f1 * a <= g1 * b /\ f2 * a <= g2 * b
    BY <1>1, <1>6
  <2>2. f1 * a \in Nat /\ g1 * b \in Nat /\ f2 * a \in Nat /\ g2 * b \in Nat
    BY <1>2, MulNat
  <2>3. (f1 + f2) * a = f1 * a + f2 * a /\ (g1 + g2) * b = g1 * b + g2 * b
    BY <1>2, MulAdd
  <2>4. (f1 + f2) * a <= (g1 + g2) * b
    BY <2>1, <2>2, <2>3
  <2> QED BY <1>2, <1>3, <1>6, <2>4
<1> QED BY <1>4, <1>5, <1>6

-----------------------------------------------------------------------------
(* What is known of the request, of its card and of the pieces *)

OpenOf(k, c) ==
    /\ c.principal > 0 /\ c.principal % Step = 0
    /\ c.maximumFee = CeilDiv(c.principal * c.rate, BpsScale)
    /\ k.amount >= c.principal + c.maximumFee
    /\ \A more \in Nat : more > c.principal /\ more % c.price = 0 /\ more % Step = 0 =>
          more * BpsScale + more * c.rate > k.amount * BpsScale

SellOf(c) ==
    /\ c.feeAtPrice = CeilDiv(c.principal * c.rate, BpsScale)
    /\ c.maximumFee = CeilDiv(c.shares * c.rate, BpsScale)

CardOf(k, c) ==
    /\ c.kind = k.kind /\ c.price = k.price /\ c.rate = k.rate
    /\ c.shares > 0 /\ c.shares % Scale = 0 /\ c.shares * c.price = c.principal * Scale
    /\ c.kind = "OPEN" => OpenOf(k, c)
    /\ c.kind # "OPEN" => SellOf(c)
    /\ c.kind = "TAKE_PROFIT" => c.shares >= MinLot

(* The card c is the one compiled for the request k.                       *)
Compiled(k, c) ==
    /\ k \in Asked \cup {NoCard} /\ c \in Cards \cup {NoCard}
    /\ k = NoCard => c = NoCard
    /\ k # NoCard => k.price \in 1..(Scale - 1) /\ k.rate \in 0..BpsScale
    /\ k # NoCard /\ k.kind = "OPEN" => (c # NoCard <=> k.amount >= MinimumBudget(k.price, k.rate))
    /\ c # NoCard => CardOf(k, c)

PieceOf(c, piece) ==
    /\ piece \in Pieces /\ piece.price \in 1..(Scale - 1)
    /\ piece.value = Floored(piece.shares, piece.price) /\ piece.value > 0
    /\ c.kind = "CLOSE" => piece.shares = c.shares

(* The pieces s are a settlement of the card c, by whatever venue.         *)
Pieced(c, s) ==
    /\ s \in Seq(Pieces) /\ Len(s) <= 2
    /\ s # <<>> => c # NoCard
    /\ Len(s) = 2 => c.kind = "TAKE_PROFIT"
    /\ \A i \in 1..Len(s) : PieceOf(c, s[i])
    /\ Len(s) = 1 => s[1].shares <= c.shares
    /\ Len(s) = 2 => s[1].shares + s[2].shares <= c.shares

EconomicsInv == Compiled(asked, card) /\ Pieced(card, settled)

(* Every card passes whoever recomputes it.                                *)
LEMMA CardsHold ==
    ASSUME Compiled(asked, card)
    PROVE  CardsAgree
<1>1. CASE card = NoCard
  <2>1. asked # NoCard /\ asked.kind = "OPEN" => ~(asked.amount >= MinimumBudget(asked.price, asked.rate))
    BY <1>1 DEF Compiled
  <2> QED BY <1>1, <2>1 DEF CardsAgree
<1>2. CASE card # NoCard
  <2>1. PICK c, k : c = card /\ k = asked
    OBVIOUS
  <2>2. k \in Asked /\ c \in Cards /\ CardOf(k, c) /\ k # NoCard
    BY <1>2, <2>1, NoCardAssumption DEF Compiled
  <2>3. /\ c.kind \in CardKinds /\ c.shares \in Nat /\ c.price \in Nat /\ c.rate \in Nat /\ c.principal \in Nat
        /\ c.maximumFee \in Nat /\ k.amount \in Nat /\ k.price \in 1..(Scale - 1)
    BY <2>1, <2>2 DEF Compiled, Cards, Asked
  <2>4. Scale \in Nat \ {0}
    BY CardScales
  <2>5. /\ c.shares > 0 /\ c.shares % Scale = 0 /\ c.shares * c.price = c.principal * Scale
        /\ c.kind = "TAKE_PROFIT" => c.shares >= MinLot
        /\ c.kind = "OPEN" => OpenOf(k, c)
        /\ c.kind # "OPEN" => SellOf(c)
        /\ c.kind = k.kind /\ c.price = k.price /\ c.rate = k.rate
    BY <2>2 DEF CardOf
  <2>6. c.kind = "OPEN" => OpenCardHolds(c)
    BY <2>1, <2>5 DEF OpenCardHolds, OpenOf
  <2>7. c.kind = "OPEN" => OpenIntentHolds(c)
    <3>1. PICK x : x = c.shares * c.price
      OBVIOUS
    <3>2. x \div Scale = c.principal /\ x % Scale = 0
      BY <2>3, <2>4, <2>5, <3>1, DivExact
    <3>3. c.principal = (c.shares * c.price) \div Scale /\ (c.shares * c.price) % Scale = 0
      BY <3>1, <3>2
    <3> QED BY <2>1, <2>5, <3>3 DEF OpenIntentHolds, OpenOf
  <2>8. c.kind # "OPEN" => SellEconomicsHold(c)
    BY <2>5 DEF SellEconomicsHold, SellOf
  <2>9. CardHolds(c) /\ IntentHolds(c)
    <3>1. CASE c.kind = "OPEN"
      BY <2>6, <2>7, <3>1 DEF CardHolds, IntentHolds
    <3>2. CASE c.kind = "CLOSE"
      BY <2>5, <2>8, <3>2 DEF CardHolds, IntentHolds, CloseCardHolds, CloseIntentHolds
    <3>3. CASE c.kind = "TAKE_PROFIT"
      BY <2>5, <2>8, <3>3 DEF CardHolds, IntentHolds, TakeProfitCardHolds, SignedBoundsHold
    <3> QED BY <2>3, <3>1, <3>2, <3>3 DEF CardKinds
  <2>10. asked.kind = "OPEN" => asked.amount >= MinimumBudget(asked.price, asked.rate)
    BY <1>2, <2>1, <2>2 DEF Compiled
  <2>11. ASSUME k.kind = "OPEN", NEW more \in (c.principal + 1)..k.amount,
                more % k.price = 0, more % Step = 0
         PROVE  more * BpsScale + more * k.rate > k.amount * BpsScale
    <3>1. more \in Nat /\ more > c.principal
      BY <2>3
    <3> QED BY <2>5, <2>11, <3>1 DEF OpenOf
  <2> QED BY <1>2, <2>1, <2>9, <2>10, <2>11 DEF CardsAgree
<1> QED BY <1>1, <1>2

(* A single piece: what the totals are.                                    *)
LEMMA SingleTotals ==
    ASSUME settled \in Seq(Pieces), Len(settled) = 1
    PROVE  /\ All = {1} /\ settled[1] \in Pieces
           /\ SharesOf(All) = settled[1].shares /\ ValueOf(All) = settled[1].value /\ FeeOf(All) = settled[1].fee
<1>1. DOMAIN settled = {1} /\ settled[1] \in Pieces
  OBVIOUS
<1>2. settled[1].shares \in Nat /\ settled[1].value \in Nat /\ settled[1].fee \in Nat
  BY <1>1 DEF Pieces
<1>3. ASSUME NEW f, DOMAIN f = {1}, f[1] \in Nat
      PROVE  SumTo(f, 1) = f[1]
  <2>1. SumTo(f, 1) = 0 + EntryAt(f, 1)
    BY SumFacts
  <2>2. EntryAt(f, 1) = f[1]
    BY <1>3 DEF EntryAt
  <2> QED BY <1>3, <2>1, <2>2
<1>4. PICK f, g, h : /\ f = [i \in {1} |-> settled[i].shares] /\ g = [i \in {1} |-> settled[i].value]
                     /\ h = [i \in {1} |-> settled[i].fee]
  OBVIOUS
<1>5. SumTo(f, 1) = f[1] /\ SumTo(g, 1) = g[1] /\ SumTo(h, 1) = h[1]
  BY <1>2, <1>3, <1>4
<1>6. SharesOf(All) = SumTo(f, 1) /\ ValueOf(All) = SumTo(g, 1) /\ FeeOf(All) = SumTo(h, 1)
  BY <1>1, <1>4 DEF SharesOf, ValueOf, FeeOf, All
<1> QED BY <1>1, <1>4, <1>5, <1>6 DEF All

-----------------------------------------------------------------------------
(* Proofs are just *)

(* An honest venue's fee is covered by the rate of whatever is worth more. *)
LEMMA FeeFacts ==
    ASSUME NEW value \in Nat, NEW more \in Nat, value <= more, NEW rate \in 0..BpsScale,
           NEW fee \in Nat, fee * BpsScale <= value * rate
    PROVE  fee <= CeilDiv(more * rate, BpsScale)
<1>1. BpsScale \in Nat \ {0} /\ rate \in Nat
  BY CardScales
<1>2. value * rate <= more * rate /\ value * rate \in Nat /\ more * rate \in Nat /\ fee * BpsScale \in Nat
  BY <1>1, MulMono, MulNat
<1>3. PICK x : x = more * rate
  OBVIOUS
<1>4. CeilDiv(x, BpsScale) \in Nat /\ x <= CeilDiv(x, BpsScale) * BpsScale
  BY <1>1, <1>2, <1>3, CeilLeast
<1>5. fee * BpsScale <= x
  BY <1>2, <1>3
<1>6. fee <= x \div BpsScale
  BY <1>1, <1>2, <1>3, <1>5, DivGreatest
<1>7. x \div BpsScale <= CeilDiv(x, BpsScale) /\ x \div BpsScale \in Nat
  <2>1. x \in Nat /\ x <= x
    BY <1>2, <1>3
  <2>2. x \div BpsScale <= CeilDiv(x, BpsScale)
    BY <1>1, <2>1, DivMono
  <2>3. x \div BpsScale \in Nat
    BY <1>1, <2>1, DivFacts
  <2> QED BY <2>2, <2>3
<1> QED BY <1>3, <1>4, <1>6, <1>7

(* A fee rounded down is one that the rate covers.                         *)
LEMMA HonestFee ==
    ASSUME NEW value \in Nat, NEW rate \in 0..BpsScale, NEW fee \in Nat
    PROVE  fee <= (value * rate) \div BpsScale <=> fee * BpsScale <= value * rate
<1>1. BpsScale \in Nat \ {0} /\ value * rate \in Nat
  BY CardScales, MulNat
<1> QED BY <1>1, DivGreatest

(* A proof of an OPEN is just: its only piece is at the cap or below.      *)
LEMMA OpenJust ==
    ASSUME EconomicsInv, settled # <<>>, card.kind = "OPEN"
    PROVE  ProofsAreJust
<1>1. PICK c, k, piece : c = card /\ k = asked /\ piece = settled[1]
  OBVIOUS
<1>2. c \in Cards /\ k \in Asked /\ CardOf(k, c) /\ c # NoCard /\ k # NoCard
  BY <1>1, NoCardAssumption DEF EconomicsInv, Compiled, Pieced
<1>3. /\ c.shares \in Nat /\ c.price \in Nat /\ c.rate \in Nat /\ c.principal \in Nat /\ c.maximumFee \in Nat
      /\ k.amount \in Nat
  BY <1>2 DEF Cards, Asked
<1>4. /\ c.price \in 1..(Scale - 1) /\ c.rate \in 0..BpsScale
      /\ c.shares * c.price = c.principal * Scale
      /\ c.principal > 0 /\ c.maximumFee = CeilDiv(c.principal * c.rate, BpsScale)
      /\ k.amount >= c.principal + c.maximumFee
  BY <1>1, <1>2 DEF EconomicsInv, Compiled, CardOf, OpenOf
<1>5. settled \in Seq(Pieces) /\ Len(settled) = 1 /\ PieceOf(c, piece) /\ piece.shares <= c.shares
  <2>1. settled \in Seq(Pieces) /\ Len(settled) \in Nat /\ Len(settled) # 0 /\ Len(settled) <= 2 /\ Len(settled) # 2
    BY DEF EconomicsInv, Pieced
  <2>2. Len(settled) = 1
    <3>1. PICK n : n = Len(settled)
      OBVIOUS
    <3>2. n \in Nat /\ n # 0 /\ n <= 2 /\ n # 2
      BY <2>1, <3>1
    <3>3. n = 1
      BY <3>2
    <3> QED BY <3>1, <3>3
  <2>3. /\ \A i \in 1..Len(settled) : PieceOf(card, settled[i])
        /\ Len(settled) = 1 => settled[1].shares <= card.shares
    BY DEF EconomicsInv, Pieced
  <2>4. PieceOf(card, settled[1]) /\ settled[1].shares <= card.shares
    BY <2>2, <2>3
  <2> QED BY <1>1, <2>1, <2>2, <2>4
<1>6. /\ All = {1} /\ piece \in Pieces
      /\ SharesOf(All) = piece.shares /\ ValueOf(All) = piece.value /\ FeeOf(All) = piece.fee
  BY <1>1, <1>5, SingleTotals
<1>7. /\ piece.shares \in Nat /\ piece.value \in Nat /\ piece.fee \in Nat /\ piece.price \in 1..(Scale - 1)
      /\ piece.value = Floored(piece.shares, piece.price) /\ piece.value > 0
  BY <1>5, <1>6 DEF PieceOf, Pieces
<1>8. OpenProved => KeptToCard
  <2> HAVE OpenProved
  <2>1. /\ piece.value + piece.fee <= c.principal + c.maximumFee
        /\ ValueOf(All) * Scale <= SharesOf(All) * card.price
    BY <1>1, <1>6 DEF OpenProved
  <2>2. ValueOf(All) + FeeOf(All) <= asked.amount
    BY <1>1, <1>3, <1>4, <1>6, <1>7, <2>1
  <2> QED BY <2>1, <2>2 DEF KeptToCard
<1>9. Honest(piece) => OpenProved
  <2> HAVE Honest(piece)
  <2>1. piece.flaw = "none" /\ piece.fee <= (piece.value * c.rate) \div BpsScale /\ piece.price <= c.price
    BY <1>1 DEF Honest
  <2>2. PICK s, v, f, p : s = piece.shares /\ v = piece.value /\ f = piece.fee /\ p = piece.price
    OBVIOUS
  <2>3. /\ s \in Nat /\ v \in Nat /\ f \in Nat /\ p \in Nat /\ Scale \in Nat \ {0}
        /\ v * Scale <= s * p /\ s > 0 /\ v > 0
    <3>1. s \in Nat /\ v \in Nat /\ f \in Nat /\ p \in 1..(Scale - 1) /\ v = Floored(s, p) /\ v > 0
      BY <1>7, <2>2
    <3>2. v * Scale <= s * p /\ s > 0
      BY <3>1, FlooredFacts
    <3> QED BY <3>1, <3>2, CardScales
  <2>4. f * BpsScale <= v * c.rate
    BY <1>4, <2>1, <2>2, <2>3, HonestFee
  <2>5. s * p <= s * c.price /\ s * c.price <= c.shares * c.price
    <3>1. p * s <= c.price * s
      BY <1>3, <2>1, <2>2, <2>3, MulMono
    <3>2. s * c.price <= c.shares * c.price
      BY <1>3, <1>5, <2>2, <2>3, MulMono
    <3> QED BY <1>3, <2>3, <3>1, <3>2, MulSwap
  <2>6. s * p \in Nat /\ s * c.price \in Nat /\ v * Scale \in Nat /\ c.principal * Scale \in Nat
    BY <1>3, <2>3, MulNat
  <2>7. v * Scale <= s * c.price /\ v * Scale <= c.principal * Scale
    BY <1>4, <2>3, <2>5, <2>6
  <2>8. v <= c.principal
    <3>1. PICK most, least : most = c.principal * Scale /\ least = v * Scale
      OBVIOUS
    <3>2. least \div Scale <= most \div Scale
      BY <2>3, <2>6, <2>7, <3>1, DivMono
    <3>3. most \div Scale = c.principal /\ least \div Scale = v
      BY <1>3, <2>3, <3>1, DivExact
    <3> QED BY <3>2, <3>3
  <2>9. f <= c.maximumFee /\ f <= CeilDiv(v * c.rate, BpsScale)
    <3>1. f <= CeilDiv(c.principal * c.rate, BpsScale)
      BY <1>3, <1>4, <2>3, <2>4, <2>8, FeeFacts
    <3>2. f <= CeilDiv(v * c.rate, BpsScale)
      <4>1. v <= v /\ c.rate \in 0..BpsScale /\ v \in Nat /\ f \in Nat /\ f * BpsScale <= v * c.rate
        BY <1>4, <2>3, <2>4
      <4>2. PICK rate : rate = c.rate
        OBVIOUS
      <4>3. f <= CeilDiv(v * rate, BpsScale)
        BY <4>1, <4>2, FeeFacts
      <4> QED BY <4>2, <4>3
    <3> QED BY <1>4, <3>1, <3>2
  <2>10. v + f <= c.principal + c.maximumFee
    BY <1>3, <2>3, <2>8, <2>9
  <2>11. ReceiptMatches(All)
    BY <1>1, <1>6, <2>1 DEF ReceiptMatches
  <2> QED BY <1>1, <1>6, <2>2, <2>3, <2>7, <2>8, <2>9, <2>10, <2>11 DEF OpenProved
<1>10. Proved <=> OpenProved
  BY DEF Proved
<1>11. (\A i \in All : Honest(settled[i])) => Honest(piece)
  BY <1>1, <1>6
<1> QED BY <1>8, <1>9, <1>10, <1>11 DEF ProofsAreJust

(* A proof of a CLOSE is just: its only piece has all the shares, so that  *)
(* price and total say the same.                                           *)
LEMMA CloseJust ==
    ASSUME EconomicsInv, settled # <<>>, card.kind = "CLOSE"
    PROVE  ProofsAreJust
<1>1. PICK c, k, piece : c = card /\ k = asked /\ piece = settled[1]
  OBVIOUS
<1>2. c \in Cards /\ CardOf(k, c) /\ c # NoCard /\ k # NoCard
  BY <1>1, NoCardAssumption DEF EconomicsInv, Compiled, Pieced
<1>3. /\ c.shares \in Nat /\ c.price \in Nat /\ c.rate \in Nat /\ c.principal \in Nat /\ c.maximumFee \in Nat
      /\ c.feeAtPrice \in Nat
  BY <1>2 DEF Cards
<1>4. /\ c.price \in 1..(Scale - 1) /\ c.rate \in 0..BpsScale
      /\ c.shares * c.price = c.principal * Scale /\ c.shares > 0
      /\ c.feeAtPrice = CeilDiv(c.principal * c.rate, BpsScale)
      /\ c.maximumFee = CeilDiv(c.shares * c.rate, BpsScale)
  BY <1>1, <1>2 DEF EconomicsInv, Compiled, CardOf, SellOf
<1>5. settled \in Seq(Pieces) /\ Len(settled) = 1 /\ PieceOf(c, piece)
  <2>1. settled \in Seq(Pieces) /\ Len(settled) \in Nat /\ Len(settled) # 0 /\ Len(settled) <= 2 /\ Len(settled) # 2
    BY DEF EconomicsInv, Pieced
  <2>2. Len(settled) = 1
    <3>1. PICK n : n = Len(settled)
      OBVIOUS
    <3>2. n \in Nat /\ n # 0 /\ n <= 2 /\ n # 2
      BY <2>1, <3>1
    <3>3. n = 1
      BY <3>2
    <3> QED BY <3>1, <3>3
  <2>3. \A i \in 1..Len(settled) : PieceOf(card, settled[i])
    BY DEF EconomicsInv, Pieced
  <2>4. PieceOf(card, settled[1])
    BY <2>2, <2>3
  <2> QED BY <1>1, <2>1, <2>2, <2>4
<1>6. /\ All = {1} /\ piece \in Pieces
      /\ SharesOf(All) = piece.shares /\ ValueOf(All) = piece.value /\ FeeOf(All) = piece.fee
  BY <1>1, <1>5, SingleTotals
<1>7. /\ piece.shares = c.shares /\ piece.value \in Nat /\ piece.fee \in Nat /\ piece.price \in 1..(Scale - 1)
      /\ piece.value = Floored(piece.shares, piece.price) /\ piece.value > 0
  BY <1>1, <1>5, <1>6 DEF PieceOf, Pieces
<1>8. PICK s, v, f, p : s = piece.shares /\ v = piece.value /\ f = piece.fee /\ p = piece.price
  OBVIOUS
<1>9. /\ s \in Nat /\ v \in Nat /\ f \in Nat /\ p \in Nat /\ Scale \in Nat \ {0}
      /\ v * Scale <= s * p /\ v <= s
      /\ \A m \in Nat : m * Scale <= s * p <=> m <= v
  <2>1. s \in Nat /\ v \in Nat /\ f \in Nat /\ p \in 1..(Scale - 1) /\ v = Floored(s, p)
    BY <1>3, <1>7, <1>8
  <2>2. v * Scale <= s * p /\ v <= s /\ \A m \in Nat : m * Scale <= s * p <=> m <= v
    BY <2>1, FlooredFacts
  <2> QED BY <2>1, <2>2, CardScales
(* The price of the only piece and the total say the same.                 *)
<1>10. v >= c.principal <=> p >= c.price
  <2>1. c.principal <= v <=> s * c.price <= s * p
    BY <1>3, <1>4, <1>7, <1>8, <1>9
  <2>2. c.price <= p => s * c.price <= s * p
    BY <1>3, <1>9, MulMono, MulSwap
  <2>3. s * c.price <= s * p => c.price <= p
    <3>1. p * s < c.price * s => p < c.price
      BY <1>3, <1>9, MulStrict
    <3>2. ASSUME p < c.price PROVE p * s < c.price * s
      <4>1. p + 1 <= c.price /\ p + 1 \in Nat
        BY <1>3, <1>9, <3>2
      <4>2. (p + 1) * s <= c.price * s /\ (p + 1) * s = p * s + 1 * s
        BY <1>3, <1>9, <4>1, MulMono, MulAdd
      <4>3. p * s \in Nat /\ c.price * s \in Nat /\ s > 0
        BY <1>3, <1>4, <1>7, <1>8, <1>9, MulNat
      <4> QED BY <1>9, <4>2, <4>3
    <3>3. s * c.price = c.price * s /\ s * p = p * s /\ c.price * s \in Nat /\ p * s \in Nat
      BY <1>3, <1>9, MulSwap, MulNat
    <3> QED BY <1>3, <1>9, <3>2, <3>3
  <2> QED BY <1>3, <1>9, <2>1, <2>2, <2>3
<1>11. CloseProved => KeptToCard
  <2> HAVE CloseProved
  <2>1. ValueOf(All) >= c.principal /\ ValueOf(All) - FeeOf(All) >= card.principal - card.feeAtPrice
    BY <1>1 DEF CloseProved
  <2>2. \A i \in All : settled[i].price >= card.price
    BY <1>1, <1>6, <1>8, <1>10, <2>1
  <2> QED BY <2>1, <2>2 DEF KeptToCard
<1>12. Honest(piece) => CloseProved
  <2> HAVE Honest(piece)
  <2>1. piece.flaw = "none" /\ f <= (v * c.rate) \div BpsScale /\ p >= c.price
    BY <1>1, <1>8 DEF Honest
  <2>2. f * BpsScale <= v * c.rate
    BY <1>4, <1>9, <2>1, HonestFee
  <2>3. v >= c.principal
    BY <1>10, <2>1
  <2>4. f <= c.maximumFee /\ f <= CeilDiv(v * c.rate, BpsScale)
    BY <1>4, <1>7, <1>8, <1>9, <2>2, FeeFacts
  <2>5. v - f >= c.principal - c.feeAtPrice
    BY <1>3, <1>4, <1>9, <2>2, <2>3, NetMono
  <2>6. ReceiptMatches(All)
    BY <1>1, <1>6, <2>1 DEF ReceiptMatches
  <2> QED BY <1>1, <1>6, <1>7, <1>8, <2>3, <2>4, <2>5, <2>6 DEF CloseProved
<1>13. Proved <=> CloseProved
  BY DEF Proved
<1>14. (\A i \in All : Honest(settled[i])) => Honest(piece)
  BY <1>1, <1>6
<1> QED BY <1>11, <1>12, <1>13, <1>14 DEF ProofsAreJust

(* The card and the pieces of a take-profit.                               *)
LEMMA TakeProfitFacts ==
    ASSUME EconomicsInv, settled # <<>>, card.kind = "TAKE_PROFIT"
    PROVE  /\ card.shares \in Nat /\ card.principal \in Nat /\ card.price \in 1..(Scale - 1) /\ card.rate \in 0..BpsScale
           /\ card.shares * card.price = card.principal * Scale
           /\ card.feeAtPrice = CeilDiv(card.principal * card.rate, BpsScale)
           /\ card.maximumFee = CeilDiv(card.shares * card.rate, BpsScale)
           /\ Len(settled) \in 1..2 /\ All = 1..Len(settled)
           /\ \A i \in All : PieceOf(card, settled[i])
<1>1. PICK c, k : c = card /\ k = asked
  OBVIOUS
<1>2. c \in Cards /\ CardOf(k, c) /\ c # NoCard /\ k # NoCard
  BY <1>1, NoCardAssumption DEF EconomicsInv, Compiled, Pieced
<1>3. c.shares \in Nat /\ c.principal \in Nat
  BY <1>2 DEF Cards
<1>4. /\ c.price \in 1..(Scale - 1) /\ c.rate \in 0..BpsScale
      /\ c.shares * c.price = c.principal * Scale
      /\ c.feeAtPrice = CeilDiv(c.principal * c.rate, BpsScale)
      /\ c.maximumFee = CeilDiv(c.shares * c.rate, BpsScale)
  BY <1>1, <1>2 DEF EconomicsInv, Compiled, CardOf, SellOf
<1>5. /\ settled \in Seq(Pieces) /\ Len(settled) <= 2
      /\ \A i \in 1..Len(settled) : PieceOf(card, settled[i])
  BY DEF EconomicsInv, Pieced
<1>6. Len(settled) \in Nat /\ Len(settled) # 0 /\ DOMAIN settled = 1..Len(settled)
  BY <1>5
<1>7. Len(settled) \in 1..2
  <2>1. PICK n : n = Len(settled)
    OBVIOUS
  <2>2. n \in Nat /\ n # 0 /\ n <= 2
    BY <1>5, <1>6, <2>1
  <2>3. n \in 1..2
    BY <2>2
  <2> QED BY <2>1, <2>3
<1> QED BY <1>1, <1>3, <1>4, <1>5, <1>6, <1>7 DEF All

HonestOf(piece) ==
    /\ piece.shares \in Nat /\ piece.value \in Nat /\ piece.fee \in Nat
    /\ piece.value <= piece.shares /\ piece.fee * BpsScale <= piece.value * card.rate
    /\ Floored(piece.shares, card.price) \in Nat /\ Floored(piece.shares, card.price) <= piece.value
    /\ piece.flaw = "none" /\ piece.price >= card.price

(* What the venue's honesty means for the amounts of a piece.              *)
LEMMA HonestPiece ==
    ASSUME NEW piece, PieceOf(card, piece), Honest(piece), card.kind = "TAKE_PROFIT",
           card.price \in 1..(Scale - 1), card.rate \in 0..BpsScale
    PROVE  HonestOf(piece)
<1>1. piece.flaw = "none" /\ piece.fee <= (piece.value * card.rate) \div BpsScale /\ piece.price >= card.price
  BY DEF Honest
<1>2. PICK s, v, f, p, floor, cap, rate :
        /\ s = piece.shares /\ v = piece.value /\ f = piece.fee /\ p = piece.price
        /\ cap = card.price /\ floor = Floored(s, cap) /\ rate = card.rate
  OBVIOUS
<1>3. s \in Nat /\ v \in Nat /\ f \in Nat /\ p \in 1..(Scale - 1) /\ v = Floored(s, p)
  BY <1>2 DEF PieceOf, Pieces
<1>4. cap \in 1..(Scale - 1) /\ rate \in 0..BpsScale /\ cap <= p /\ f <= (v * rate) \div BpsScale
  BY <1>1, <1>2
<1>5. Scale \in Nat \ {0} /\ cap \in Nat /\ p \in Nat
  BY <1>3, <1>4, CardScales
<1>6. v * Scale <= s * p /\ v <= s /\ \A m \in Nat : m * Scale <= s * p <=> m <= v
  BY <1>3, FlooredFacts
<1>7. floor \in Nat /\ floor * Scale <= s * cap
  <2>1. s \in Nat /\ cap \in 1..(Scale - 1) /\ floor = Floored(s, cap)
    BY <1>2, <1>3, <1>4
  <2> QED BY <2>1, FlooredFacts
<1>8. s * cap <= s * p
  BY <1>3, <1>4, <1>5, MulMono, MulSwap
<1>9. floor * Scale <= s * p
  <2>1. floor * Scale \in Nat /\ s * cap \in Nat /\ s * p \in Nat
    BY <1>3, <1>5, <1>7, MulNat
  <2> QED BY <1>7, <1>8, <2>1
<1>10. floor <= v
  BY <1>6, <1>7, <1>9
<1>11. f * BpsScale <= v * rate
  BY <1>3, <1>4, HonestFee
<1> QED BY <1>1, <1>2, <1>3, <1>6, <1>7, <1>10, <1>11 DEF HonestOf

(* Any of an honest venue's pieces keep the bounds together.               *)
LEMMA HonestBounds ==
    ASSUME EconomicsInv, settled # <<>>, card.kind = "TAKE_PROFIT", \A i \in All : Honest(settled[i]),
           NEW pieces \in SUBSET All
    PROVE  /\ WithinBounds(pieces) /\ ReceiptMatches(pieces)
           /\ \A i \in pieces : settled[i].flaw # "misreported" /\ settled[i].price >= card.price
           /\ ValueOf(pieces) \in Nat /\ FeeOf(pieces) \in Nat
           /\ FeeOf(pieces) * BpsScale <= ValueOf(pieces) * card.rate
<1>1. PICK n, rate : n = Len(settled) /\ rate = card.rate
  OBVIOUS
<1>2. /\ card.shares \in Nat /\ card.price \in 1..(Scale - 1) /\ rate \in 0..BpsScale
      /\ card.maximumFee = CeilDiv(card.shares * rate, BpsScale)
      /\ n \in 1..2 /\ All = 1..n /\ \A i \in 1..n : PieceOf(card, settled[i])
  BY <1>1, TakeProfitFacts
<1>3. \A i \in 1..n : HonestOf(settled[i])
  BY <1>1, <1>2, HonestPiece
<1>4. BpsScale \in Nat \ {0} /\ rate \in Nat /\ n \in 0..2 /\ pieces \subseteq 1..n /\ 1..n \subseteq 1..2
  BY <1>2, CardScales
<1>5. PICK s, v, f, t, all :
        /\ s = [i \in pieces |-> settled[i].shares] /\ v = [i \in pieces |-> settled[i].value]
        /\ f = [i \in pieces |-> settled[i].fee] /\ t = [i \in pieces |-> Floored(settled[i].shares, card.price)]
        /\ all = [i \in All |-> settled[i].shares]
  OBVIOUS
<1>6. ASSUME NEW k \in 1..2
      PROVE  /\ EntryAt(s, k) \in Nat /\ EntryAt(v, k) \in Nat /\ EntryAt(f, k) \in Nat /\ EntryAt(t, k) \in Nat /\ EntryAt(all, k) \in Nat
             /\ EntryAt(v, k) * 1 <= EntryAt(s, k) * 1 /\ EntryAt(t, k) * 1 <= EntryAt(v, k) * 1 /\ EntryAt(s, k) * 1 <= EntryAt(all, k) * 1
             /\ EntryAt(f, k) * BpsScale <= EntryAt(v, k) * rate
  <2>1. CASE k \in pieces
    <3>1. k \in All /\ HonestOf(settled[k])
      BY <1>2, <1>3, <1>4, <2>1
    <3>2. /\ EntryAt(s, k) = settled[k].shares /\ EntryAt(v, k) = settled[k].value /\ EntryAt(f, k) = settled[k].fee
          /\ EntryAt(t, k) = Floored(settled[k].shares, card.price) /\ EntryAt(all, k) = settled[k].shares
      BY <1>5, <2>1, <3>1 DEF EntryAt
    <3>3. /\ settled[k].shares \in Nat /\ settled[k].value \in Nat /\ settled[k].fee \in Nat
          /\ settled[k].value <= settled[k].shares /\ settled[k].fee * BpsScale <= settled[k].value * rate
          /\ Floored(settled[k].shares, card.price) \in Nat
          /\ Floored(settled[k].shares, card.price) <= settled[k].value
      BY <1>1, <3>1 DEF HonestOf
    <3> QED BY <3>2, <3>3
  <2>2. CASE k \notin pieces
    <3>1. EntryAt(s, k) = 0 /\ EntryAt(v, k) = 0 /\ EntryAt(f, k) = 0 /\ EntryAt(t, k) = 0
      BY <1>5, <2>2 DEF EntryAt
    <3>2. EntryAt(all, k) \in Nat
      <4>1. CASE k \in All
        BY <1>2, <1>3, <1>5, <4>1 DEF EntryAt, HonestOf
      <4>2. CASE k \notin All
        BY <1>5, <4>2 DEF EntryAt
      <4> QED BY <4>1, <4>2
    <3>3. 0 * BpsScale = 0 /\ 0 * rate = 0
      BY <1>4
    <3> QED BY <3>1, <3>2, <3>3
  <2> QED BY <2>1, <2>2
<1>7. PICK shares, value, fee, target, every :
        /\ shares = SumTo(s, n) /\ value = SumTo(v, n) /\ fee = SumTo(f, n) /\ target = SumTo(t, n)
        /\ every = SumTo(all, n)
  OBVIOUS
<1>8. shares \in Nat /\ value \in Nat /\ value * 1 <= shares * 1
  <2>1. \A k \in 1..n : EntryAt(v, k) * 1 <= EntryAt(s, k) * 1
    BY <1>4, <1>6
  <2> QED BY <1>4, <1>6, <1>7, <2>1, SumBound
<1>9. target \in Nat /\ target * 1 <= value * 1
  <2>1. \A k \in 1..n : EntryAt(t, k) * 1 <= EntryAt(v, k) * 1
    BY <1>4, <1>6
  <2> QED BY <1>4, <1>6, <1>7, <2>1, SumBound
<1>10. every \in Nat /\ shares * 1 <= every * 1
  <2>1. /\ \A k \in 1..n : EntryAt(s, k) * 1 <= EntryAt(all, k) * 1
        /\ \A k \in 1..2 : EntryAt(s, k) \in Nat /\ EntryAt(all, k) \in Nat
    BY <1>4, <1>6
  <2>2. SumTo(s, n) \in Nat /\ SumTo(all, n) \in Nat /\ SumTo(s, n) * 1 <= SumTo(all, n) * 1
    BY <1>4, <2>1, SumBound
  <2> QED BY <1>7, <2>2
<1>11. fee \in Nat /\ fee * BpsScale <= value * rate
  <2>1. \A k \in 1..n : EntryAt(f, k) * BpsScale <= EntryAt(v, k) * rate
    BY <1>4, <1>6
  <2> QED BY <1>4, <1>6, <1>7, <2>1, SumBound
<1>12. every <= card.shares
  <2>1. /\ n = 1 => settled[1].shares <= card.shares
        /\ n = 2 => settled[1].shares + settled[2].shares <= card.shares
    BY <1>1 DEF EconomicsInv, Pieced
  <2>2. CASE n = 1
    <3>1. EntryAt(all, 1) = settled[1].shares
      BY <1>2, <1>5, <2>2 DEF EntryAt
    <3> QED BY <1>6, <1>7, <2>1, <2>2, <3>1, SumFacts
  <2>3. CASE n = 2
    <3>1. EntryAt(all, 1) = settled[1].shares /\ EntryAt(all, 2) = settled[2].shares
      BY <1>2, <1>5, <2>3 DEF EntryAt
    <3> QED BY <1>6, <1>7, <2>1, <2>3, <3>1, SumFacts
  <2> QED BY <1>2, <2>2, <2>3
<1>13. value <= shares /\ target <= value /\ shares <= card.shares /\ value <= card.shares
  BY <1>2, <1>8, <1>9, <1>10, <1>12
<1>14. /\ SharesOf(pieces) = shares /\ ValueOf(pieces) = value /\ FeeOf(pieces) = fee /\ TargetFloor(pieces) = target
  BY <1>1, <1>5, <1>7 DEF SharesOf, ValueOf, FeeOf, TargetFloor
<1>15. fee <= CeilDiv(shares * rate, BpsScale)
  BY <1>2, <1>8, <1>11, <1>13, FeeFacts
<1>16. fee <= CeilDiv(value * rate, BpsScale)
  <2>1. value <= value
    BY <1>8
  <2> QED BY <1>2, <1>8, <1>11, <2>1, FeeFacts
<1>17. fee <= card.maximumFee
  BY <1>2, <1>8, <1>11, <1>13, FeeFacts
<1>18. value - fee >= target - FeeReserve(target, rate)
  BY <1>2, <1>8, <1>9, <1>11, <1>13, NetMono DEF FeeReserve
<1>19. WithinBounds(pieces)
  BY <1>1, <1>13, <1>14, <1>15, <1>16, <1>17, <1>18 DEF WithinBounds
<1>20. \A i \in pieces : settled[i].flaw = "none" /\ settled[i].price >= card.price
  BY <1>2, <1>3 DEF HonestOf
<1> QED BY <1>1, <1>8, <1>11, <1>14, <1>19, <1>20 DEF ReceiptMatches

(* A proof of a take-profit is just: every transaction is held against the *)
(* target, the total against it too.                                       *)
LEMMA TakeProfitJust ==
    ASSUME EconomicsInv, settled # <<>>, card.kind = "TAKE_PROFIT"
    PROVE  ProofsAreJust
<1>1. /\ card.shares \in Nat /\ card.principal \in Nat /\ card.price \in 1..(Scale - 1) /\ card.rate \in 0..BpsScale
      /\ card.shares * card.price = card.principal * Scale
      /\ card.feeAtPrice = CeilDiv(card.principal * card.rate, BpsScale)
      /\ Len(settled) \in 1..2 /\ All = 1..Len(settled)
      /\ \A i \in All : PieceOf(card, settled[i])
  BY TakeProfitFacts
<1>2. TakeProfitProved => KeptToCard
  <2> HAVE TakeProfitProved
  <2>1. ASSUME NEW i \in All
        PROVE  settled[i].price >= card.price
    <3>1. settled[i].tx \in 1..2
      BY <1>1 DEF PieceOf, Pieces
    <3>2. PICK t, pieces : t \in 1..2 /\ t = settled[i].tx /\ pieces = {h \in All : settled[h].tx = t}
      BY <3>1
    <3>3. i \in pieces
      BY <3>2
    <3>4. SettlementProved(pieces)
      BY <3>2, <3>3 DEF TakeProfitProved
    <3> QED BY <3>3, <3>4 DEF SettlementProved
  <2>2. SharesOf(All) = card.shares => ValueOf(All) - FeeOf(All) >= card.principal - card.feeAtPrice
    BY DEF TakeProfitProved
  <2> QED BY <2>1, <2>2 DEF KeptToCard
<1>3. ASSUME \A i \in All : Honest(settled[i])
      PROVE  TakeProfitProved \/ (Len(settled) = 2 /\ SharesOf(All) = card.shares /\ ValueOf(All) < card.principal)
  <2>1. ASSUME NEW pieces \in SUBSET All
        PROVE  SettlementProved(pieces)
    BY <1>3, <2>1, HonestBounds DEF SettlementProved
  <2>2. WithinBounds(All) /\ ValueOf(All) \in Nat /\ FeeOf(All) \in Nat
    BY <1>3, HonestBounds
  <2>3. FeeOf(All) * BpsScale <= ValueOf(All) * card.rate
    BY <1>3, HonestBounds
  <2>4. ASSUME ValueOf(All) >= card.principal
        PROVE  ValueOf(All) - FeeOf(All) >= card.principal - card.feeAtPrice
    BY <1>1, <2>2, <2>3, <2>4, NetMono
  <2>5. ASSUME Len(settled) = 1, SharesOf(All) = card.shares
        PROVE  ValueOf(All) >= card.principal
    <3>1. settled \in Seq(Pieces)
      BY DEF EconomicsInv, Pieced
    <3>2. SharesOf(All) = settled[1].shares /\ ValueOf(All) = settled[1].value /\ All = {1}
      BY <2>5, <3>1, SingleTotals
    <3>3. PieceOf(card, settled[1]) /\ Honest(settled[1])
      BY <1>1, <1>3, <3>2
    <3>4. HonestOf(settled[1])
      BY <1>1, <3>3, HonestPiece
    <3>5. Floored(settled[1].shares, card.price) <= settled[1].value
      BY <3>4 DEF HonestOf
    <3>6. Scale \in Nat \ {0}
      BY CardScales
    <3>7. (card.principal * Scale) \div Scale = card.principal
      BY <1>1, <3>6, DivExact
    <3>8. Floored(card.shares, card.price) = card.principal
      BY <1>1, <3>7 DEF Floored
    <3> QED BY <2>5, <3>2, <3>5, <3>8
  <2>6. Len(settled) = 1 \/ Len(settled) = 2
    BY <1>1
  <2>7. ValueOf(All) >= card.principal \/ ValueOf(All) < card.principal
    BY <1>1, <2>2
  <2>8. \A t \in 1..2 : LET pieces == {i \in All : settled[i].tx = t} IN pieces # {} => SettlementProved(pieces)
    BY <2>1
  <2> QED BY <2>2, <2>4, <2>5, <2>6, <2>7, <2>8 DEF TakeProfitProved
<1>4. Proved <=> TakeProfitProved
  BY DEF Proved
<1> QED BY <1>2, <1>3, <1>4 DEF ProofsAreJust

-----------------------------------------------------------------------------
(* Every step of the economics keeps what is known *)

(* Before a request nothing is known.                                      *)
LEMMA EconomicsInitInv == EconomicsInit => EconomicsInv
<1> SUFFICES ASSUME EconomicsInit PROVE EconomicsInv
  OBVIOUS
<1>1. asked = NoCard /\ card = NoCard /\ settled = <<>>
  BY DEF EconomicsInit
<1>2. <<>> \in Seq(Pieces) /\ Len(<<>>) = 0
  OBVIOUS
<1> QED BY <1>1, <1>2 DEF EconomicsInv, Compiled, Pieced

(* A request is answered with the card c or refused.                       *)
LEMMA CompileKeeps ==
    ASSUME NEW k, NEW c, NEW new, k \in Asked, k.price \in 1..(Scale - 1), k.rate \in 0..BpsScale,
           (new = c /\ c \in Cards /\ CardOf(k, c)) \/ new = NoCard,
           k.kind = "OPEN" => (new = c <=> k.amount >= MinimumBudget(k.price, k.rate)), c \in Cards
    PROVE  Compiled(k, new) /\ Pieced(new, <<>>)
<1>1. k # NoCard /\ c # NoCard
  BY NoCardAssumption
<1>2. <<>> \in Seq(Pieces) /\ Len(<<>>) = 0
  OBVIOUS
<1>3. Pieced(new, <<>>)
  BY <1>2 DEF Pieced
<1> QED BY <1>1, <1>3 DEF Compiled

(* Compiling an OPEN.                                                      *)
LEMMA OpenKeeps ==
    ASSUME EconomicsInv, NEW price \in Prices, NEW rate \in FeeRates, NEW budget \in Budgets, CompileOpen(budget, price, rate)
    PROVE  EconomicsInv'
<1>1. price \in 1..(Scale - 1) /\ rate \in 0..BpsScale /\ budget \in Nat /\ price \in Nat /\ rate \in Nat
  BY CardScales
<1>2. PICK c, k : c = OpenCard(budget, price, rate)
                  /\ k = [kind |-> "OPEN", amount |-> budget, price |-> price, rate |-> rate]
  OBVIOUS
<1>3. /\ asked = NoCard /\ asked' = k /\ card' = (IF OpenCompiles(c, budget) THEN c ELSE NoCard) /\ settled' = settled
  BY <1>2 DEF CompileOpen, AskFor
<1>4. settled = <<>>
  BY <1>3 DEF EconomicsInv, Compiled, Pieced
<1>5. k \in Asked /\ k.kind = "OPEN" /\ k.amount = budget /\ k.price = price /\ k.rate = rate
  BY <1>1, <1>2 DEF Asked, CardKinds
<1>6. /\ c \in Cards /\ c.kind = "OPEN" /\ c.price = price /\ c.rate = rate
      /\ c.maximumFee = CeilDiv(c.principal * c.rate, BpsScale)
      /\ c.principal % Step = 0 /\ c.shares % Scale = 0 /\ c.shares * c.price = c.principal * Scale
      /\ OpenCompiles(c, budget) <=> budget >= MinimumBudget(price, rate)
      /\ OpenCompiles(c, budget) => c.principal > 0 /\ c.shares > 0
      /\ \A more \in Nat : more > c.principal /\ more % price = 0 /\ more % Step = 0 =>
            more * BpsScale + more * rate > budget * BpsScale
  <2>1. budget \in Nat /\ price \in 1..(Scale - 1) /\ rate \in 0..BpsScale /\ c = OpenCard(budget, price, rate)
    BY <1>1, <1>2
  <2>2. /\ c \in Cards /\ c.kind = "OPEN" /\ c.price = price /\ c.rate = rate
        /\ c.maximumFee = CeilDiv(c.principal * c.rate, BpsScale)
        /\ c.principal % Step = 0 /\ c.shares % Scale = 0
        /\ c.shares * c.price = c.principal * Scale
    BY <2>1, OpenFacts
  <2>3. OpenCompiles(c, budget) <=> budget >= MinimumBudget(price, rate)
    BY <2>1, OpenFacts
  <2>4. OpenCompiles(c, budget) => c.principal > 0 /\ c.shares > 0
    BY <2>1, OpenFacts
  <2>5. \A more \in Nat : more > c.principal /\ more % price = 0 /\ more % Step = 0 =>
           more * BpsScale + more * rate > budget * BpsScale
    BY <2>1, OpenFacts
  <2> QED BY <2>2, <2>3, <2>4, <2>5
<1>7. ASSUME OpenCompiles(c, budget)
      PROVE  CardOf(k, c)
  <2>1. budget >= c.principal + c.maximumFee
    <3>1. c.principal \in Nat /\ c.maximumFee \in Nat /\ c.principal + c.maximumFee <= budget
      BY <1>6, <1>7 DEF OpenCompiles, Cards
    <3> QED BY <1>1, <3>1
  <2>2. OpenOf(k, c)
    BY <1>5, <1>6, <1>7, <2>1 DEF OpenOf
  <2> QED BY <1>5, <1>6, <1>7, <2>2 DEF CardOf
<1>8. PICK new : new = card'
  OBVIOUS
<1>9. /\ (new = c /\ CardOf(k, c)) \/ new = NoCard
      /\ new = c <=> k.amount >= MinimumBudget(k.price, k.rate)
  <2>1. c # NoCard
    BY <1>6, NoCardAssumption
  <2>2. CASE OpenCompiles(c, budget)
    BY <1>3, <1>5, <1>6, <1>7, <1>8, <2>2
  <2>3. CASE ~OpenCompiles(c, budget)
    BY <1>3, <1>5, <1>6, <1>8, <2>1, <2>3
  <2> QED BY <2>2, <2>3
<1>10. Compiled(k, new) /\ Pieced(new, <<>>)
  BY <1>1, <1>5, <1>6, <1>9, CompileKeeps
<1> QED BY <1>3, <1>4, <1>8, <1>10 DEF EconomicsInv

(* Compiling an order to sell.                                             *)
LEMMA SellKeeps ==
    ASSUME EconomicsInv, NEW price \in Prices, NEW rate \in FeeRates, NEW lot \in Lots,
           CompileClose(lot, price, rate) \/ CompileTakeProfit(lot, price, rate)
    PROVE  EconomicsInv'
<1>1. price \in 1..(Scale - 1) /\ rate \in 0..BpsScale /\ lot \in Nat /\ price \in Nat /\ rate \in Nat
  BY CardScales
<1>2. PICK kind \in {"CLOSE", "TAKE_PROFIT"} :
         \/ kind = "CLOSE" /\ CompileClose(lot, price, rate)
         \/ kind = "TAKE_PROFIT" /\ CompileTakeProfit(lot, price, rate)
  OBVIOUS
<1>3. PICK c, k : c = SellCard(kind, lot, price, rate)
                  /\ k = [kind |-> kind, amount |-> lot, price |-> price, rate |-> rate]
  OBVIOUS
<1>4. /\ asked = NoCard /\ asked' = k /\ settled' = settled
      /\ \/ card' = c /\ kind = "CLOSE" /\ CloseCompiles(c)
         \/ card' = c /\ kind = "TAKE_PROFIT" /\ TakeProfitCompiles(c)
         \/ card' = NoCard
  <2>1. CASE kind = "CLOSE" /\ CompileClose(lot, price, rate)
    BY <1>3, <2>1 DEF CompileClose, AskFor
  <2>2. CASE kind = "TAKE_PROFIT" /\ CompileTakeProfit(lot, price, rate)
    BY <1>3, <2>2 DEF CompileTakeProfit, AskFor
  <2> QED BY <1>2, <2>1, <2>2
<1>5. settled = <<>>
  BY <1>4 DEF EconomicsInv, Compiled, Pieced
<1>6. k \in Asked /\ k.kind = kind /\ k.amount = lot /\ k.price = price /\ k.rate = rate
  BY <1>1, <1>3 DEF Asked, CardKinds
<1>7. /\ c \in Cards /\ c.kind = kind /\ c.price = price /\ c.rate = rate
      /\ c.shares * c.price = c.principal * Scale /\ c.shares % Scale = 0
      /\ c.feeAtPrice = CeilDiv(c.principal * c.rate, BpsScale)
      /\ c.maximumFee = CeilDiv(c.shares * c.rate, BpsScale)
      /\ CloseCompiles(c) \/ TakeProfitCompiles(c) => c.shares > 0
      /\ TakeProfitCompiles(c) => c.shares >= MinLot
  BY <1>1, <1>3, SellFacts
<1>8. PICK new : new = card'
  OBVIOUS
<1>9. (new = c /\ CardOf(k, c)) \/ new = NoCard
  <2>1. SellOf(c) /\ c.kind # "OPEN"
    BY <1>7 DEF SellOf
  <2>2. ASSUME c.shares > 0, kind = "TAKE_PROFIT" => c.shares >= MinLot
        PROVE  CardOf(k, c)
    BY <1>6, <1>7, <2>1, <2>2 DEF CardOf
  <2> QED BY <1>4, <1>7, <1>8, <2>2
<1>10. Compiled(k, new) /\ Pieced(new, <<>>)
  BY <1>1, <1>6, <1>7, <1>9, CompileKeeps
<1> QED BY <1>4, <1>5, <1>8, <1>10 DEF EconomicsInv

(* One more piece.                                                         *)
LEMMA SettleKeeps ==
    ASSUME EconomicsInv, NEW shares \in Fills, NEW price \in Prices, NEW overcharged \in BOOLEAN, NEW tx \in 1..2,
           NEW flaw \in Flaws, Settle(shares, price, overcharged, tx, flaw)
    PROVE  EconomicsInv'
<1>1. price \in 1..(Scale - 1) /\ price \in Nat /\ shares \in Nat /\ BpsScale \in Nat \ {0}
  BY CardScales
<1>2. PICK c, s, value, fee, piece, every :
        /\ c = card /\ s = settled /\ value = Floored(shares, price) /\ every = SharesOf(All)
        /\ fee = (IF overcharged THEN FeeReserve(value, card.rate) + 1 ELSE (value * card.rate) \div BpsScale)
        /\ piece = [tx |-> tx, shares |-> shares, value |-> value, fee |-> fee, price |-> price, flaw |-> flaw]
  OBVIOUS
<1>3. /\ c # NoCard /\ every + shares <= c.shares /\ value > 0
      /\ s = <<>> \/ (c.kind = "TAKE_PROFIT" /\ Len(s) = 1)
      /\ c.kind = "CLOSE" => shares = c.shares
      /\ settled' = Append(s, piece) /\ asked' = asked /\ card' = c
  BY <1>2 DEF Settle
<1>4. Compiled(asked, c) /\ Pieced(c, s)
  BY <1>2 DEF EconomicsInv
<1>5. c \in Cards /\ c.rate \in 0..BpsScale
  <2>1. c \in Cards /\ CardOf(asked, c) /\ asked # NoCard
    BY <1>3, <1>4 DEF Compiled
  <2> QED BY <1>4, <2>1 DEF Compiled, CardOf
<1>6. value \in Nat
  BY <1>1, <1>2, FlooredFacts
<1>7. fee \in Nat
  <2>1. PICK rate : rate = c.rate
    OBVIOUS
  <2>2. rate \in Nat /\ value * rate \in Nat
    BY <1>1, <1>5, <1>6, <2>1, MulNat
  <2>3. FeeReserve(value, rate) \in Nat /\ (value * rate) \div BpsScale \in Nat
    BY <1>1, <1>6, <2>2, Affordable, DivFacts
  <2> QED BY <1>2, <2>1, <2>3
<1>8. piece \in Pieces /\ piece.price = price /\ piece.shares = shares /\ piece.value = value
  BY <1>1, <1>2, <1>6, <1>7 DEF Pieces
<1>9. PieceOf(c, piece)
  BY <1>1, <1>2, <1>3, <1>8 DEF PieceOf
<1>10. PICK longer : longer = Append(s, piece)
  OBVIOUS
<1>11. s \in Seq(Pieces) /\ \A i \in 1..Len(s) : PieceOf(c, s[i])
  BY <1>4 DEF Pieced
<1>12. /\ longer \in Seq(Pieces) /\ Len(longer) = Len(s) + 1 /\ longer[Len(s) + 1] = piece
       /\ \A i \in 1..Len(s) : longer[i] = s[i]
  BY <1>8, <1>10, <1>11
<1>13. CASE s = <<>>
  <2>1. Len(s) = 0
    BY <1>13
  <2>2. Len(longer) = 1 /\ longer[1] = piece
    BY <1>12, <2>1
  <2>3. every = 0
    <3>1. PICK f : f = [i \in All |-> settled[i].shares]
      OBVIOUS
    <3>2. every = SumTo(f, 0)
      BY <1>2, <2>1, <3>1 DEF SharesOf
    <3> QED BY <3>2, SumFacts
  <2>4. shares <= c.shares
    BY <1>1, <1>3, <2>3
  <2>5. Pieced(c, longer)
    <3>1. \A i \in 1..1 : PieceOf(c, longer[i])
      BY <1>9, <2>2
    <3> QED BY <1>3, <1>8, <1>12, <2>2, <2>4, <3>1 DEF Pieced
  <2> QED BY <1>3, <1>4, <1>10, <2>5 DEF EconomicsInv
<1>14. CASE s # <<>>
  <2>1. c.kind = "TAKE_PROFIT" /\ Len(s) = 1
    BY <1>3, <1>14
  <2>2. Len(longer) = 2 /\ longer[1] = s[1] /\ longer[2] = piece
    BY <1>12, <2>1
  <2>3. every = s[1].shares
    BY <1>2, <1>11, <2>1, SingleTotals
  <2>4. Pieced(c, longer)
    <3>1. \A i \in 1..2 : PieceOf(c, longer[i])
      <4>1. PieceOf(c, longer[1]) /\ PieceOf(c, longer[2])
        BY <1>9, <1>11, <2>1, <2>2
      <4> QED BY <4>1
    <3>2. longer[1].shares + longer[2].shares <= c.shares
      BY <1>3, <1>8, <2>2, <2>3
    <3> QED BY <1>3, <1>12, <2>1, <2>2, <3>1, <3>2 DEF Pieced
  <2> QED BY <1>3, <1>4, <1>10, <2>4 DEF EconomicsInv
<1> QED BY <1>13, <1>14

(* Every step.                                                             *)
LEMMA EconomicsKeeps == EconomicsInv /\ [EconomicsNext]_cardVars => EconomicsInv'
<1> SUFFICES ASSUME EconomicsInv, [EconomicsNext]_cardVars PROVE EconomicsInv'
  OBVIOUS
<1>1. CASE EconomicsNext
  <2>1. PICK price \in Prices :
           \/ \E rate \in FeeRates :
                 \/ \E budget \in Budgets : CompileOpen(budget, price, rate)
                 \/ \E lot \in Lots : CompileClose(lot, price, rate) \/ CompileTakeProfit(lot, price, rate)
           \/ \E shares \in Fills, overcharged \in BOOLEAN, tx \in 1..2, flaw \in Flaws :
                 Settle(shares, price, overcharged, tx, flaw)
    BY <1>1 DEF EconomicsNext
  <2> QED BY <2>1, OpenKeeps, SellKeeps, SettleKeeps
<1>2. CASE UNCHANGED cardVars
  <2>1. asked' = asked /\ card' = card /\ settled' = settled
    BY <1>2 DEF cardVars
  <2> QED BY <2>1 DEF EconomicsInv
<1> QED BY <1>1, <1>2

(* What is known of request, card and settlement, their types included.    *)
THEOREM EconomicsAgree == EconomicsSpec => [](EconomicsTypeOK /\ EconomicsInv)
<1>1. EconomicsInv => EconomicsTypeOK
  BY DEF EconomicsInv, EconomicsTypeOK, Compiled, Pieced
<1> QED BY <1>1, EconomicsInitInv, EconomicsKeeps, PTL DEF EconomicsSpec

(* The compilers, the validators and the verifiers agree on every card, an *)
(* OPEN is refused exactly below the named minimum and is otherwise the    *)
(* largest aligned order the budget affords, a proof is given for no       *)
(* settlement that broke the card and refused to no honest one but for the *)
(* exception that ProofsAreJust names: for all prices, fee rates, amounts  *)
(* and scales.                                                             *)
THEOREM EconomicsHold == EconomicsSpec => []EconomicsSound
<1>1. EconomicsInv => EconomicsSound
  <2> SUFFICES ASSUME EconomicsInv PROVE CardsAgree /\ ProofsAreJust
    BY DEF EconomicsSound
  <2>1. CardsAgree
    BY CardsHold DEF EconomicsInv
  <2>2. ProofsAreJust
    <3>1. CASE settled = <<>>
      BY <3>1 DEF ProofsAreJust
    <3>2. CASE settled # <<>>
      <4>1. card \in Cards
        BY <3>2 DEF EconomicsInv, Compiled, Pieced
      <4>2. card.kind \in {"OPEN", "CLOSE", "TAKE_PROFIT"}
        BY <4>1 DEF Cards, CardKinds
      <4> QED BY <3>2, <4>2, OpenJust, CloseJust, TakeProfitJust
    <3> QED BY <3>1, <3>2
  <2> QED BY <2>1, <2>2
<1> QED BY <1>1, EconomicsAgree, PTL

-----------------------------------------------------------------------------
(* The order of a journey's steps: seconds *)

(* A later tick is in no earlier second.                                   *)
LEMMA SecondsGrow ==
    \A a, b \in Nat : a <= b => (a \div TicksPerSecond) <= (b \div TicksPerSecond)
BY JourneyTimes, SMT

LEMMA SecondsAreNat == \A a \in Nat : (a \div TicksPerSecond) \in Nat
BY JourneyTimes, SMT

-----------------------------------------------------------------------------
(* The inductive invariant of a journey *)

UnderLock == {"locked_wait", "locked_readiness", "locked_dry_run", "attempt", "launch"}

WithOrder == {"sent", "prove", "proved"}

WithConfirmation ==
    {"wait", "revalidate", "final_readiness", "final_dry_run", "lock"} \cup UnderLock \cup WithOrder

WithCard == WithConfirmation \cup {"dry_run", "confirm"}

(* A delivered card has an expiry; from its validation on it is as asked.  *)
JourneyCardInv ==
    /\ point \in WithCard \cup {"validate"} => offer.expires \in Nat
    /\ point \in WithCard => offer.matches

(* When the bounds were shown, and when the buyer agreed.                  *)
ConsentInv ==
    /\ point \in WithConfirmation \cup {"confirm"} => asked_at \in Nat /\ asked_at <= now
    /\ point \in WithConfirmation => confirmed \in Nat /\ asked_at <= confirmed /\ confirmed <= now

(* Under the lock the wallet of now is among what held since; after the    *)
(* readiness that is read there everything did.                            *)
WalletInv ==
    /\ point \in UnderLock => wallet \subseteq heldSince
    /\ point \in WithOrder \cup {"locked_dry_run", "attempt", "launch"} => heldSince = WalletFacts

(* Nothing is sent before its step, and a sent order was launched.         *)
LaunchInv ==
    /\ point \in WithOrder => launched \in Nat /\ launched <= now
    /\ point \notin WithOrder \cup {"refused"} => launched = Never

(* After its wait a journey goes on in a later second than its             *)
(* confirmation: a TAKE_PROFIT from the second checks on, the others under *)
(* the lock.                                                               *)
SecondInv ==
    /\ point \in (UnderLock \ {"locked_wait"}) \cup WithOrder => SecondOf(now) > SecondOf(confirmed)
    /\ journeyKind = "take_profit" =>
          /\ point # "locked_wait"
          /\ point \in WithConfirmation \ {"wait"} => SecondOf(now) > SecondOf(confirmed)

(* What is to be proved, if it is this order's, is of a later second.      *)
FillInv ==
    /\ point \notin {"prove", "proved", "refused"} => ~fill.own
    /\ point \in {"prove", "proved"} => fill.at \in Nat
    /\ point = "prove" /\ fill.own => SecondOf(fill.at) > SecondOf(confirmed)

JourneyInv ==
    /\ JourneyTypeOK
    /\ JourneyCardInv /\ ConsentInv /\ WalletInv /\ LaunchInv /\ SecondInv /\ FillInv
    /\ SentAsConfirmed /\ ProofIsOfTheOrder

-----------------------------------------------------------------------------
LEMMA JourneyInvInit == JourneyInit => JourneyInv
BY JourneyTimes
   DEF JourneyInit, JourneyInv, JourneyTypeOK, JourneyCardInv, ConsentInv, WalletInv, LaunchInv, SecondInv, FillInv,
       SentAsConfirmed, ProofIsOfTheOrder, WithConfirmation, WithCard, WithOrder, UnderLock, Moments, WalletFacts,
       NoOffer, NoFill

(* Every step keeps the invariant.                                         *)
LEMMA JourneyInvStep == JourneyInv /\ [JourneyNext]_journeyVars => JourneyInv'
<1> SUFFICES ASSUME JourneyInv, [JourneyNext]_journeyVars PROVE JourneyInv'
  OBVIOUS
<1> USE JourneyTimes
    DEF JourneyInv, JourneyTypeOK, JourneyCardInv, ConsentInv, WalletInv, LaunchInv, SecondInv, FillInv,
        SentAsConfirmed, ProofIsOfTheOrder, WithConfirmation, WithCard, WithOrder, UnderLock, Moments, WalletFacts,
        StepIf, NextStep, buyer, outside
<1>1. CASE CheckReadiness
  BY <1>1 DEF CheckReadiness
<1>2. CASE PreviewMarket
  BY <1>2 DEF PreviewMarket, Selling
<1>3. CASE PayForCard
  BY <1>3 DEF PayForCard, NoOffer
<1>4. CASE ValidateCard
  BY <1>4 DEF ValidateCard, OfferLives
<1>5. CASE PresentBounds
  BY <1>5 DEF PresentBounds, OfferLives, Headroom, Selling
<1>6. ASSUME NEW t \in 0..MaxNow, NEW structured \in BOOLEAN, Confirm(t, structured)
      PROVE  JourneyInv'
  BY <1>6 DEF Confirm, ConfirmationTime
<1>7. CASE WaitForSecond
  BY <1>7 DEF WaitForSecond, SecondIsOver
<1>8. CASE Revalidate
  BY <1>8 DEF Revalidate, OfferLives, Headroom
<1>9. CASE FinalReadiness
  BY <1>9 DEF FinalReadiness
<1>10. CASE FinalDryRun
  BY <1>10 DEF FinalDryRun, OfferLives
<1>11. CASE TakeLock
  BY <1>11 DEF TakeLock
<1>12. CASE LockedReadiness
  BY <1>12 DEF LockedReadiness, ReadyUnderLock
<1>13. CASE LockedDryRun
  BY <1>13 DEF LockedDryRun
<1>14. CASE MarkAttempt
  BY <1>14 DEF MarkAttempt
<1>15. CASE LaunchOrder
  BY <1>15 DEF LaunchOrder, OfferLives, Headroom
<1>16. CASE OrderResult
  <2>1. CASE fill' = [at |-> now, own |-> TRUE] /\ NextStep("prove")
    BY <1>16, <2>1 DEF OrderResult
  <2>2. CASE other # Never /\ fill' = [at |-> other, own |-> FALSE] /\ NextStep("prove")
    BY <1>16, <2>2 DEF OrderResult
  <2>3. CASE NextStep("refused") /\ UNCHANGED fill
    BY <1>16, <2>3 DEF OrderResult
  <2> QED BY <1>16, <2>1, <2>2, <2>3 DEF OrderResult
<1>17. CASE Prove
  BY <1>17 DEF Prove, PostdatesConfirmation
<1>18. CASE Ticks
  <2>1. SecondOf(now)' >= SecondOf(now) /\ SecondOf(now) \in Nat /\ SecondOf(now)' \in Nat
    <3> HIDE DEF JourneyInv
    <3>1. now \in Nat /\ now' \in Nat /\ now <= now'
      BY <1>18 DEF Ticks, JourneyInv
    <3>2. SecondOf(now) <= SecondOf(now') /\ SecondOf(now) \in Nat /\ SecondOf(now') \in Nat
      BY <3>1, SecondsGrow, SecondsAreNat DEF SecondOf
    <3>3. SecondOf(now)' = SecondOf(now')
      BY DEF SecondOf
    <3> QED BY <3>2, <3>3
  <2>2. confirmed \in Nat => SecondOf(confirmed) \in Nat
    BY SecondsAreNat DEF SecondOf
  <2>3. /\ UNCHANGED <<confirmed, launched, fill, point, journeyKind, asked_at, offer, wallet, heldSince>>
        /\ now' = now + 1 /\ now < MaxNow
    BY <1>18 DEF Ticks, Waits
  <2>4. SecondInv'
    BY <2>1, <2>2, <2>3
  <2> QED BY <1>18, <2>4 DEF Ticks, Waits, Ended
<1>19. CASE OtherSettles
  BY <1>19 DEF OtherSettles, Waits, Ended, NoOffer
<1>20. ASSUME NEW facts \in SUBSET WalletFacts, WalletChanges(facts)
      PROVE  JourneyInv'
  <2>1. /\ WalletInv' /\ heldSince' \in SUBSET WalletFacts
        /\ heldSince = WalletFacts => heldSince' = heldSince
    BY <1>20 DEF WalletChanges, Waits, BeforeLaunch
  <2>2. JourneyTypeOK'
    BY <1>20, <2>1 DEF WalletChanges, Waits
  <2>3. (JourneyCardInv /\ ConsentInv /\ LaunchInv /\ SecondInv /\ FillInv)'
    BY <1>20 DEF WalletChanges, Waits, Ended
  <2>4. (SentAsConfirmed /\ ProofIsOfTheOrder)'
    BY <1>20, <2>1 DEF WalletChanges, Waits, Ended
  <2> QED BY <2>1, <2>2, <2>3, <2>4
<1>21. CASE UNCHANGED journeyVars
  BY <1>21 DEF journeyVars
<1> QED
  BY <1>1, <1>2, <1>3, <1>4, <1>5, <1>6, <1>7, <1>8, <1>9, <1>10, <1>11, <1>12, <1>13, <1>14, <1>15, <1>16,
     <1>17, <1>18, <1>19, <1>20, <1>21 DEF JourneyNext

(* Every journey keeps the invariant: among it, that a journey under the   *)
(* execution lock is past the second of its confirmation, and that all it  *)
(* read of the wallet there held since the lock was taken.                 *)
THEOREM JourneyAgrees == JourneySpec => []JourneyInv
<1>1. JourneyInit => JourneyInv
  BY JourneyInvInit
<1>2. JourneyInv /\ [JourneyNext]_journeyVars => JourneyInv'
  BY JourneyInvStep
<1> QED BY <1>1, <1>2, PTL DEF JourneySpec

(* Type correctness, for any lives, headrooms and number of ticks.         *)
THEOREM JourneyTypes == JourneySpec => []JourneyTypeOK
<1>1. JourneyInv => JourneyTypeOK
  BY DEF JourneyInv
<1> QED BY <1>1, JourneyAgrees, PTL

(* No order is sent but in a later second than the buyer confirmed it, on  *)
(* a live card and on facts that held under the execution lock.            *)
THEOREM OrdersAreAsConfirmed == JourneySpec => []SentAsConfirmed
<1>1. JourneyInv => SentAsConfirmed
  BY DEF JourneyInv
<1> QED BY <1>1, JourneyAgrees, PTL

(* No proof is of anything before the second after the confirmation, and   *)
(* the journey's own settlement always passes that test.                   *)
THEOREM ProofsAreOfTheOrder == JourneySpec => []ProofIsOfTheOrder
<1>1. JourneyInv => ProofIsOfTheOrder
  BY DEF JourneyInv
<1> QED BY <1>1, JourneyAgrees, PTL
=============================================================================
