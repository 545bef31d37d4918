---------------------------- MODULE TransferProofs ----------------------------
(***************************************************************************)
(* The encodings of a transfer for words and addresses of any size, fees,  *)
(* and the conversion of typed amounts.                                    *)
(***************************************************************************)
EXTENDS Transfer, Fees, SequenceTheorems, WellFoundedInduction, TLAPS

-------------------------------------------------------------------------------
(* Induction and recursion                                                 *)

\* A set of natural numbers has a smallest element; every induction below is
\* about the smallest counterexample.
LEMMA Smallest ==
    ASSUME NEW T, T \subseteq Nat, T # {}
    PROVE  \E n \in T : \A m \in T : n <= m
<1>1. PICK n \in T : \A m \in T : ~(<<m, n>> \in OpToRel(<, Nat))
  BY NatLessThanWellFounded, WFMin
<1>2. \A m \in T : ~(m < n)
  BY <1>1 DEF OpToRel
<1> QED
  BY <1>2

\* A definition by recursion over the size of its argument.
Recursive(D, S, size, before, base, step) ==
    /\ size \in [D -> Nat] /\ before \in [D -> D]
    /\ base \in [D -> S] /\ step \in [D \X S -> S]
    /\ \A x \in D : size[x] # 0 => size[before[x]] < size[x]

\* What it defines.
Solution(f, D, S, size, before, base, step) ==
    /\ f \in [D -> S]
    /\ \A x \in D : f[x] = IF size[x] = 0 THEN base[x] ELSE step[<<x, f[before[x]]>>]

\* It has a solution.
LEMMA Recursion ==
    ASSUME NEW D, NEW S, NEW size, NEW before, NEW base, NEW step,
           Recursive(D, S, size, before, base, step)
    PROVE  \E f : Solution(f, D, S, size, before, base, step)
<1> USE DEF Recursive
<1> DEFINE Next1(f, x) == IF size[x] = 0 THEN base[x] ELSE step[<<x, f[before[x]]>>]
           Upto(n) == {f \in [D -> S] : \A x \in D : size[x] <= n => f[x] = Next1(f, x)}
           Missed == {n \in Nat : Upto(n) = {}}
<1>1. \A f \in [D -> S], x \in D : Next1(f, x) \in S
  OBVIOUS
<1>2. \A n \in Nat : Upto(n) # {}
  <2>1. Upto(0) # {}
    <3>1. base \in Upto(0)
      OBVIOUS
    <3> QED
      BY <3>1
  <2>2. ASSUME NEW n \in Nat, NEW f \in Upto(n)
        PROVE  [x \in D |-> Next1(f, x)] \in Upto(n + 1)
    <3> DEFINE g == [x \in D |-> Next1(f, x)]
    <3>1. f \in [D -> S] /\ \A x \in D : size[x] <= n => f[x] = Next1(f, x)
      OBVIOUS
    <3>2. g \in [D -> S]
      BY <1>1, <3>1
    <3>3. ASSUME NEW x \in D, size[x] <= n + 1
          PROVE  g[x] = Next1(g, x)
      <4>1. CASE size[x] = 0
        BY <4>1
      <4>2. CASE size[x] # 0
        <5>1. before[x] \in D /\ size[before[x]] <= n
          BY <3>3, <4>2
        <5>2. g[before[x]] = f[before[x]]
          BY <3>1, <5>1
        <5> QED
          BY <4>2, <5>2
      <4> QED
        BY <4>1, <4>2
    <3> HIDE DEF g
    <3> QED
      BY <3>2, <3>3 DEF g
  <2>3. SUFFICES ASSUME Missed # {} PROVE FALSE
    OBVIOUS
  <2>4. PICK n \in Missed : \A m \in Missed : n <= m
    BY <2>3, Smallest
  <2>5. n # 0
    BY <2>1
  <2>6. n - 1 \in Nat /\ n - 1 \notin Missed
    BY <2>4, <2>5
  <2>7. PICK f : f \in Upto(n - 1)
    BY <2>6
  <2>8. Upto((n - 1) + 1) # {}
    BY <2>2, <2>6, <2>7, Zenon
  <2>9. (n - 1) + 1 = n
    OBVIOUS
  <2> HIDE DEF Upto
  <2> QED
    BY <2>8, <2>9
<1>3. ASSUME NEW m \in Nat, NEW n \in Nat, NEW f \in Upto(m), NEW g \in Upto(n)
      PROVE  \A x \in D : size[x] <= m /\ size[x] <= n => f[x] = g[x]
  <2> DEFINE Apart == {k \in Nat : \E x \in D : size[x] = k /\ k <= m /\ k <= n /\ f[x] # g[x]}
  <2>1. SUFFICES ASSUME Apart # {} PROVE FALSE
    OBVIOUS
  <2>2. PICK k \in Apart : \A l \in Apart : k <= l
    BY <2>1, Smallest
  <2>3. PICK x \in D : size[x] = k /\ k <= m /\ k <= n /\ f[x] # g[x]
    OBVIOUS
  <2>4. f[x] = Next1(f, x) /\ g[x] = Next1(g, x)
    BY <2>3
  <2>5. size[x] # 0
    BY <2>3, <2>4
  <2>6. before[x] \in D /\ size[before[x]] \in Nat /\ size[before[x]] < k
    BY <2>3, <2>5
  <2>7. size[before[x]] \notin Apart
    BY <2>2, <2>6
  <2>8. f[before[x]] = g[before[x]]
    BY <2>3, <2>6, <2>7
  <2> QED
    BY <2>3, <2>4, <2>5, <2>8
<1> DEFINE pick == [n \in Nat |-> CHOOSE f : f \in Upto(n)]
           all == [x \in D |-> pick[size[x]][x]]
<1>4. \A n \in Nat : pick[n] \in Upto(n)
  <2> HIDE DEF Upto
  <2> QED
    BY <1>2
<1>5. \A n \in Nat : pick[n] \in [D -> S]
  BY <1>4
<1>6. all \in [D -> S]
  <2> HIDE DEF pick
  <2> QED
    BY <1>5
<1>7. ASSUME NEW x \in D
      PROVE  all[x] = Next1(all, x)
  <2> HIDE DEF pick
  <2>1. size[x] \in Nat /\ pick[size[x]] \in Upto(size[x])
    BY <1>4
  <2>2. all[x] = Next1(pick[size[x]], x)
    BY <2>1
  <2>3. CASE size[x] = 0
    BY <2>2, <2>3
  <2>4. CASE size[x] # 0
    <3>1. before[x] \in D /\ size[before[x]] \in Nat /\ size[before[x]] <= size[x]
      BY <2>4
    <3>2. pick[size[before[x]]] \in Upto(size[before[x]])
      BY <1>4, <3>1
    <3> HIDE DEF Upto
    <3>3. all[before[x]] = pick[size[x]][before[x]]
      BY <1>3, <2>1, <3>1, <3>2
    <3> QED
      BY <2>2, <2>4, <3>3
  <2> QED
    BY <2>3, <2>4
<1> QED
  BY <1>6, <1>7 DEF Solution

-------------------------------------------------------------------------------
(* Powers, bytes and numbers                                               *)

\* Power(b, _) satisfies its recursive definition.
LEMMA PowerDef ==
    ASSUME NEW b \in Nat
    PROVE  /\ Power(b, 0) = 1
           /\ \A k \in Nat : Power(b, k + 1) = b * Power(b, k)
           /\ \A k \in Nat : Power(b, k) \in Nat
<1> DEFINE p[i \in Nat] == IF i = 0 THEN 1 ELSE b * p[i - 1]
           size == [i \in Nat |-> i]
           before == [i \in Nat |-> IF i = 0 THEN 0 ELSE i - 1]
           base == [i \in Nat |-> 1]
           step == [t \in Nat \X Nat |-> b * t[2]]
<1>1. PICK f : Solution(f, Nat, Nat, size, before, base, step)
  <2>1. Recursive(Nat, Nat, size, before, base, step)
    BY DEF Recursive
  <2> HIDE DEF size, before, base, step
  <2> QED
    BY <2>1, Recursion
<1> f \in [Nat -> Nat]
  BY <1>1 DEF Solution
<1>2. ASSUME NEW i \in Nat
      PROVE  f[i] = IF i = 0 THEN 1 ELSE b * f[i - 1]
  <2>1. i # 0 => before[i] = i - 1 /\ <<i, f[i - 1]>> \in Nat \X Nat
    OBVIOUS
  <2>2. i # 0 => f[i] = step[<<i, f[i - 1]>>]
    BY <1>1, <2>1 DEF Solution
  <2>3. i = 0 => f[i] = 1
    BY <1>1 DEF Solution
  <2>4. i # 0 => step[<<i, f[i - 1]>>] = b * f[i - 1]
    BY <2>1
  <2> QED
    BY <2>2, <2>3, <2>4
<1>3. f = [i \in Nat |-> IF i = 0 THEN 1 ELSE b * f[i - 1]]
  BY <1>2
<1>4. p = [i \in Nat |-> IF i = 0 THEN 1 ELSE b * p[i - 1]]
  BY <1>3, Zenon
<1>5. \A k : Power(b, k) = p[k]
  BY Zenon DEF Power
<1> HIDE DEF p
<1>6. \A i \in Nat : p[i] = IF i = 0 THEN 1 ELSE b * p[i - 1]
  BY <1>4
<1> DEFINE Odd1 == {i \in Nat : p[i] \notin Nat}
<1>7. ASSUME Odd1 # {} PROVE FALSE
  <2>1. PICK i \in Odd1 : \A j \in Odd1 : i <= j
    BY <1>7, Smallest
  <2>2. i # 0
    BY <1>6
  <2>3. i - 1 \in Nat /\ i - 1 \notin Odd1
    BY <2>1, <2>2
  <2>4. p[i] = b * p[i - 1] /\ p[i - 1] \in Nat
    BY <1>6, <2>2, <2>3
  <2> QED
    BY <2>4
<1>8. \A k \in Nat : p[k] \in Nat
  BY <1>7
<1>9. \A k \in Nat : p[k + 1] = b * p[k]
  BY <1>6
<1>10. p[0] = 1
  BY <1>6
<1> QED
  BY <1>5, <1>8, <1>9, <1>10

\* A power of a positive number is positive.
LEMMA PowerPositive ==
    ASSUME NEW b \in Nat \ {0}, NEW k \in Nat
    PROVE  Power(b, k) \in Nat \ {0}
<1> DEFINE Zeros == {i \in Nat : Power(b, i) = 0}
<1>1. ASSUME Zeros # {} PROVE FALSE
  <2>1. PICK i \in Zeros : \A j \in Zeros : i <= j
    BY <1>1, Smallest
  <2>2. i # 0
    BY PowerDef
  <2>3. i - 1 \in Nat /\ i - 1 \notin Zeros
    BY <2>1, <2>2
  <2>4. Power(b, (i - 1) + 1) = b * Power(b, i - 1) /\ Power(b, i - 1) \in Nat
    BY PowerDef, <2>3
  <2>5. Power(b, i - 1) \in Nat \ {0}
    BY <2>3, <2>4
  <2>6. \A x, y \in Nat \ {0} : x * y # 0
    OBVIOUS
  <2> QED
    BY <2>4, <2>5, <2>6
<1> QED
  BY <1>1, PowerDef

\* The law of exponents.
LEMMA PowerSum ==
    ASSUME NEW b \in Nat, NEW j \in Nat, NEW k \in Nat
    PROVE  Power(b, j + k) = Power(b, j) * Power(b, k)
<1> DEFINE Bads == {i \in Nat : Power(b, j + i) # Power(b, j) * Power(b, i)}
<1>1. ASSUME Bads # {} PROVE FALSE
  <2>1. PICK i \in Bads : \A l \in Bads : i <= l
    BY <1>1, Smallest
  <2>2. i # 0
    BY PowerDef
  <2>3. i - 1 \in Nat /\ i - 1 \notin Bads
    BY <2>1, <2>2
  <2>4. Power(b, (j + (i - 1)) + 1) = b * Power(b, j + (i - 1))
    BY PowerDef, <2>3
  <2>5. Power(b, (i - 1) + 1) = b * Power(b, i - 1)
    BY PowerDef, <2>3
  <2>6. (j + (i - 1)) + 1 = j + i /\ (i - 1) + 1 = i
    OBVIOUS
  <2>7. Power(b, j + (i - 1)) = Power(b, j) * Power(b, i - 1)
    BY <2>3
  <2>8. Power(b, j) \in Nat /\ Power(b, i - 1) \in Nat
    BY PowerDef, <2>3
  <2>9. \A x, y, z \in Nat : x * (y * z) = y * (x * z)
    OBVIOUS
  <2>10. b * (Power(b, j) * Power(b, i - 1)) = Power(b, j) * (b * Power(b, i - 1))
    BY <2>8, <2>9
  <2> QED
    BY <2>4, <2>5, <2>6, <2>7, <2>10
<1> QED
  BY <1>1

Byte == 0..(Base - 1)

\* What the assumptions say of the base and the word.
LEMMA BaseType == Base \in Nat /\ Base > 1 /\ Word \in Nat /\ Word > 0
  BY TransferAssumption

\* Division by the base.
LEMMA Division ==
    ASSUME NEW n \in Nat
    PROVE  \E q \in Nat, r \in Byte :
               /\ q = n \div Base /\ r = n % Base
               /\ n = Base * q + r
               /\ n # 0 => q < n
<1>1. n \div Base \in Int /\ n % Base \in Int
  BY BaseType
<1>2. n % Base >= 0
  BY BaseType
<1>3. n % Base < Base
  BY BaseType
<1>4. \A q, r \in Int : q = n \div Base /\ r = n % Base => n = Base * q + r
  BY BaseType
<1>5. n \div Base >= 0
  BY BaseType
<1> DEFINE q == n \div Base
           r == n % Base
<1>6. q \in Nat /\ r \in Byte /\ q = n \div Base /\ r = n % Base
  BY <1>1, <1>2, <1>3, <1>5, BaseType DEF Byte
<1> HIDE DEF q, r
<1>7. n = Base * q + r
  BY <1>4, <1>6, BaseType DEF Byte
<1>8. \A p \in Nat : p # 0 => p < Base * p
  BY BaseType
<1>9. n # 0 => q < n
  <2>1. q # 0 => q < Base * q
    BY <1>6, <1>8
  <2>2. Base * q \in Nat /\ r >= 0 /\ r \in Int
    BY <1>6, BaseType DEF Byte
  <2>3. n >= Base * q
    BY <1>7, <2>2
  <2> QED
    BY <1>6, <2>1, <2>2, <2>3
<1> QED
  BY <1>6, <1>7, <1>9

\* The parts of it that need no name.
LEMMA DivisionType ==
    ASSUME NEW n \in Nat
    PROVE  n \div Base \in Nat /\ n % Base \in Byte /\ (n # 0 => n \div Base < n)
  BY Division

\* Bytes satisfies its recursive definition.
LEMMA BytesDef ==
    /\ Bytes[0] = <<>>
    /\ \A n \in Nat \ {0} : Bytes[n] = Append(Bytes[n \div Base], n % Base)
    /\ \A n \in Nat : Bytes[n] \in Seq(Byte)
<1> DEFINE size == [i \in Nat |-> i]
           before == [i \in Nat |-> i \div Base]
           base == [i \in Nat |-> <<>>]
           step == [t \in Nat \X Seq(Byte) |-> Append(t[2], t[1] % Base)]
<1>1. PICK f : Solution(f, Nat, Seq(Byte), size, before, base, step)
  <2>1. size \in [Nat -> Nat] /\ before \in [Nat -> Nat] /\ base \in [Nat -> Seq(Byte)]
    BY DivisionType
  <2>2. step \in [Nat \X Seq(Byte) -> Seq(Byte)]
    BY DivisionType
  <2>3. \A i \in Nat : size[i] # 0 => size[before[i]] < size[i]
    BY DivisionType
  <2>4. Recursive(Nat, Seq(Byte), size, before, base, step)
    BY <2>1, <2>2, <2>3, Zenon DEF Recursive
  <2> HIDE DEF size, before, base, step
  <2> QED
    BY <2>4, Recursion
<1> f \in [Nat -> Seq(Byte)]
  BY <1>1 DEF Solution
<1>2. ASSUME NEW n \in Nat
      PROVE  f[n] = IF n = 0 THEN <<>> ELSE Append(f[n \div Base], n % Base)
  <2>1. n \div Base \in Nat /\ <<n, f[n \div Base]>> \in Nat \X Seq(Byte)
    BY DivisionType
  <2>2. n # 0 => f[n] = step[<<n, f[n \div Base]>>]
    BY <1>1, <2>1 DEF Solution
  <2>3. n = 0 => f[n] = <<>>
    BY <1>1 DEF Solution
  <2>4. step[<<n, f[n \div Base]>>] = Append(f[n \div Base], n % Base)
    BY <2>1
  <2> QED
    BY <2>2, <2>3, <2>4
<1>3. f = [n \in Nat |-> IF n = 0 THEN <<>> ELSE Append(f[n \div Base], n % Base)]
  BY <1>2
<1>4. Bytes = [n \in Nat |-> IF n = 0 THEN <<>> ELSE Append(Bytes[n \div Base], n % Base)]
  BY <1>3, Zenon DEF Bytes
<1>5. \A n \in Nat : Bytes[n] = IF n = 0 THEN <<>> ELSE Append(Bytes[n \div Base], n % Base)
  BY <1>4
<1> DEFINE Wrong == {n \in Nat : Bytes[n] \notin Seq(Byte)}
<1>6. ASSUME Wrong # {} PROVE FALSE
  <2>1. PICK n \in Wrong : \A m \in Wrong : n <= m
    BY <1>6, Smallest
  <2>2. n \in Nat /\ Bytes[n] \notin Seq(Byte)
    BY <2>1
  <2>3. n # 0
    BY <1>5, <2>2, EmptySeq
  <2>4. n \div Base \in Nat /\ n \div Base < n /\ n % Base \in Byte
    BY <2>2, <2>3, DivisionType
  <2>5. Bytes[n \div Base] \in Seq(Byte)
    BY <2>1, <2>2, <2>4
  <2>6. Append(Bytes[n \div Base], n % Base) \in Seq(Byte)
    BY <2>4, <2>5, AppendProperties
  <2> QED
    BY <1>5, <2>2, <2>3, <2>6
<1> QED
  BY <1>5, <1>6

\* Number satisfies its recursive definition.
LEMMA NumberDef ==
    /\ \A s \in Seq(Nat) : Number[s] \in Nat
    /\ \A s \in Seq(Nat) : Len(s) = 0 => Number[s] = 0
    /\ \A s \in Seq(Nat) : Len(s) # 0 => Number[s] = Number[Front(s)] * Base + s[Len(s)]
<1> DEFINE D == Seq(Nat)
           size == [s \in D |-> Len(s)]
           before == [s \in D |-> IF Len(s) = 0 THEN s ELSE Front(s)]
           base == [s \in D |-> 0]
           step == [t \in D \X Nat |-> IF Len(t[1]) = 0 THEN 0 ELSE t[2] * Base + t[1][Len(t[1])]]
<1>0. \A s \in D : Len(s) # 0 => /\ Front(s) \in D /\ Len(Front(s)) = Len(s) - 1
                                /\ s[Len(s)] \in Nat
  <2> TAKE s \in D
  <2> HAVE Len(s) # 0
  <2>1. Len(s) \in Nat /\ \A i \in 1..Len(s) : s[i] \in Nat
    OBVIOUS
  <2>2. \A i \in 1..(Len(s) - 1) : s[i] \in Nat
    BY <2>1
  <2>3. 1 \in Int /\ Len(s) - 1 \in Int
    BY <2>1
  <2>4. /\ SubSeq(s, 1, Len(s) - 1) \in Seq(Nat)
        /\ Len(SubSeq(s, 1, Len(s) - 1)) = IF 1 <= Len(s) - 1 THEN (Len(s) - 1) - 1 + 1 ELSE 0
    BY <2>2, <2>3, SubSeqProperties
  <2>6. \A k \in Nat : \A l : k # 0 /\ l = (IF 1 <= k - 1 THEN (k - 1) - 1 + 1 ELSE 0) => l = k - 1
    OBVIOUS
  <2>5. Len(SubSeq(s, 1, Len(s) - 1)) = Len(s) - 1
    BY <2>1, <2>4, <2>6, Zenon
  <2> QED
    BY <2>1, <2>4, <2>5 DEF Front
<1>1. PICK f : Solution(f, D, Nat, size, before, base, step)
  <2>1. size \in [D -> Nat] /\ before \in [D -> D] /\ base \in [D -> Nat]
    BY <1>0
  <2>2. step \in [D \X Nat -> Nat]
    BY <1>0, BaseType
  <2>3. \A s \in D : size[s] # 0 => size[before[s]] < size[s]
    BY <1>0
  <2>4. Recursive(D, Nat, size, before, base, step)
    BY <2>1, <2>2, <2>3, Zenon DEF Recursive
  <2> HIDE DEF size, before, base, step, D
  <2> QED
    BY <2>4, Recursion
<1> f \in [D -> Nat]
  BY <1>1 DEF Solution
<1>2. ASSUME NEW s \in D
      PROVE  f[s] = IF Len(s) = 0 THEN 0 ELSE f[Front(s)] * Base + s[Len(s)]
  <2>1. Len(s) # 0 => before[s] = Front(s) /\ <<s, f[Front(s)]>> \in D \X Nat
    BY <1>0
  <2>2. Len(s) # 0 => f[s] = step[<<s, f[Front(s)]>>]
    BY <1>1, <2>1 DEF Solution
  <2>3. Len(s) = 0 => f[s] = 0
    BY <1>1 DEF Solution
  <2>4. Len(s) # 0 => step[<<s, f[Front(s)]>>] = f[Front(s)] * Base + s[Len(s)]
    BY <2>1
  <2> QED
    BY <2>2, <2>3, <2>4
<1>3. f = [s \in Seq(Nat) |-> IF Len(s) = 0 THEN 0 ELSE f[Front(s)] * Base + s[Len(s)]]
  BY <1>2
<1>4. Number = [s \in Seq(Nat) |->
                    IF Len(s) = 0 THEN 0 ELSE Number[Front(s)] * Base + s[Len(s)]]
  BY <1>3, Zenon DEF Number
<1>5. \A s \in D : Number[s] = IF Len(s) = 0 THEN 0 ELSE Number[Front(s)] * Base + s[Len(s)]
  BY <1>4
<1> DEFINE Wrong == {n \in Nat : \E s \in D : Len(s) = n /\ Number[s] \notin Nat}
<1>6. ASSUME Wrong # {} PROVE FALSE
  <2>1. PICK n \in Wrong : \A m \in Wrong : n <= m
    BY <1>6, Smallest
  <2>2. PICK s \in D : Len(s) = n /\ Number[s] \notin Nat
    OBVIOUS
  <2>3. Len(s) # 0
    BY <1>5, <2>2
  <2>4. Len(s) - 1 \in Nat /\ Len(s) - 1 \notin Wrong
    BY <2>1, <2>2, <2>3
  <2>5. Number[Front(s)] \in Nat
    BY <1>0, <2>3, <2>4
  <2>6. Number[s] = Number[Front(s)] * Base + s[Len(s)]
    BY <1>5, <2>3
  <2>7. Number[Front(s)] * Base \in Nat
    BY <2>5, BaseType
  <2>8. s[Len(s)] \in Nat
    BY <1>0, <2>3
  <2> QED
    BY <2>2, <2>6, <2>7, <2>8
<1>7. \A s \in D : Len(s) \in Nat
  OBVIOUS
<1> QED
  BY <1>5, <1>6, <1>7

\* A byte string is a sequence of numbers.
LEMMA ByteString ==
    ASSUME NEW s \in Seq(Byte)
    PROVE  s \in Seq(Nat)
<1>1. Byte \subseteq Nat
  BY BaseType DEF Byte
<1> QED
  BY <1>1, SeqMonotonic

\* Without the last element.
LEMMA FrontProperties ==
    ASSUME NEW S, NEW s \in Seq(S), Len(s) # 0
    PROVE  /\ Front(s) \in Seq(S) /\ Len(Front(s)) = Len(s) - 1 /\ s[Len(s)] \in S
           /\ \A i \in 1..(Len(s) - 1) : Front(s)[i] = s[i]
<1>1. Len(s) \in Nat /\ \A i \in 1..Len(s) : s[i] \in S
  OBVIOUS
<1>2. \A i \in 1..(Len(s) - 1) : s[i] \in S
  BY <1>1
<1>3. 1 \in Int /\ Len(s) - 1 \in Int
  BY <1>1
<1>4. /\ Front(s) \in Seq(S)
      /\ Len(Front(s)) = IF 1 <= Len(s) - 1 THEN (Len(s) - 1) - 1 + 1 ELSE 0
      /\ \A i \in 1..((Len(s) - 1) - 1 + 1) : Front(s)[i] = s[1 + i - 1]
  BY <1>2, <1>3, SubSeqProperties DEF Front
<1> HIDE DEF Front
<1>5. Len(Front(s)) = Len(s) - 1
  <2>1. \A k \in Nat : \A l : k # 0 /\ l = (IF 1 <= k - 1 THEN (k - 1) - 1 + 1 ELSE 0) => l = k - 1
    OBVIOUS
  <2> QED
    BY <1>1, <1>4, <2>1, Zenon
<1>6. ASSUME NEW i \in 1..(Len(s) - 1)
      PROVE  Front(s)[i] = s[i]
  <2>1. i \in 1..((Len(s) - 1) - 1 + 1) /\ 1 + i - 1 = i
    BY <1>1
  <2> QED
    BY <1>4, <2>1
<1> QED
  BY <1>1, <1>4, <1>5, <1>6

\* One more byte.
LEMMA NumberAppend ==
    ASSUME NEW s \in Seq(Nat), NEW x \in Nat
    PROVE  Number[Append(s, x)] = Number[s] * Base + x
<1> DEFINE t == Append(s, x)
<1>1. /\ t \in Seq(Nat) /\ Len(t) = Len(s) + 1 /\ Len(s) \in Nat
      /\ (\A i \in 1..Len(s) : t[i] = s[i]) /\ t[Len(s) + 1] = x
  BY AppendProperties
<1> HIDE DEF t
<1>2. Len(t) # 0 /\ Len(t) - 1 = Len(s)
  BY <1>1
<1>3. Front(t) \in Seq(Nat) /\ Len(Front(t)) = Len(s)
  BY <1>1, <1>2, FrontProperties
<1>4. \A i \in 1..Len(s) : Front(t)[i] = s[i]
  BY <1>1, <1>2, FrontProperties
<1>5. Front(t) = s
  BY <1>3, <1>4, SeqEqual
<1>6. Number[t] = Number[Front(t)] * Base + t[Len(t)]
  BY <1>1, <1>2, NumberDef
<1> QED
  BY <1>1, <1>5, <1>6 DEF t

\* SetBytes reads what Bytes wrote.
LEMMA NumberOfBytes ==
    ASSUME NEW n \in Nat
    PROVE  Number[Bytes[n]] = n
<1> DEFINE Wrong == {m \in Nat : Number[Bytes[m]] # m}
<1>1. ASSUME Wrong # {} PROVE FALSE
  <2>1. PICK m \in Wrong : \A k \in Wrong : m <= k
    BY <1>1, Smallest
  <2>2. Number[Bytes[0]] = 0
    BY BytesDef, NumberDef, EmptySeq
  <2>3. m \in Nat /\ m # 0
    BY <2>2
  <2>4. PICK q \in Nat, r \in Byte :
           q = m \div Base /\ r = m % Base /\ m = Base * q + r /\ q < m
    BY <2>3, Division
  <2>5. Bytes[m] = Append(Bytes[q], r)
    BY <2>3, <2>4, BytesDef
  <2>6. Number[Bytes[q]] = q
    BY <2>1, <2>3, <2>4
  <2>7. Bytes[q] \in Seq(Nat) /\ r \in Nat
    <3>1. Bytes[q] \in Seq(Nat)
      BY BytesDef, ByteString
    <3>2. r \in Nat
      BY BaseType DEF Byte
    <3> QED
      BY <3>1, <3>2
  <2>8. Number[Bytes[m]] = q * Base + r
    BY <2>5, <2>6, <2>7, NumberAppend
  <2>9. q * Base = Base * q
    BY BaseType
  <2> QED
    BY <2>4, <2>8, <2>9
<1> QED
  BY <1>1

\* A number below Base^k has at most k bytes.
LEMMA BytesLength ==
    ASSUME NEW n \in Nat, NEW k \in Nat, n < Power(Base, k)
    PROVE  Len(Bytes[n]) <= k
<1> DEFINE Wrong == {j \in Nat : \E m \in Nat : m < Power(Base, j) /\ ~(Len(Bytes[m]) <= j)}
<1>1. ASSUME Wrong # {} PROVE FALSE
  <2>1. PICK j \in Wrong : \A i \in Wrong : j <= i
    BY <1>1, Smallest
  <2>2. PICK m \in Nat : m < Power(Base, j) /\ ~(Len(Bytes[m]) <= j)
    OBVIOUS
  <2>3. Len(Bytes[0]) = 0
    BY BytesDef, EmptySeq
  <2>4. m # 0
    BY <2>2, <2>3
  <2>5. j # 0
    BY <2>2, <2>4, PowerDef, BaseType
  <2>6. PICK q \in Nat, r \in Byte : q = m \div Base /\ r = m % Base /\ m = Base * q + r
    BY Division
  <2>7. Bytes[m] = Append(Bytes[q], r) /\ Bytes[q] \in Seq(Byte)
    BY <2>4, <2>6, BytesDef
  <2>8. Len(Bytes[m]) = Len(Bytes[q]) + 1 /\ Len(Bytes[q]) \in Nat
    BY <2>7, AppendProperties
  <2>9. j - 1 \in Nat /\ j - 1 \notin Wrong
    BY <2>1, <2>5
  <2>10. Power(Base, (j - 1) + 1) = Base * Power(Base, j - 1) /\ Power(Base, j - 1) \in Nat
    BY <2>9, PowerDef, BaseType
  <2>11. (j - 1) + 1 = j
    OBVIOUS
  <2>12. q < Power(Base, j - 1)
    <3> DEFINE P == Power(Base, j - 1)
    <3>1. P \in Nat /\ m < Base * P /\ m >= Base * q
      BY <2>2, <2>6, <2>10, <2>11, BaseType DEF Byte
    <3> HIDE DEF P
    <3>2. \A x, y \in Nat : x >= y => Base * x >= Base * y
      BY BaseType
    <3>3. q >= P => Base * q >= Base * P
      BY <3>1, <3>2
    <3>4. Base * P \in Nat /\ Base * q \in Nat
      BY <3>1, BaseType
    <3>5. q < P
      BY <3>1, <3>3, <3>4
    <3> QED
      BY <3>5 DEF P
  <2>13. Len(Bytes[q]) <= j - 1
    BY <2>9, <2>12
  <2> QED
    BY <2>2, <2>8, <2>13
<1> QED
  BY <1>1

\* Zeros.
LEMMA NumberOfZeros ==
    ASSUME NEW z \in Seq(Nat), \A i \in 1..Len(z) : z[i] = 0
    PROVE  Number[z] = 0
<1> DEFINE Wrong == {n \in Nat : \E s \in Seq(Nat) : /\ Len(s) = n /\ Number[s] # 0
                                                     /\ \A i \in 1..Len(s) : s[i] = 0}
<1>1. ASSUME Wrong # {} PROVE FALSE
  <2>1. PICK n \in Wrong : \A m \in Wrong : n <= m
    BY <1>1, Smallest
  <2>2. PICK s \in Seq(Nat) : Len(s) = n /\ Number[s] # 0 /\ \A i \in 1..Len(s) : s[i] = 0
    OBVIOUS
  <2>3. n # 0
    BY <2>2, NumberDef
  <2>4. /\ Front(s) \in Seq(Nat) /\ Len(Front(s)) = n - 1
        /\ \A i \in 1..(n - 1) : Front(s)[i] = s[i]
    BY <2>2, <2>3, FrontProperties
  <2>5. \A i \in 1..Len(Front(s)) : Front(s)[i] = 0
    BY <2>2, <2>4
  <2>6. n - 1 \in Nat /\ n - 1 \notin Wrong
    BY <2>1, <2>3
  <2>7. Number[Front(s)] = 0
    BY <2>4, <2>5, <2>6
  <2>8. Number[s] = 0 * Base + s[n]
    BY <2>2, <2>3, <2>7, NumberDef
  <2>9. s[n] = 0
    BY <2>2, <2>3
  <2> QED
    BY <2>2, <2>8, <2>9, BaseType
<1>2. Len(z) \in Nat
  OBVIOUS
<1> QED
  BY <1>1, <1>2

\* Zeros in front change nothing.
LEMMA NumberOfPadded ==
    ASSUME NEW z \in Seq(Nat), \A i \in 1..Len(z) : z[i] = 0, NEW s \in Seq(Nat)
    PROVE  Number[z \o s] = Number[s]
<1> DEFINE Wrong == {n \in Nat : \E t \in Seq(Nat) : Len(t) = n /\ Number[z \o t] # Number[t]}
<1>1. ASSUME Wrong # {} PROVE FALSE
  <2>1. PICK n \in Wrong : \A m \in Wrong : n <= m
    BY <1>1, Smallest
  <2>2. PICK t \in Seq(Nat) : Len(t) = n /\ Number[z \o t] # Number[t]
    OBVIOUS
  <2> DEFINE w == z \o t
             u == Front(t)
  <2>3. /\ w \in Seq(Nat) /\ Len(w) = Len(z) + Len(t)
        /\ \A i \in 1..(Len(z) + Len(t)) : w[i] = IF i <= Len(z) THEN z[i] ELSE t[i - Len(z)]
    BY ConcatProperties, Zenon
  <2>4. Len(z) \in Nat /\ Len(t) \in Nat
    OBVIOUS
  <2>5. Number[w] # Number[t]
    BY <2>2
  <2> HIDE DEF w
  <2>6. n # 0
    <3>1. ASSUME n = 0 PROVE FALSE
      <4>1. \A i \in 1..Len(w) : w[i] = 0
        BY <2>2, <2>3, <2>4, <3>1
      <4>2. Number[w] = 0
        BY <2>3, <4>1, NumberOfZeros
      <4> QED
        BY <2>2, <2>5, <3>1, <4>2, NumberDef
    <3> QED
      BY <3>1
  <2>7. /\ u \in Seq(Nat) /\ Len(u) = n - 1 /\ t[n] \in Nat
        /\ \A i \in 1..(n - 1) : u[i] = t[i]
    BY <2>2, <2>6, FrontProperties
  <2> HIDE DEF u
  <2>8. Front(w) = z \o u
    <3> DEFINE x == z \o u
    <3>1. Len(w) # 0 /\ Len(w) - 1 = Len(z) + n - 1
      BY <2>2, <2>3, <2>4, <2>6
    <3>2. /\ Front(w) \in Seq(Nat) /\ Len(Front(w)) = Len(z) + n - 1
          /\ \A i \in 1..(Len(z) + n - 1) : Front(w)[i] = w[i]
      BY <2>3, <3>1, FrontProperties
    <3>3. /\ x \in Seq(Nat) /\ Len(x) = Len(z) + Len(u)
          /\ \A i \in 1..(Len(z) + Len(u)) : x[i] = IF i <= Len(z) THEN z[i] ELSE u[i - Len(z)]
      BY <2>7, ConcatProperties, Zenon
    <3> HIDE DEF x
    <3>4. Len(z) + Len(u) = Len(z) + n - 1
      BY <2>2, <2>4, <2>7
    <3>5. ASSUME NEW i \in 1..(Len(z) + n - 1)
          PROVE  Front(w)[i] = x[i]
      <4>1. i \in 1..(Len(z) + Len(t)) /\ (~(i <= Len(z)) => i - Len(z) \in 1..(n - 1))
        BY <2>2, <2>4, <2>6
      <4> QED
        BY <2>3, <2>7, <3>2, <3>3, <3>4, <4>1
    <3>6. Len(Front(w)) = Len(x)
      BY <3>2, <3>3, <3>4
    <3>7. Front(w) = x
      BY <3>2, <3>3, <3>5, <3>6, SeqEqual
    <3> QED
      BY <3>7 DEF x
  <2>9. n - 1 \in Nat /\ n - 1 \notin Wrong
    BY <2>1, <2>6
  <2>10. Number[z \o u] = Number[u]
    BY <2>7, <2>9
  <2>11. Len(w) # 0
    BY <2>2, <2>3, <2>4, <2>6
  <2>12. Number[w] = Number[Front(w)] * Base + w[Len(w)]
    BY <2>3, <2>11, NumberDef
  <2>13. w[Len(w)] = t[n]
    <3>1. /\ Len(w) \in 1..(Len(z) + Len(t)) /\ ~(Len(w) <= Len(z))
          /\ Len(w) - Len(z) = n
      BY <2>2, <2>3, <2>4, <2>6
    <3> QED
      BY <2>3, <3>1
  <2>14. Number[t] = Number[u] * Base + t[n]
    BY <2>2, <2>6, NumberDef DEF u
  <2> QED
    BY <2>5, <2>8, <2>10, <2>12, <2>13, <2>14
<1>2. Len(s) \in Nat
  OBVIOUS
<1> QED
  BY <1>1, <1>2

\* A string of at most a word, filled up to one.
LEMMA PadProperties ==
    ASSUME NEW s \in Seq(Byte)
    PROVE  /\ LeftPad(s) \in Seq(Byte)
           /\ Len(s) <= Word => Len(LeftPad(s)) = Word
           /\ Len(LeftPad(s)) >= Word
           /\ Number[LeftPad(s)] = Number[s]
<1> DEFINE k == IF Len(s) < Word THEN Word - Len(s) ELSE 0
           z == [i \in 1..k |-> 0]
<1>1. Len(s) \in Nat /\ k \in Nat
  BY BaseType
<1>2. k + Len(s) >= Word /\ (Len(s) <= Word => k + Len(s) = Word)
  BY <1>1, BaseType
<1>3. 0 \in Byte /\ Byte \subseteq Nat
  BY BaseType DEF Byte
<1> HIDE DEF k
<1>4. z \in Seq(Byte) /\ Len(z) = k /\ \A i \in 1..Len(z) : z[i] = 0
  BY <1>1, <1>3
<1>5. LeftPad(s) = z \o s
  BY Zenon DEF LeftPad, k
<1> HIDE DEF z
<1>6. z \o s \in Seq(Byte) /\ Len(z \o s) = Len(z) + Len(s)
  BY <1>4, ConcatProperties, Zenon
<1>7. z \in Seq(Nat) /\ s \in Seq(Nat)
  BY <1>4, ByteString
<1>8. Number[z \o s] = Number[s]
  BY <1>4, <1>7, NumberOfPadded
<1>9. Len(z \o s) = k + Len(s)
  BY <1>4, <1>6
<1> QED
  BY <1>2, <1>5, <1>6, <1>8, <1>9

\* What PaddedBigBytes makes of a number of one word.
LEMMA PaddedNumber ==
    ASSUME NEW n \in Nat, n < Power(Base, Word)
    PROVE  /\ LeftPad(Bytes[n]) \in Seq(Byte)
           /\ Len(LeftPad(Bytes[n])) = Word
           /\ Number[LeftPad(Bytes[n])] = n
<1>1. Bytes[n] \in Seq(Byte)
  BY BytesDef
<1>2. Len(Bytes[n]) <= Word
  BY BytesLength, BaseType
<1>3. Number[Bytes[n]] = n
  BY NumberOfBytes
<1> QED
  BY <1>1, <1>2, <1>3, PadProperties

\* A string put together of three, and of five.
Joined(w, a, b, c) ==
    a \in Seq(Byte) /\ b \in Seq(Byte) /\ c \in Seq(Byte) /\ w = (a \o b) \o c

JoinedFive(w, a, b, c, d, e) ==
    /\ a \in Seq(Byte) /\ b \in Seq(Byte) /\ c \in Seq(Byte)
    /\ d \in Seq(Byte) /\ e \in Seq(Byte)
    /\ w = (((a \o b) \o c) \o d) \o e

\* Their slices.
CutIn(w, a, b, c) ==
    /\ w \in Seq(Byte)
    /\ Len(w) = Len(a) + Len(b) + Len(c)
    /\ Slice(w, 0, Len(a)) = a
    /\ Slice(w, Len(a), Len(a) + Len(b)) = b
    /\ Slice(w, Len(a) + Len(b), Len(a) + Len(b) + Len(c)) = c

CutInFive(w, a, b, c, d, e) ==
    /\ w \in Seq(Byte)
    /\ Len(w) = Len(a) + Len(b) + Len(c) + Len(d) + Len(e)
    /\ Slice(w, 0, Len(a)) = a
    /\ Slice(w, Len(a), Len(a) + Len(b)) = b
    /\ Slice(w, Len(a) + Len(b), Len(a) + Len(b) + Len(c)) = c
    /\ Slice(w, Len(a) + Len(b) + Len(c), Len(a) + Len(b) + Len(c) + Len(d)) = d
    /\ Slice(w, Len(a) + Len(b) + Len(c) + Len(d),
             Len(a) + Len(b) + Len(c) + Len(d) + Len(e)) = e

\* A slice is what stands at its place.
LEMMA SliceIs ==
    ASSUME NEW w \in Seq(Byte), NEW m \in Nat, NEW t \in Seq(Byte), m + Len(t) <= Len(w),
           \A i \in 1..Len(t) : w[m + i] = t[i]
    PROVE  Slice(w, m, m + Len(t)) = t
<1> DEFINE u == SubSeq(w, m + 1, m + Len(t))
<1>1. Len(t) \in Nat /\ Len(w) \in Nat /\ m + 1 \in Int /\ m + Len(t) \in Int
  OBVIOUS
<1>2. \A i \in 1..Len(w) : w[i] \in Byte
  BY ElementOfSeq
<1>3. \A i \in (m + 1)..(m + Len(t)) : w[i] \in Byte
  BY <1>1, <1>2
<1>4. /\ u \in Seq(Byte)
      /\ Len(u) = IF m + 1 <= m + Len(t) THEN (m + Len(t)) - (m + 1) + 1 ELSE 0
      /\ \A i \in 1..((m + Len(t)) - (m + 1) + 1) : u[i] = w[(m + 1) + i - 1]
  BY <1>1, <1>3, SubSeqProperties
<1> HIDE DEF u
<1>5. Len(u) = Len(t)
  <2>1. \A k \in Nat : \A l : l = (IF m + 1 <= m + k THEN (m + k) - (m + 1) + 1 ELSE 0) => l = k
    OBVIOUS
  <2> QED
    BY <1>1, <1>4, <2>1, Zenon
<1>6. ASSUME NEW i \in 1..Len(t)
      PROVE  u[i] = t[i]
  <2>1. i \in 1..((m + Len(t)) - (m + 1) + 1) /\ (m + 1) + i - 1 = m + i
    BY <1>1
  <2> QED
    BY <1>4, <2>1
<1>7. u = t
  BY <1>4, <1>5, <1>6, SeqEqual
<1> QED
  BY <1>7 DEF Slice, u

\* Slices of two strings that were joined, with anything behind them.
LEMMA Cut ==
    ASSUME NEW w, NEW a, NEW b, NEW c, Joined(w, a, b, c)
    PROVE  CutIn(w, a, b, c)
<1> DEFINE x == a \o b
<1>0. a \in Seq(Byte) /\ b \in Seq(Byte) /\ c \in Seq(Byte) /\ w = x \o c
  BY DEF Joined
<1>1. Len(a) \in Nat /\ Len(b) \in Nat /\ Len(c) \in Nat
  BY <1>0
<1>2. /\ x \in Seq(Byte) /\ Len(x) = Len(a) + Len(b)
      /\ \A i \in 1..(Len(a) + Len(b)) : x[i] = IF i <= Len(a) THEN a[i] ELSE b[i - Len(a)]
  BY <1>0, ConcatProperties, Zenon
<1> HIDE DEF x
<1>3. /\ w \in Seq(Byte) /\ Len(w) = Len(x) + Len(c)
      /\ \A i \in 1..(Len(x) + Len(c)) : w[i] = IF i <= Len(x) THEN x[i] ELSE c[i - Len(x)]
  <2>1. x \in Seq(Byte) /\ c \in Seq(Byte)
    BY <1>0, <1>2
  <2>2. /\ x \o c \in Seq(Byte) /\ Len(x \o c) = Len(x) + Len(c)
        /\ \A i \in 1..(Len(x) + Len(c)) :
              (x \o c)[i] = IF i <= Len(x) THEN x[i] ELSE c[i - Len(x)]
    BY <2>1, ConcatProperties, Zenon
  <2> QED
    BY <1>0, <2>2, Zenon
<1>6. Len(w) = Len(a) + Len(b) + Len(c)
  BY <1>1, <1>2, <1>3
<1>7. Slice(w, 0, Len(a)) = a
  <2>1. \A i \in 1..Len(a) : w[0 + i] = a[i]
    BY <1>1, <1>2, <1>3
  <2>2. 0 + Len(a) <= Len(w) /\ 0 + Len(a) = Len(a)
    BY <1>1, <1>6
  <2>3. Slice(w, 0, 0 + Len(a)) = a
    BY <1>0, <1>3, <2>1, <2>2, SliceIs
  <2> QED
    BY <2>2, <2>3
<1>8. Slice(w, Len(a), Len(a) + Len(b)) = b
  <2>1. ASSUME NEW i \in 1..Len(b)
        PROVE  w[Len(a) + i] = b[i]
    <3>1. /\ Len(a) + i \in 1..(Len(a) + Len(b)) /\ Len(a) + i <= Len(x)
          /\ ~(Len(a) + i <= Len(a)) /\ (Len(a) + i) - Len(a) = i
          /\ Len(a) + i \in 1..(Len(x) + Len(c))
      BY <1>1, <1>2
    <3> QED
      BY <1>2, <1>3, <3>1
  <2>2. Len(a) + Len(b) <= Len(w)
    BY <1>1, <1>6
  <2> QED
    BY <1>0, <1>1, <1>3, <2>1, <2>2, SliceIs
<1>9. Slice(w, Len(a) + Len(b), Len(a) + Len(b) + Len(c)) = c
  <2>1. ASSUME NEW i \in 1..Len(c)
        PROVE  w[Len(a) + Len(b) + i] = c[i]
    <3>1. /\ Len(x) + i \in 1..(Len(x) + Len(c))
          /\ ~(Len(x) + i <= Len(x)) /\ (Len(x) + i) - Len(x) = i
      BY <1>1, <1>2
    <3>2. w[Len(x) + i] = c[i]
      BY <1>3, <3>1
    <3> QED
      BY <1>2, <3>2
  <2>2. Len(a) + Len(b) \in Nat /\ Len(a) + Len(b) + Len(c) <= Len(w)
    BY <1>1, <1>6
  <2> QED
    BY <1>0, <1>3, <2>1, <2>2, SliceIs
<1> QED
  BY <1>3, <1>6, <1>7, <1>8, <1>9 DEF CutIn

\* Joining byte strings is associative.
LEMMA Associative ==
    \A s, t, u \in Seq(Byte) : (s \o t) \o u = s \o (t \o u)
  BY ConcatAssociative

\* The same of the five parts of a token deposit.
LEMMA CutFive ==
    ASSUME NEW w, NEW a, NEW b, NEW c, NEW d, NEW e, JoinedFive(w, a, b, c, d, e)
    PROVE  CutInFive(w, a, b, c, d, e)
<1> DEFINE ab == a \o b
           abc == ab \o c
           de == d \o e
           cde == c \o de
<1>0. /\ a \in Seq(Byte) /\ b \in Seq(Byte) /\ c \in Seq(Byte)
      /\ d \in Seq(Byte) /\ e \in Seq(Byte) /\ w = (abc \o d) \o e
  BY DEF JoinedFive
<1>1. ab \in Seq(Byte) /\ Len(ab) = Len(a) + Len(b)
  BY <1>0, ConcatProperties, Zenon
<1>2. de \in Seq(Byte)
  BY <1>0, ConcatProperties, Zenon
<1>3. cde \in Seq(Byte)
  BY <1>0, <1>2, ConcatProperties, Zenon
<1>4. Joined(abc, a, b, c)
  BY <1>0 DEF Joined
<1>5. abc \in Seq(Byte) /\ Len(abc) = Len(a) + Len(b) + Len(c)
  <2> HIDE DEF abc
  <2> QED
    BY <1>4, Cut DEF CutIn
<1>6. Joined(w, abc, d, e)
  BY <1>0, <1>5 DEF Joined
<1>7. w = abc \o de
  <2> HIDE DEF abc
  <2> QED
    BY <1>0, <1>5, Associative
<1>8. Joined(w, ab, c, de)
  BY <1>0, <1>1, <1>2, <1>7 DEF Joined
<1>9. (ab \o c) \o de = ab \o cde
  <2> HIDE DEF ab, de
  <2> QED
    BY <1>0, <1>1, <1>2, Associative
<1>10. Joined(w, a, b, cde)
  BY <1>0, <1>3, <1>7, <1>9 DEF Joined
<1> HIDE DEF ab, abc, de, cde
<1>11. CutIn(w, abc, d, e) /\ CutIn(w, ab, c, de) /\ CutIn(w, a, b, cde)
  BY <1>6, <1>8, <1>10, Cut
<1> QED
  BY <1>1, <1>5, <1>11 DEF CutIn, CutInFive

-------------------------------------------------------------------------------
(* What is encoded is decoded                                              *)

\* A byte string as long as a word can tell.
Sized(s) == s \in Seq(Byte) /\ Len(s) < Power(Base, Word)

\* The lengths of what a depositor gives fit in a word.
LEMMA InputSized == \A s \in Recipients \cup Metadata : Sized(s)
  BY TransferAssumption DEF Sized, Byte

\* A length in front of a string.
LEMMA LengthRead ==
    ASSUME NEW s, Sized(s)
    PROVE  /\ Length(s) \in Seq(Byte) /\ Len(Length(s)) = Word
           /\ Number[Length(s)] = Len(s) /\ Len(s) \in Nat
<1>1. Len(s) \in Nat /\ Len(s) < Power(Base, Word)
  BY DEF Sized
<1> QED
  BY <1>1, PaddedNumber DEF Length

\* The layout of calldata and proposals for fungible tokens, and what is read
\* off it.
FungibleLayout(w, a, r) ==
    /\ a \in Seq(Byte) /\ Len(a) <= Word /\ Sized(r)
    /\ w = LeftPad(a) \o Length(r) \o r

FungibleReads(w, a, r) ==
    /\ w \in Seq(Byte) /\ Len(w) = 2 * Word + Len(r) /\ Len(r) \in Nat
    /\ Slice(w, 0, Word) = LeftPad(a)
    /\ LeftPad(a) \in Seq(Byte) /\ Len(LeftPad(a)) = Word
    /\ Number[LeftPad(a)] = Number[a]
    /\ Number[Slice(w, Word, Word + Word)] = Len(r)
    /\ Slice(w, 2 * Word, 2 * Word + Len(r)) = r

\* What an ERC20 deposit holds is found at its place.
LEMMA FungibleRead ==
    ASSUME NEW w, NEW a, NEW r, FungibleLayout(w, a, r)
    PROVE  FungibleReads(w, a, r)
<1>0. a \in Seq(Byte) /\ Len(a) <= Word /\ Sized(r) /\ w = LeftPad(a) \o Length(r) \o r
  BY DEF FungibleLayout
<1> DEFINE p == LeftPad(a)
           l == Length(r)
<1>1. p \in Seq(Byte) /\ Len(p) = Word /\ Number[p] = Number[a]
  BY <1>0, PadProperties
<1>2. l \in Seq(Byte) /\ Len(l) = Word /\ Number[l] = Len(r) /\ Len(r) \in Nat
  BY <1>0, LengthRead
<1>3. r \in Seq(Byte)
  BY <1>0 DEF Sized
<1> HIDE DEF p, l
<1>4. Joined(w, p, l, r)
  BY <1>0, <1>1, <1>2, <1>3 DEF Joined, p, l
<1>5. CutIn(w, p, l, r)
  BY <1>4, Cut
<1>6. Word + Word = 2 * Word
  BY BaseType
<1> QED
  BY <1>1, <1>2, <1>5, <1>6 DEF p, CutIn, FungibleReads

\* The same for other tokens.
TokenLayout(w, a, r, m) ==
    /\ a \in Seq(Byte) /\ Len(a) <= Word /\ Sized(r) /\ Sized(m)
    /\ w = LeftPad(a) \o Length(r) \o r \o Length(m) \o m

TokenReads(w, a, r, m) ==
    /\ w \in Seq(Byte) /\ Len(w) = 2 * Word + Len(r) + Word + Len(m)
    /\ Len(r) \in Nat /\ Len(m) \in Nat
    /\ Slice(w, 0, Word) = LeftPad(a)
    /\ LeftPad(a) \in Seq(Byte) /\ Len(LeftPad(a)) = Word
    /\ Number[LeftPad(a)] = Number[a]
    /\ Number[Slice(w, Word, Word + Word)] = Len(r)
    /\ Slice(w, 2 * Word, 2 * Word + Len(r)) = r
    /\ Number[Slice(w, 2 * Word + Len(r), 2 * Word + Len(r) + Word)] = Len(m)
    /\ Slice(w, 2 * Word + Len(r) + Word, 2 * Word + Len(r) + Word + Len(m)) = m

\* What an ERC721 deposit holds is found at its place.
LEMMA TokenRead ==
    ASSUME NEW w, NEW a, NEW r, NEW m, TokenLayout(w, a, r, m)
    PROVE  TokenReads(w, a, r, m)
<1>0. /\ a \in Seq(Byte) /\ Len(a) <= Word /\ Sized(r) /\ Sized(m)
      /\ w = LeftPad(a) \o Length(r) \o r \o Length(m) \o m
  BY DEF TokenLayout
<1> DEFINE p == LeftPad(a)
           l == Length(r)
           k == Length(m)
<1>1. p \in Seq(Byte) /\ Len(p) = Word /\ Number[p] = Number[a]
  BY <1>0, PadProperties
<1>2. l \in Seq(Byte) /\ Len(l) = Word /\ Number[l] = Len(r) /\ Len(r) \in Nat
  BY <1>0, LengthRead
<1>3. k \in Seq(Byte) /\ Len(k) = Word /\ Number[k] = Len(m) /\ Len(m) \in Nat
  BY <1>0, LengthRead
<1>4. r \in Seq(Byte) /\ m \in Seq(Byte)
  BY <1>0 DEF Sized
<1> HIDE DEF p, l, k
<1>5. JoinedFive(w, p, l, r, k, m)
  BY <1>0, <1>1, <1>2, <1>3, <1>4 DEF JoinedFive, p, l, k
<1>6. CutInFive(w, p, l, r, k, m)
  BY <1>5, CutFive
<1>7. Word + Word = 2 * Word
  BY BaseType
<1> QED
  BY <1>1, <1>2, <1>3, <1>6, <1>7 DEF p, CutInFive, TokenReads

\* The same for generic data.
LEMMA GenericRead ==
    ASSUME NEW m, Sized(m), NEW w, w = Length(m) \o m
    PROVE  /\ w \in Seq(Byte) /\ Len(w) = Word + Len(m)
           /\ Number[Slice(w, 0, 0 + Word)] = Len(m)
           /\ Slice(w, Word, Word + Len(m)) = m
<1> DEFINE k == Length(m)
<1>1. k \in Seq(Byte) /\ Len(k) = Word /\ Number[k] = Len(m) /\ Len(m) \in Nat
  BY LengthRead
<1>2. m \in Seq(Byte)
  BY DEF Sized
<1> HIDE DEF k
<1>4. <<>> \in Seq(Byte) /\ Len(<<>>) = 0
  BY EmptySeq
<1>31. <<>> \o k = k
  BY <1>1, ConcatEmptySeq, Zenon
<1>3. Joined(w, <<>>, k, m)
  BY <1>1, <1>2, <1>31, <1>4 DEF Joined, k
<1>5. CutIn(w, <<>>, k, m)
  BY <1>3, Cut
<1>6. 0 + Word = Word
  BY BaseType
<1> QED
  BY <1>1, <1>4, <1>5, <1>6 DEF CutIn

-------------------------------------------------------------------------------
(* Handlers and processors                                                 *)

\* The number of parts that a handler puts in a message.
Shape(h, p) ==
    /\ h = "fungible" => p = <<p[1], p[2]>>
    /\ h = "nonFungible" => p = <<p[1], p[2], p[3]>>
    /\ h = "generic" => p = <<p[1]>>

\* A message of the handler h.
Message(h, m) == m = Made(m.type, m.payload) /\ m.type \in {"", h} /\ Shape(h, m.payload)

\* What an event handler returns for any calldata: only one of them panics.
LEMMA HandlerShape ==
    ASSUME NEW h \in Handlers, NEW cd, NEW tail, NEW response,
           NEW e, e = EventHandler(h, cd, tail, response)
    PROVE  /\ e.result \in {"ok", "refused", "panic"}
           /\ e.result = "ok" => h \in Kinds /\ Message(h, e)
           /\ e.result = "panic" => h = "nonFungible"
<1> USE DEF Made, Refused, Panic, Message, Shape, Kinds
<1>1. CASE h = "fungible"
  BY <1>1 DEF EventHandler, Erc20EventHandler
<1>2. CASE h = "nonFungible"
  <2>1. e = Erc721EventHandler(cd, tail, response)
    BY <1>2 DEF EventHandler
  <2>2. \/ e = Refused \/ e = Panic
        \/ \E a, b, c : e = Made("nonFungible", <<a, b, c>>)
    BY <2>1, Zenon DEF Erc721EventHandler
  <2>3. CASE e = Refused \/ e = Panic
    <3>1. e.result \in {"refused", "panic"}
      BY <2>3
    <3> QED
      BY <1>2, <3>1
  <2>4. ASSUME NEW a, NEW b, NEW c, e = Made("nonFungible", <<a, b, c>>)
        PROVE  e.result = "ok" /\ Message("nonFungible", e)
    <3>1. e.result = "ok" /\ e.type = "nonFungible" /\ e.payload = <<a, b, c>>
      BY <2>4
    <3>2. e.payload = <<e.payload[1], e.payload[2], e.payload[3]>>
      BY <3>1
    <3>3. e = Made(e.type, e.payload)
      BY <2>4, <3>1
    <3> QED
      BY <3>1, <3>2, <3>3
  <2> QED
    BY <1>2, <2>2, <2>3, <2>4
<1>3. CASE h = "generic"
  BY <1>3 DEF EventHandler, GenericEventHandler
<1>4. CASE h = "none"
  BY <1>4 DEF EventHandler
<1> QED
  BY <1>1, <1>2, <1>3, <1>4 DEF Handlers

\* What is left of an amount.
AfterFee(v, response) == IF response = <<>> THEN v ELSE Number[response]

FungibleResult(e, v, r, response) ==
    \/ e = Refused
    \/ \E a \in Seq(Byte) : /\ Len(a) <= Word /\ Number[a] = AfterFee(v, response)
                            /\ e = Made("fungible", <<a, r>>)

\* The amount and the recipient of a deposit; a fee is half of the amount.
LEMMA FungibleHandled ==
    ASSUME NEW v \in Values, NEW r \in Recipients, NEW tail, NEW cd,
           NEW response \in {<<>>, LeftPad(Bytes[v \div 2])},
           cd = ConstructErc20DepositData(r, v)
    PROVE  FungibleResult(Erc20EventHandler(cd, tail, response), v, r, response)
<1> USE DEF FungibleResult
<1>1. v \in Nat /\ v < Power(Base, Word) /\ v \div 2 \in Nat /\ v \div 2 <= v
  BY TransferAssumption
<1>2. Power(Base, Word) \in Nat
  BY PowerDef, BaseType
<1>3. Bytes[v] \in Seq(Byte) /\ Len(Bytes[v]) <= Word /\ Number[Bytes[v]] = v
  BY <1>1, BytesDef, BytesLength, NumberOfBytes, BaseType
<1>4. Sized(r)
  BY InputSized
<1>5. FungibleLayout(cd, Bytes[v], r)
  BY <1>3, <1>4 DEF ConstructErc20DepositData, FungibleLayout
<1>6. /\ Len(cd) = 2 * Word + Len(r)
      /\ Slice(cd, 0, Word) = LeftPad(Bytes[v])
      /\ Number[LeftPad(Bytes[v])] = v
      /\ Slice(cd, 2 * Word, 2 * Word + Len(r)) = r
  BY <1>3, <1>5, FungibleRead DEF FungibleReads
<1>7. LeftPad(Bytes[v]) \in Seq(Byte) /\ Len(LeftPad(Bytes[v])) = Word
  BY <1>1, PaddedNumber
<1>8. v \div 2 < Power(Base, Word)
  BY <1>1, <1>2
<1>9. CASE response = <<>>
  <2>1. Len(response) # Word
    BY <1>9, BaseType
  <2>2. \/ Erc20EventHandler(cd, tail, response) = Refused
        \/ Erc20EventHandler(cd, tail, response) = Made("fungible", <<LeftPad(Bytes[v]), r>>)
    BY <1>6, <2>1 DEF Erc20EventHandler
  <2>3. AfterFee(v, response) = v
    BY <1>9 DEF AfterFee
  <2>4. Len(LeftPad(Bytes[v])) <= Word
    BY <1>7, BaseType
  <2> QED
    BY <1>6, <1>7, <2>2, <2>3, <2>4
<1>10. CASE response = LeftPad(Bytes[v \div 2])
  <2>1. response \in Seq(Byte) /\ Len(response) = Word
    BY <1>1, <1>8, <1>10, PaddedNumber
  <2>2. response # <<>>
    BY <2>1, BaseType
  <2>3. \/ Erc20EventHandler(cd, tail, response) = Refused
        \/ Erc20EventHandler(cd, tail, response) = Made("fungible", <<response, r>>)
    BY <1>6, <2>1 DEF Erc20EventHandler
  <2>4. AfterFee(v, response) = Number[response]
    BY <2>2 DEF AfterFee
  <2>5. Len(response) <= Word
    BY <2>1, BaseType
  <2> QED
    BY <2>1, <2>3, <2>4, <2>5
<1> QED
  BY <1>9, <1>10

\* A token deposit that the constructors made is read back and never panics.
LEMMA TokenHandled ==
    ASSUME NEW v \in Values, NEW r \in Recipients, NEW m \in Metadata, NEW response,
           NEW cd, cd = ConstructErc721DepositData(r, v, m)
    PROVE  /\ Erc721EventHandler(cd, <<>>, response) =
                 Made("nonFungible", <<LeftPad(Bytes[v]), r, m>>)
           /\ LeftPad(Bytes[v]) \in Seq(Byte) /\ Len(LeftPad(Bytes[v])) <= Word
           /\ Number[LeftPad(Bytes[v])] = v
<1>1. v \in Nat /\ v < Power(Base, Word)
  BY TransferAssumption
<1>3. Bytes[v] \in Seq(Byte) /\ Len(Bytes[v]) <= Word /\ Number[Bytes[v]] = v
  BY <1>1, BytesDef, BytesLength, NumberOfBytes, BaseType
<1>4. Sized(r) /\ Sized(m)
  BY InputSized
<1>5. TokenLayout(cd, Bytes[v], r, m)
  BY <1>3, <1>4 DEF ConstructErc721DepositData, TokenLayout
<1>6. /\ cd \in Seq(Byte) /\ Len(cd) = 2 * Word + Len(r) + Word + Len(m)
      /\ Slice(cd, 0, Word) = LeftPad(Bytes[v])
      /\ Number[Slice(cd, Word, Word + Word)] = Len(r)
      /\ Slice(cd, 2 * Word, 2 * Word + Len(r)) = r
      /\ Number[Slice(cd, 2 * Word + Len(r), 2 * Word + Len(r) + Word)] = Len(m)
      /\ Slice(cd, 2 * Word + Len(r) + Word, 2 * Word + Len(r) + Word + Len(m)) = m
  BY <1>5, TokenRead DEF TokenReads
<1>7. Word + Word = 2 * Word
  BY BaseType
<1>8. cd \o <<>> = cd
  BY <1>6, ConcatEmptySeq
<1>9. Len(r) \in Nat /\ Len(m) \in Nat
  BY <1>4 DEF Sized
<1>10. LeftPad(Bytes[v]) \in Seq(Byte) /\ Len(LeftPad(Bytes[v])) = Word
       /\ Number[LeftPad(Bytes[v])] = v
  BY <1>1, PaddedNumber
<1>11. Erc721EventHandler(cd, <<>>, response) = Made("nonFungible", <<LeftPad(Bytes[v]), r, m>>)
  <2>1. ~(Len(cd) < 2 * Word) /\ ~(2 * Word + Len(r) + Word > Len(cd))
        /\ ~(2 * Word + Len(r) + Word + Len(m) > Len(cd))
    BY <1>6, <1>9, BaseType
  <2> QED
    BY <1>6, <1>7, <1>8, <2>1 DEF Erc721EventHandler
<1> QED
  BY <1>10, <1>11, BaseType

\* GenericEventHandler on calldata of the constructor.
LEMMA GenericHandled ==
    ASSUME NEW m \in Metadata, NEW tail, NEW response,
           NEW cd, cd = ConstructGenericDepositData(m)
    PROVE  GenericEventHandler(cd, tail, response) = Made("generic", <<m>>)
<1>1. Sized(m)
  BY InputSized
<1>2. Len(cd) = Word + Len(m) /\ Slice(cd, Word, Word + Len(m)) = m
  BY <1>1, GenericRead DEF ConstructGenericDepositData
<1>3. Len(m) \in Nat
  BY <1>1 DEF Sized
<1> QED
  BY <1>2, <1>3, BaseType DEF GenericEventHandler

\* Converting rewrites the first part of a message.
LEMMA AdjustShape ==
    ASSUME NEW h \in Kinds, NEW m, Message(h, m), NEW from, NEW to,
           NEW n, n = Adjust(m, from, to)
    PROVE  /\ Message(h, n) /\ n.result = "ok" /\ n.type = m.type
           /\ from = to => n = m
           /\ from # to => n.payload[1] = Bytes[Convert(Number[m.payload[1]], from, to)]
           /\ h # "generic" => n.payload[2] = m.payload[2]
           /\ h = "nonFungible" => n.payload[3] = m.payload[3]
<1> DEFINE x == Bytes[Convert(Number[m.payload[1]], from, to)]
<1>1. CASE from = to
  <2>1. n = m
    BY <1>1 DEF Adjust
  <2>2. m = [result |-> "ok", type |-> m.type, payload |-> m.payload]
    BY DEF Message, Made
  <2>3. m.result = "ok"
    BY <2>2
  <2> QED
    BY <1>1, <2>1, <2>3
<1>2. CASE from # to
  <2>1. m = [result |-> "ok", type |-> m.type, payload |-> m.payload]
    BY DEF Message, Made
  <2>2. n = [m EXCEPT !.payload[1] = x]
    BY <1>2 DEF Adjust
  <2> HIDE DEF x
  <2>3. n = [result |-> "ok", type |-> m.type, payload |-> [m.payload EXCEPT ![1] = x]]
    BY <2>1, <2>2
  <2>4. CASE h = "fungible"
    <3>1. m.payload = <<m.payload[1], m.payload[2]>>
      BY <2>4 DEF Message, Shape
    <3>2. n.payload = <<x, m.payload[2]>>
      BY <2>3, <3>1
    <3>3. n.result = "ok" /\ n.type = m.type /\ n.payload[1] = x
      BY <2>3, <3>2
    <3>4. n = Made(n.type, n.payload)
      BY <2>3, <3>3 DEF Made
    <3>5. Shape(h, n.payload)
      BY <2>4, <3>2 DEF Shape
    <3>6. m.type \in {"", h}
      BY DEF Message
    <3>7. Message(h, n)
      BY <3>3, <3>4, <3>5, <3>6 DEF Message
    <3> QED
      BY <1>2, <2>4, <3>2, <3>3, <3>7 DEF x
  <2>5. CASE h = "nonFungible"
    <3>1. m.payload = <<m.payload[1], m.payload[2], m.payload[3]>>
      BY <2>5 DEF Message, Shape
    <3>2. n.payload = <<x, m.payload[2], m.payload[3]>>
      BY <2>3, <3>1
    <3>3. n.result = "ok" /\ n.type = m.type /\ n.payload[1] = x
      BY <2>3, <3>2
    <3>4. n = Made(n.type, n.payload)
      BY <2>3, <3>3 DEF Made
    <3>5. Shape(h, n.payload)
      BY <2>5, <3>2 DEF Shape
    <3>6. m.type \in {"", h}
      BY DEF Message
    <3>7. Message(h, n)
      BY <3>3, <3>4, <3>5, <3>6 DEF Message
    <3> QED
      BY <1>2, <2>5, <3>2, <3>3, <3>7 DEF x
  <2>6. CASE h = "generic"
    <3>1. m.payload = <<m.payload[1]>>
      BY <2>6 DEF Message, Shape
    <3>2. n.payload = <<x>>
      BY <2>3, <3>1
    <3>3. n.result = "ok" /\ n.type = m.type /\ n.payload[1] = x
      BY <2>3, <3>2
    <3>4. n = Made(n.type, n.payload)
      BY <2>3, <3>3 DEF Made
    <3>5. Shape(h, n.payload)
      BY <2>6, <3>2 DEF Shape
    <3>6. m.type \in {"", h}
      BY DEF Message
    <3>7. Message(h, n)
      BY <3>3, <3>4, <3>5, <3>6 DEF Message
    <3> QED
      BY <1>2, <2>6, <3>2, <3>3, <3>7 DEF x
  <2> QED
    BY <2>4, <2>5, <2>6 DEF Kinds
<1> QED
  BY <1>1, <1>2

\* The floor that Convert takes, and the word it fits.
Within(S, from, to, R) ==
    /\ R * Power(Ten, from) <= S * Power(Ten, to)
    /\ S * Power(Ten, to) < (R + 1) * Power(Ten, from)
    /\ S * Power(Ten, to) < Power(Base, Word) * Power(Ten, from) => R < Power(Base, Word)

\* Both conversions are within one unit of the exact amount.
LEMMA ConvertWithin ==
    ASSUME NEW S \in Nat, NEW from \in Nat, NEW to \in Nat,
           NEW R, R = Convert(S, from, to)
    PROVE  R \in Nat /\ (from = to => R = S) /\ Within(S, from, to, R)
<1> USE DEF Within
<1>0. Ten \in Nat \ {0}
  BY TransferAssumption
<1> DEFINE F == Power(Ten, from)
           T == Power(Ten, to)
           B == Power(Base, Word)
<1>1. F \in Nat \ {0} /\ T \in Nat \ {0} /\ B \in Nat
  BY <1>0, PowerPositive, PowerDef, BaseType
<1>2. \A x, y, z \in Nat : x < y /\ z # 0 => x * z < y * z
  OBVIOUS
<1>3. \A x, y, z \in Nat : x * z < y * z => x < y
  OBVIOUS
<1>4. CASE from > to
  <2> DEFINE K == Power(Ten, from - to)
  <2>1. from - to \in Nat /\ (from - to) + to = from
    BY <1>4
  <2>2. K \in Nat \ {0}
    BY <1>0, <2>1, PowerPositive
  <2>3. F = K * T
    BY <1>0, <2>1, PowerSum
  <2>4. R = S \div K
    BY <1>4 DEF Convert
  <2> HIDE DEF F, T, B, K
  <2>5. R \in Nat /\ K * R <= S /\ S < K * R + K
    <3>1. S \div K \in Int /\ S \div K >= 0
      BY <2>2
    <3>2. K * (S \div K) <= S /\ S < K * (S \div K) + K
      BY <2>2
    <3> QED
      BY <2>4, <3>1, <3>2
  <2>6. R * (K * T) <= S * T
    <3>1. \A x, y, z \in Nat : x <= y => x * z <= y * z
      OBVIOUS
    <3>2. (K * R) * T <= S * T
      <4>1. K * R \in Nat
        BY <2>2, <2>5
      <4> QED
        BY <1>1, <2>5, <3>1, <4>1
    <3>3. (K * R) * T = R * (K * T)
      BY <1>1, <2>2, <2>5
    <3> QED
      BY <3>2, <3>3
  <2>7. S * T < (R + 1) * (K * T)
    <3>1. K * R + K = K * (R + 1)
      BY <2>2, <2>5
    <3>2. K * (R + 1) \in Nat /\ S < K * (R + 1)
      BY <2>2, <2>5, <3>1
    <3>3. S * T < (K * (R + 1)) * T
      BY <1>1, <1>2, <3>2
    <3>4. (K * (R + 1)) * T = (R + 1) * (K * T)
      BY <1>1, <2>2, <2>5
    <3> QED
      BY <3>3, <3>4
  <2>8. ASSUME S * T < B * (K * T)
        PROVE  R < B
    <3>1. R * (K * T) < B * (K * T)
      <4>1. R * (K * T) \in Nat /\ S * T \in Nat /\ B * (K * T) \in Nat
        BY <1>1, <2>2, <2>5
      <4> QED
        BY <2>6, <2>8, <4>1
    <3>2. K * T \in Nat
      BY <1>1, <2>2
    <3> QED
      BY <1>1, <1>3, <2>5, <3>1, <3>2
  <2> QED
    BY <1>4, <2>3, <2>5, <2>6, <2>7, <2>8 DEF F, T, B
<1>5. CASE ~(from > to)
  <2> DEFINE K == Power(Ten, to - from)
  <2>1. to - from \in Nat /\ (to - from) + from = to
    BY <1>5
  <2>2. K \in Nat \ {0}
    BY <1>0, <2>1, PowerPositive
  <2>3. T = K * F
    BY <1>0, <2>1, PowerSum
  <2>4. R = S * K
    BY <1>5 DEF Convert
  <2>5. from = to => K = 1
    <3>1. from = to => to - from = 0
      OBVIOUS
    <3>2. Power(Ten, 0) = 1
      BY <1>0, PowerDef
    <3> QED
      BY <3>1, <3>2
  <2> HIDE DEF F, T, B, K
  <2>6. R \in Nat /\ (from = to => R = S)
    BY <2>2, <2>4, <2>5
  <2>7. R * F = S * (K * F)
    BY <1>1, <2>2, <2>4
  <2>8. R * F < (R + 1) * F /\ R * F \in Nat
    BY <1>1, <1>2, <2>6
  <2>9. R * F < B * F => R < B
    BY <1>1, <1>3, <2>6
  <2>10. R * F = S * T
    BY <2>3, <2>7
  <2> QED
    BY <2>6, <2>8, <2>9, <2>10 DEF F, T, B
<1> QED
  BY <1>4, <1>5

-------------------------------------------------------------------------------
(* The invariant                                                           *)

TransferSpec == InitTransfer /\ [][NextTransfer]_transferVars

\* What a transfer is.
Inputs ==
    [kind : Kinds \cup {"raw"}, value : Nat, recipient : Seq(Byte), metadata : Seq(Byte),
     sender : Handlers, response : Seq(Byte), tail : Seq(Byte),
     processor : Processors, from : Int, to : Int,
     receiver : Handlers \cup {"substrate"}]

\* What was deposited, once something was.
InputType ==
    stage # "start" =>
        /\ in \in Inputs
        /\ in.kind # "raw" =>
              /\ in.value \in Values /\ in.recipient \in Recipients /\ in.metadata \in Metadata
              /\ in.sender \in {in.kind, "none"} /\ in.tail = <<>>
              /\ in.response \in {<<>>, LeftPad(Bytes[in.value \div 2])}

\* The calldata that the event handlers find.
Deposited ==
    stage = "deposit" =>
        /\ in.processor = "none"
        /\ in.kind = "fungible" => data = ConstructErc20DepositData(in.recipient, in.value)
        /\ in.kind = "nonFungible" =>
              data = ConstructErc721DepositData(in.recipient, in.value, in.metadata)
        /\ in.kind = "generic" => data = ConstructGenericDepositData(in.metadata)

\* There is a message, of the kind the handler makes.
Carrying == stage \in {"message", "processed", "proposal", "call"}

MessageType ==
    Carrying => /\ in.sender \in Kinds /\ Message(in.sender, msg)
                /\ stage = "message" => in.processor = "none"

\* The amount a message must carry after the processors.
Arriving == IF Converted THEN Convert(Sent, in.from, in.to) ELSE Sent

\* It does, and with the recipient; in one word, if it fits there.
CarriesAmount ==
    Carrying /\ in.kind = "fungible" =>
        /\ msg.payload[1] \in Seq(Byte) /\ Number[msg.payload[1]] = Arriving
        /\ Arriving < Power(Base, Word) => Len(msg.payload[1]) <= Word
        /\ msg.payload[2] = in.recipient
        /\ Converted => in.from \in Nat /\ in.to \in Nat

\* Nothing but a processor with a map changes another message.
CarriesData ==
    Carrying /\ in.processor # "map" =>
        /\ in.kind = "nonFungible" =>
              /\ msg.payload[1] \in Seq(Byte) /\ Len(msg.payload[1]) <= Word
              /\ Number[msg.payload[1]] = in.value
              /\ msg.payload[2] = in.recipient /\ msg.payload[3] = in.metadata
        /\ in.kind = "generic" => msg.payload[1] = in.metadata

\* What was made of the message.
Delivered ==
    /\ stage = "proposal" => /\ in.receiver = in.sender
                             /\ data = MessageHandler(in.receiver, msg.payload)
    /\ stage = "call" => msg.type # "" /\ data = SubstrateArgs(msg.type, msg.payload)

\* The inductive invariant.
TransferInv ==
    /\ InputType /\ Deposited /\ MessageType /\ CarriesAmount /\ CarriesData
    /\ Delivered /\ PanicsOnlyOn

\* Inputs of the constructors and of the Substrate listener.
LEMMA InputTypes ==
    /\ \A v \in Values : v \in Nat /\ v < Power(Base, Word)
    /\ Recipients \subseteq Seq(Byte) /\ Metadata \subseteq Seq(Byte)
    /\ Calldata \subseteq Seq(Byte) /\ Tails \subseteq Seq(Byte)
    /\ <<>> \in Seq(Byte)
    /\ \A v \in Values : LeftPad(Bytes[v \div 2]) \in Seq(Byte)
<1>1. \A v \in Values : v \in Nat /\ v < Power(Base, Word)
  BY TransferAssumption
<1>2. /\ Recipients \subseteq Seq(Byte) /\ Metadata \subseteq Seq(Byte)
      /\ Calldata \subseteq Seq(Byte) /\ Tails \subseteq Seq(Byte)
  BY TransferAssumption DEF Byte
<1>3. ASSUME NEW v \in Values
      PROVE  LeftPad(Bytes[v \div 2]) \in Seq(Byte)
  <2>1. v \div 2 \in Nat
    BY <1>1
  <2> QED
    BY <2>1, BytesDef, PadProperties
<1> QED
  BY <1>1, <1>2, <1>3, EmptySeq

\* The amount that was sent is a number of one word.
LEMMA SentType ==
    ASSUME InputType, stage # "start", in.kind # "raw"
    PROVE  Sent \in Nat /\ Sent < Power(Base, Word)
<1>1. in.value \in Values /\ in.response \in {<<>>, LeftPad(Bytes[in.value \div 2])}
  BY DEF InputType
<1>2. in.value \in Nat /\ in.value < Power(Base, Word)
  BY <1>1, InputTypes
<1>3. CASE in.response = <<>>
  BY <1>2, <1>3 DEF Sent
<1>4. CASE in.response # <<>>
  <2>1. in.response = LeftPad(Bytes[in.value \div 2])
    BY <1>1, <1>4
  <2>2. Power(Base, Word) \in Nat
    BY PowerDef, BaseType
  <2>3. in.value \div 2 \in Nat /\ in.value \div 2 < Power(Base, Word)
    BY <1>2, <2>2
  <2>4. Number[in.response] = in.value \div 2
    BY <2>1, <2>3, PaddedNumber
  <2> QED
    BY <1>4, <2>3, <2>4 DEF Sent
<1> QED
  BY <1>3, <1>4

\* A deposit begins a transfer that carries no message yet.
LEMMA DepositStep ==
    ASSUME NEW kind \in Kinds, NEW v \in Values, NEW r \in Recipients, NEW m \in Metadata,
           NEW h \in {kind, "none"}, NEW response \in {<<>>, LeftPad(Bytes[v \div 2])},
           Deposit(kind, v, r, m, h, response)
    PROVE  TransferInv'
<1>1. v \in Nat /\ r \in Seq(Byte) /\ m \in Seq(Byte) /\ response \in Seq(Byte) /\ h \in Handlers
  BY InputTypes DEF Handlers
<1>2. stage' = "deposit" /\ in' = Input(kind, v, r, m, h, response, <<>>)
  BY DEF Deposit
<1>3. /\ in' \in Inputs
      /\ in'.kind = kind /\ in'.value = v /\ in'.recipient = r /\ in'.metadata = m
      /\ in'.sender = h /\ in'.response = response /\ in'.tail = <<>>
      /\ in'.processor = "none"
  BY <1>1, <1>2, InputTypes DEF Input, Inputs, Handlers, Processors
<1>4. InputType'
  BY <1>3 DEF InputType
<1>5. Deposited'
  <2>1. data' = CASE kind = "fungible" -> ConstructErc20DepositData(r, v)
                  [] kind = "nonFungible" -> ConstructErc721DepositData(r, v, m)
                  [] OTHER -> ConstructGenericDepositData(m)
    BY DEF Deposit
  <2> QED
    BY <1>3, <2>1 DEF Deposited
<1>6. ~Carrying'
  BY <1>2 DEF Carrying
<1> QED
  BY <1>2, <1>4, <1>5, <1>6
  DEF TransferInv, MessageType, CarriesAmount, CarriesData, Delivered, PanicsOnlyOn

\* Calldata of another program.
LEMMA RawDepositStep ==
    ASSUME NEW cd \in Calldata, NEW tail \in Tails, NEW h \in Handlers, RawDeposit(cd, tail, h)
    PROVE  TransferInv'
<1>1. stage' = "deposit" /\ in' = Input("raw", 0, <<>>, <<>>, h, <<>>, tail)
  BY DEF RawDeposit
<1>2. tail \in Seq(Byte) /\ <<>> \in Seq(Byte)
  BY InputTypes
<1>3. /\ in' \in Inputs
      /\ in'.kind = "raw" /\ in'.processor = "none"
  BY <1>1, <1>2 DEF Input, Inputs, Handlers, Processors
<1>4. InputType'
  BY <1>3 DEF InputType
<1>5. Deposited'
  BY <1>3 DEF Deposited
<1>6. ~Carrying'
  BY <1>1 DEF Carrying
<1> QED
  BY <1>1, <1>4, <1>5, <1>6
  DEF TransferInv, MessageType, CarriesAmount, CarriesData, Delivered, PanicsOnlyOn

\* An event handler makes the message, refuses the deposit or panics.
LEMMA HandleEventStep ==
    ASSUME TransferInv, HandleEvent
    PROVE  TransferInv'
<1> DEFINE e == EventHandler(in.sender, data, in.tail, in.response)
<1>1. /\ stage = "deposit" /\ in' = in /\ data' = data /\ msg' = e
      /\ stage' = IF e.result = "ok" THEN "message" ELSE e.result
  BY DEF HandleEvent, Handle
<1>2. in \in Inputs /\ in.sender \in Handlers /\ in.kind \in Kinds \cup {"raw"} /\ in.processor = "none"
  BY <1>1 DEF TransferInv, InputType, Deposited, Inputs
<1>3. /\ e.result \in {"ok", "refused", "panic"}
      /\ e.result = "ok" => in.sender \in Kinds /\ Message(in.sender, e)
      /\ e.result = "panic" => in.sender = "nonFungible"
  BY <1>2, HandlerShape
<1>4. in.kind # "raw" =>
         /\ in.value \in Values /\ in.recipient \in Recipients /\ in.metadata \in Metadata
         /\ in.sender \in {in.kind, "none"} /\ in.tail = <<>>
         /\ in.response \in {<<>>, LeftPad(Bytes[in.value \div 2])}
  BY <1>1 DEF TransferInv, InputType
<1>5. InputType'
  BY <1>1, <1>2, <1>4 DEF InputType
<1>6. stage' # "deposit" /\ stage' # "proposal" /\ stage' # "call"
  BY <1>1, <1>3
<1>7. PanicsOnlyOn'
  <2>1. ASSUME e.result = "panic", in.kind # "raw" PROVE FALSE
    <3>1. in.sender = "nonFungible" /\ in.kind = "nonFungible"
      BY <1>3, <1>4, <2>1
    <3>2. data = ConstructErc721DepositData(in.recipient, in.value, in.metadata)
      BY <1>1, <3>1 DEF TransferInv, Deposited
    <3>3. e = Erc721EventHandler(data, <<>>, in.response)
      BY <1>4, <2>1, <3>1 DEF EventHandler
    <3>4. e = Made("nonFungible", <<LeftPad(Bytes[in.value]), in.recipient, in.metadata>>)
      BY <1>4, <2>1, <3>2, <3>3, TokenHandled
    <3>5. e.result = "ok"
      BY <3>4 DEF Made
    <3> QED
      BY <2>1, <3>5
  <2>2. stage' = "panic" => e.result = "panic"
    BY <1>1
  <2> QED
    BY <1>1, <1>3, <2>1, <2>2 DEF PanicsOnlyOn
<1>8. CASE e.result # "ok"
  <2>1. ~Carrying'
    BY <1>1, <1>3, <1>8 DEF Carrying
  <2> QED
    BY <1>5, <1>6, <1>7, <2>1
    DEF TransferInv, Deposited, MessageType, CarriesAmount, CarriesData, Delivered
<1>9. CASE e.result = "ok"
  <2>1. stage' = "message" /\ in.sender \in Kinds /\ Message(in.sender, e)
    BY <1>1, <1>3, <1>9
  <2>2. MessageType'
    BY <1>1, <1>2, <2>1 DEF MessageType
  <2>3. in.kind # "raw" => in.sender = in.kind
    BY <1>4, <2>1 DEF Kinds
  <2>4. CarriesAmount'
    <3>1. SUFFICES ASSUME in.kind = "fungible"
          PROVE  /\ e.payload[1] \in Seq(Byte) /\ Number[e.payload[1]] = Sent
                 /\ Len(e.payload[1]) <= Word
                 /\ e.payload[2] = in.recipient
      <4>1. ~Converted'
        BY <1>1, <1>2 DEF Converted
      <4>2. Sent' = Sent
        BY <1>1 DEF Sent
      <4>3. Arriving' = Sent
        BY <4>1, <4>2 DEF Arriving
      <4> QED
        BY <1>1, <4>1, <4>3 DEF CarriesAmount
    <3>2. e = Erc20EventHandler(data, in.tail, in.response)
      BY <2>3, <3>1 DEF EventHandler
    <3>3. data = ConstructErc20DepositData(in.recipient, in.value)
      BY <1>1, <3>1 DEF TransferInv, Deposited
    <3>4. e # Refused
      BY <1>9 DEF Refused
    <3>8. /\ in.value \in Values /\ in.recipient \in Recipients
          /\ in.response \in {<<>>, LeftPad(Bytes[in.value \div 2])}
      BY <1>4, <3>1
    <3> HIDE DEF e
    <3>9. FungibleResult(e, in.value, in.recipient, in.response)
      BY <3>2, <3>3, <3>8, FungibleHandled
    <3>5. PICK a \in Seq(Byte) :
             /\ Len(a) <= Word
             /\ Number[a] = AfterFee(in.value, in.response)
             /\ e = Made("fungible", <<a, in.recipient>>)
      BY <3>4, <3>9 DEF FungibleResult
    <3>6. Number[a] = Sent
      BY <3>5 DEF Sent, AfterFee
    <3>7. e.payload = <<a, in.recipient>>
      BY <3>5 DEF Made
    <3> QED
      BY <3>5, <3>6, <3>7
  <2>5. CarriesData'
    <3>1. ASSUME in.kind = "nonFungible"
          PROVE  /\ e.payload[1] \in Seq(Byte) /\ Len(e.payload[1]) <= Word
                 /\ Number[e.payload[1]] = in.value
                 /\ e.payload[2] = in.recipient /\ e.payload[3] = in.metadata
      <4>1. e = Erc721EventHandler(data, <<>>, in.response)
        BY <1>4, <2>3, <3>1 DEF EventHandler
      <4>2. data = ConstructErc721DepositData(in.recipient, in.value, in.metadata)
        BY <1>1, <3>1 DEF TransferInv, Deposited
      <4>3. /\ e = Made("nonFungible", <<LeftPad(Bytes[in.value]), in.recipient, in.metadata>>)
            /\ LeftPad(Bytes[in.value]) \in Seq(Byte) /\ Len(LeftPad(Bytes[in.value])) <= Word
            /\ Number[LeftPad(Bytes[in.value])] = in.value
        BY <1>4, <3>1, <4>1, <4>2, TokenHandled
      <4>4. e.payload = <<LeftPad(Bytes[in.value]), in.recipient, in.metadata>>
        BY <4>3 DEF Made
      <4> QED
        BY <4>3, <4>4
    <3>2. ASSUME in.kind = "generic"
          PROVE  e.payload[1] = in.metadata
      <4>1. e = GenericEventHandler(data, in.tail, in.response)
        BY <2>3, <3>2 DEF EventHandler
      <4>2. data = ConstructGenericDepositData(in.metadata)
        BY <1>1, <3>2 DEF TransferInv, Deposited
      <4>3. e = Made("generic", <<in.metadata>>)
        BY <1>4, <3>2, <4>1, <4>2, GenericHandled
      <4>4. e.payload = <<in.metadata>>
        BY <4>3 DEF Made
      <4> QED
        BY <4>4
    <3> HIDE DEF e
    <3> QED
      BY <1>1, <3>1, <3>2 DEF CarriesData
  <2> QED
    BY <1>5, <1>6, <1>7, <2>2, <2>4, <2>5 DEF TransferInv, Deposited, Delivered
<1> QED
  BY <1>8, <1>9

\* The Substrate listener makes the message at once.
LEMMA HandleSubstrateEventStep ==
    ASSUME NEW kind \in Kinds, NEW v \in Values, NEW r \in Recipients, NEW m \in Metadata,
           NEW zeros \in 0..(Word - Len(Bytes[v])), HandleSubstrateEvent(kind, v, zeros, r, m)
    PROVE  TransferInv'
<1> DEFINE e == SubstrateEvent(kind, v, zeros, r, m)
           z == [i \in 1..zeros |-> 0]
           id == z \o Bytes[v]
<1>1. v \in Nat /\ v < Power(Base, Word) /\ r \in Seq(Byte) /\ m \in Seq(Byte) /\ <<>> \in Seq(Byte)
  BY InputTypes
<1>2. /\ in' = Input(kind, v, r, m, kind, <<>>, <<>>) /\ msg' = e
      /\ stage' = IF e.result = "ok" THEN "message" ELSE e.result
  BY DEF HandleSubstrateEvent, Handle
<1>3. /\ Bytes[v] \in Seq(Byte) /\ Len(Bytes[v]) <= Word /\ Number[Bytes[v]] = v
      /\ id \in Seq(Byte) /\ Len(id) <= Word /\ Number[id] = v
  <2>1. Bytes[v] \in Seq(Byte) /\ Len(Bytes[v]) <= Word /\ Number[Bytes[v]] = v
    BY <1>1, BytesDef, BytesLength, NumberOfBytes, BaseType
  <2>2. zeros \in Nat /\ zeros + Len(Bytes[v]) <= Word /\ 0 \in Byte /\ Byte \subseteq Nat
    BY <2>1, BaseType DEF Byte
  <2>3. z \in Seq(Byte) /\ Len(z) = zeros /\ \A i \in 1..Len(z) : z[i] = 0
    BY <2>2
  <2> HIDE DEF z
  <2>4. z \o Bytes[v] \in Seq(Byte) /\ Len(z \o Bytes[v]) = Len(z) + Len(Bytes[v])
    BY <2>1, <2>3, ConcatProperties, Zenon
  <2>5. Number[z \o Bytes[v]] = Number[Bytes[v]]
    BY <2>1, <2>3, ByteString, NumberOfPadded
  <2> QED
    BY <2>1, <2>2, <2>3, <2>4, <2>5
<1>4. /\ in' \in Inputs
      /\ in'.kind = kind /\ in'.value = v /\ in'.recipient = r /\ in'.metadata = m
      /\ in'.sender = kind /\ in'.response = <<>> /\ in'.tail = <<>>
      /\ in'.processor = "none"
  BY <1>1, <1>2 DEF Input, Inputs, Handlers, Processors
<1>5. /\ kind = "fungible" => e = Made("", <<Bytes[v], r>>)
      /\ kind = "nonFungible" => e = Made("", <<id, r, m>>)
      /\ kind = "generic" => e = Made("", <<m>>)
  BY DEF SubstrateEvent
<1> HIDE DEF e, id
<1>6. e.result = "ok" /\ e.type = "" /\ e = Made(e.type, e.payload)
  <2>1. PICK payload : e = [result |-> "ok", type |-> "", payload |-> payload]
    BY <1>5 DEF Made, Kinds
  <2>2. e.result = "ok" /\ e.type = "" /\ e.payload = payload
    BY <2>1
  <2> QED
    BY <2>1, <2>2 DEF Made
<1>7. /\ kind = "fungible" => e.payload = <<Bytes[v], r>>
      /\ kind = "nonFungible" => e.payload = <<id, r, m>>
      /\ kind = "generic" => e.payload = <<m>>
  <2>1. ASSUME NEW payload, e = Made("", payload)
        PROVE  e.payload = payload
    BY <2>1 DEF Made
  <2> QED
    BY <1>5, <2>1
<1>8. Shape(kind, e.payload)
  BY <1>7 DEF Shape
<1>9. stage' = "message"
  BY <1>2, <1>6
<1>10. InputType'
  BY <1>4 DEF InputType
<1>11. MessageType'
  BY <1>2, <1>4, <1>6, <1>8 DEF MessageType, Message
<1>12. CarriesAmount'
  <2>1. ~Converted' /\ Sent' = v
    BY <1>4 DEF Converted, Sent
  <2>2. Arriving' = v
    BY <2>1 DEF Arriving
  <2>3. kind = "fungible" => e.payload[1] = Bytes[v] /\ e.payload[2] = r
    BY <1>7
  <2> QED
    BY <1>2, <1>3, <1>4, <2>1, <2>2, <2>3 DEF CarriesAmount
<1>13. CarriesData'
  <2>1. /\ kind = "nonFungible" =>
              e.payload[1] = id /\ e.payload[2] = r /\ e.payload[3] = m
        /\ kind = "generic" => e.payload[1] = m
    BY <1>7
  <2> QED
    BY <1>2, <1>3, <1>4, <2>1, BaseType DEF CarriesData
<1> QED
  BY <1>9, <1>10, <1>11, <1>12, <1>13 DEF TransferInv, Deposited, Delivered, PanicsOnlyOn

\* A processor passes the message on, converts its amount, or stops it.
LEMMA ProcessStep ==
    ASSUME TransferInv, NEW p \in Processors, NEW d \in Decimals, Process(p, d[1], d[2])
    PROVE  TransferInv'
<1> DEFINE from == d[1]
           to == d[2]
           n == Processed(msg, p, from, to)
<1>1. /\ stage = "message" /\ msg' = n
      /\ stage' = IF n.result = "ok" THEN "processed" ELSE n.result
      /\ in' = [in EXCEPT !.processor = p, !.from = from, !.to = to]
  BY DEF Process
<1>2. from \in Nat \cup {NoDecimals, NotEVM} /\ to \in Nat \cup {NoDecimals, NotEVM}
  BY TransferAssumption
<1>3. from \in Int /\ to \in Int
  BY <1>2 DEF NoDecimals, NotEVM
<1>4. /\ in \in Inputs /\ in.sender \in Kinds /\ Message(in.sender, msg) /\ in.processor = "none"
  BY <1>1 DEF TransferInv, InputType, MessageType, Carrying
<1>5. /\ in' \in Inputs
      /\ in'.kind = in.kind /\ in'.value = in.value /\ in'.recipient = in.recipient
      /\ in'.metadata = in.metadata /\ in'.sender = in.sender /\ in'.response = in.response
      /\ in'.tail = in.tail /\ in'.processor = p /\ in'.from = from /\ in'.to = to
  BY <1>1, <1>3, <1>4 DEF Inputs
<1>6. InputType'
  BY <1>1, <1>5 DEF TransferInv, InputType
<1> DEFINE converted == p = "map" \/ (p = "auto" /\ msg.type = "fungible")
<1>7. /\ converted /\ {from, to} \subseteq Nat => n = Adjust(msg, from, to)
      /\ ~converted => n = msg
      /\ converted /\ ~({from, to} \subseteq Nat) =>
            \/ n = Refused
            \/ n = Panic /\ p = "auto" /\ NotEVM \in {from, to}
  <2>0. ~(NotEVM \in Nat) /\ ~(NoDecimals \in Nat)
    BY DEF NotEVM, NoDecimals
  <2>1. CASE p = "map"
    BY <1>2, <2>0, <2>1 DEF Processed, MapProcessor
  <2>2. CASE p = "auto"
    BY <1>2, <2>0, <2>2 DEF Processed, AutoProcessor
  <2>3. CASE p = "none"
    BY <2>3 DEF Processed
  <2> QED
    BY <2>1, <2>2, <2>3 DEF Processors
<1> HIDE DEF n, from, to
<1>8. CASE converted /\ ~({from, to} \subseteq Nat)
  <2>1. n.result \in {"refused", "panic"} /\ (n.result = "panic" => p = "auto" /\ NotEVM \in {from, to})
    BY <1>7, <1>8 DEF Refused, Panic
  <2>2. stage' = n.result
    BY <1>1, <2>1
  <2>3. PanicsOnlyOn'
    BY <1>5, <2>1, <2>2 DEF PanicsOnlyOn
  <2>4. ~Carrying'
    BY <2>1, <2>2 DEF Carrying
  <2> QED
    BY <1>6, <2>1, <2>2, <2>3, <2>4
    DEF TransferInv, Deposited, MessageType, CarriesAmount, CarriesData, Delivered
<1>9. CASE ~(converted /\ ~({from, to} \subseteq Nat))
  <2>1. \/ converted /\ from \in Nat /\ to \in Nat /\ n = Adjust(msg, from, to)
        \/ ~converted /\ n = msg
    BY <1>7, <1>9
  <2>2. /\ Message(in.sender, n) /\ n.result = "ok" /\ n.type = msg.type
        /\ converted /\ from # to =>
              n.payload[1] = Bytes[Convert(Number[msg.payload[1]], from, to)]
        /\ (~converted \/ from = to) => n = msg
        /\ in.sender # "generic" => n.payload[2] = msg.payload[2]
    <3>1. msg = [result |-> "ok", type |-> msg.type, payload |-> msg.payload]
      BY <1>4 DEF Message, Made
    <3>2. msg.result = "ok"
      BY <3>1
    <3>3. CASE converted
      BY <1>4, <2>1, <3>3, AdjustShape
    <3>4. CASE ~converted
      BY <1>4, <2>1, <3>2, <3>4
    <3> QED
      BY <3>3, <3>4
  <2>3. stage' = "processed"
    BY <1>1, <2>2
  <2>4. MessageType'
    BY <1>1, <1>4, <1>5, <2>2, <2>3 DEF MessageType
  <2>5. Converted' = converted /\ Sent' = Sent
    BY <1>1, <1>5, <2>2 DEF Converted, Sent
  <2>6. CarriesAmount'
    <3>1. SUFFICES ASSUME in.kind = "fungible"
          PROVE  /\ n.payload[1] \in Seq(Byte) /\ Number[n.payload[1]] = Arriving'
                 /\ Arriving' < Power(Base, Word) => Len(n.payload[1]) <= Word
                 /\ n.payload[2] = in.recipient
      <4>1. converted => from \in Nat /\ to \in Nat
        BY <2>1
      <4> QED
        BY <1>1, <1>5, <2>5, <4>1 DEF CarriesAmount
    <3>2. in.sender = "fungible"
      BY <1>1, <1>4, <3>1 DEF TransferInv, InputType, Kinds
    <3>3. ~Converted
      BY <1>4 DEF Converted
    <3>4. /\ msg.payload[1] \in Seq(Byte) /\ Number[msg.payload[1]] = Sent
          /\ Sent < Power(Base, Word) => Len(msg.payload[1]) <= Word
          /\ msg.payload[2] = in.recipient
      BY <1>1, <3>1, <3>3 DEF TransferInv, CarriesAmount, Carrying, Arriving
    <3>5. Sent \in Nat
      BY <1>1, <3>1, SentType DEF TransferInv
    <3>6. Arriving' = IF converted THEN Convert(Sent, from, to) ELSE Sent
      BY <1>5, <2>5 DEF Arriving
    <3>7. CASE ~converted \/ from = to
      <4>1. n = msg
        BY <2>2, <3>7
      <4>2. Arriving' = Sent
        BY <2>1, <3>5, <3>6, <3>7, ConvertWithin
      <4> QED
        BY <3>4, <4>1, <4>2
    <3>8. CASE converted /\ from # to
      <4>1. from \in Nat /\ to \in Nat /\ Arriving' = Convert(Sent, from, to)
        BY <2>1, <3>6, <3>8
      <4>2. Arriving' \in Nat
        BY <3>5, <4>1, ConvertWithin
      <4>3. n.payload[1] = Bytes[Arriving'] /\ n.payload[2] = in.recipient
        BY <2>2, <3>2, <3>4, <3>8, <4>1
      <4> QED
        BY <4>2, <4>3, BytesDef, BytesLength, NumberOfBytes, BaseType
    <3> QED
      BY <3>7, <3>8
  <2>7. CarriesData'
    <3>1. SUFFICES ASSUME p # "map", in.kind \in {"nonFungible", "generic"}
          PROVE  n = msg
      BY <1>1, <1>4, <1>5 DEF TransferInv, CarriesData, Carrying
    <3>2. in.sender = in.kind
      BY <1>1, <1>4, <3>1 DEF TransferInv, InputType, Kinds
    <3>3. msg.type # "fungible"
      BY <1>4, <3>1, <3>2 DEF Message
    <3> QED
      BY <2>2, <3>1, <3>3
  <2> QED
    BY <1>6, <2>3, <2>4, <2>6, <2>7 DEF TransferInv, Deposited, Delivered, PanicsOnlyOn
<1> QED
  BY <1>8, <1>9

\* The destination changes nothing of what the message carries.
LEMMA ReceiverOnly ==
    ASSUME TransferInv, stage = "processed", msg' = msg,
           NEW x \in Handlers \cup {"substrate"}, in' = [in EXCEPT !.receiver = x],
           stage' \in {"refused", "proposal", "call"}, Delivered'
    PROVE  TransferInv' /\ in'.receiver = x /\ in'.sender = in.sender
<1>1. in \in Inputs
  BY DEF TransferInv, InputType
<1>2. /\ in' \in Inputs
      /\ in'.kind = in.kind /\ in'.value = in.value /\ in'.recipient = in.recipient
      /\ in'.metadata = in.metadata /\ in'.sender = in.sender /\ in'.response = in.response
      /\ in'.tail = in.tail /\ in'.processor = in.processor /\ in'.from = in.from
      /\ in'.to = in.to /\ in'.receiver = x
  BY <1>1 DEF Inputs
<1>3. InputType'
  BY <1>2 DEF TransferInv, InputType
<1>4. MessageType'
  BY <1>2 DEF TransferInv, MessageType, Carrying
<1>5. Converted' = Converted /\ Sent' = Sent
  BY <1>2 DEF Converted, Sent
<1>6. Arriving' = Arriving
  BY <1>2, <1>5 DEF Arriving
<1>7. CarriesAmount'
  BY <1>2, <1>5, <1>6 DEF TransferInv, CarriesAmount, Carrying
<1>8. CarriesData'
  BY <1>2 DEF TransferInv, CarriesData, Carrying
<1> QED
  BY <1>2, <1>3, <1>4, <1>7, <1>8 DEF TransferInv, Deposited, PanicsOnlyOn

\* The proposal of an EVM chain.
LEMMA HandleMessageStep ==
    ASSUME TransferInv, NEW h \in Handlers, HandleMessage(h)
    PROVE  TransferInv'
<1>1. /\ stage = "processed" /\ msg' = msg /\ in' = [in EXCEPT !.receiver = h]
      /\ data' = MessageHandler(h, msg.payload)
      /\ stage' = IF data' = <<>> THEN "refused" ELSE "proposal"
  BY DEF HandleMessage
<1>2. in \in Inputs /\ in.sender \in Kinds /\ Shape(in.sender, msg.payload)
  BY <1>1 DEF TransferInv, InputType, MessageType, Carrying, Message
<1>3. in'.receiver = h /\ in'.sender = in.sender
  BY <1>1, <1>2 DEF Inputs
<1>4. h # in.sender => data' = <<>>
  <2>1. /\ in.sender = "fungible" => Len(msg.payload) = 2
        /\ in.sender = "nonFungible" => Len(msg.payload) = 3
        /\ in.sender = "generic" => Len(msg.payload) = 1
    BY <1>2 DEF Shape
  <2> QED
    BY <1>1, <1>2, <2>1 DEF MessageHandler, Kinds, Handlers
<1>5. Delivered'
  BY <1>1, <1>3, <1>4 DEF Delivered
<1> QED
  BY <1>1, <1>5, ReceiverOnly

\* The call of a Substrate chain.
LEMMA HandleSubstrateMessageStep ==
    ASSUME TransferInv, HandleSubstrateMessage
    PROVE  TransferInv'
<1>1. /\ stage = "processed" /\ msg' = msg /\ in' = [in EXCEPT !.receiver = "substrate"]
      /\ \/ stage' = "refused"
         \/ stage' = "call" /\ msg.type # "" /\ data' = SubstrateArgs(msg.type, msg.payload)
  BY DEF HandleSubstrateMessage
<1>2. Delivered'
  BY <1>1 DEF Delivered
<1> QED
  BY <1>1, <1>2, ReceiverOnly

\* The invariant holds of every reachable state.
THEOREM TransferInvariant == TransferSpec => []TransferInv
<1>1. InitTransfer => TransferInv
  BY DEF InitTransfer, TransferInv, InputType, Deposited, MessageType, Carrying, CarriesAmount,
         CarriesData, Delivered, PanicsOnlyOn
<1>2. TransferInv /\ [NextTransfer]_transferVars => TransferInv'
  <2> SUFFICES ASSUME TransferInv, [NextTransfer]_transferVars
               PROVE  TransferInv'
    OBVIOUS
  <2>1. ASSUME NEW kind \in Kinds, NEW v \in Values, NEW r \in Recipients, NEW m \in Metadata,
               NEW zeros \in 0..(Word - Len(Bytes[v])), HandleSubstrateEvent(kind, v, zeros, r, m)
        PROVE  TransferInv'
    BY <2>1, HandleSubstrateEventStep
  <2>2. ASSUME NEW kind \in Kinds, NEW v \in Values, NEW r \in Recipients, NEW m \in Metadata,
               NEW h \in {kind, "none"}, NEW response \in {<<>>, LeftPad(Bytes[v \div 2])},
               Deposit(kind, v, r, m, h, response)
        PROVE  TransferInv'
    BY <2>2, DepositStep
  <2>3. ASSUME NEW cd \in Calldata, NEW tail \in Tails, NEW h \in Handlers,
               RawDeposit(cd, tail, h)
        PROVE  TransferInv'
    BY <2>3, RawDepositStep
  <2>4. ASSUME HandleEvent PROVE TransferInv'
    BY <2>4, HandleEventStep
  <2>5. ASSUME NEW p \in Processors, NEW d \in Decimals, Process(p, d[1], d[2])
        PROVE  TransferInv'
    BY <2>5, ProcessStep
  <2>6. ASSUME NEW h \in Handlers, HandleMessage(h) PROVE TransferInv'
    BY <2>6, HandleMessageStep
  <2>7. ASSUME HandleSubstrateMessage PROVE TransferInv'
    BY <2>7, HandleSubstrateMessageStep
  <2>8. ASSUME UNCHANGED transferVars PROVE TransferInv'
    <3>1. stage' = stage /\ in' = in /\ data' = data /\ msg' = msg
      BY <2>8 DEF transferVars
    <3>2. InputType' /\ Deposited'
      BY <3>1 DEF TransferInv, InputType, Deposited
    <3>3. MessageType' /\ CarriesData'
      BY <3>1 DEF TransferInv, MessageType, CarriesData, Carrying
    <3>4. Converted' = Converted /\ Sent' = Sent
      BY <3>1 DEF Converted, Sent
    <3>5. Arriving' = Arriving
      BY <3>1, <3>4 DEF Arriving
    <3>6. CarriesAmount'
      BY <3>1, <3>4, <3>5 DEF TransferInv, CarriesAmount, Carrying
    <3>7. Delivered' /\ PanicsOnlyOn'
      BY <3>1 DEF TransferInv, Delivered, PanicsOnlyOn
    <3> QED
      BY <3>2, <3>3, <3>6, <3>7 DEF TransferInv
  <2> QED
    BY <2>1, <2>2, <2>3, <2>4, <2>5, <2>6, <2>7, <2>8 DEF NextTransfer
<1> QED
  BY <1>1, <1>2, PTL DEF TransferSpec

\* What the destination reads of an amount and a recipient.
LEMMA AmountRead ==
    ASSUME TransferInv, Constructed, in.kind = "fungible"
    PROVE  /\ Arriving < Power(Base, Word) => ReadAmount = Arriving
           /\ Arriving < Power(Base, Word) /\ Fits(in.recipient) => ReadRecipient = in.recipient
<1> DEFINE a == msg.payload[1]
           r == in.recipient
<1>1. Carrying /\ stage \in {"proposal", "call"} /\ in.kind # "raw"
  BY DEF Constructed, Carrying
<1>2. /\ a \in Seq(Byte) /\ Number[a] = Arriving /\ msg.payload[2] = r
      /\ Arriving < Power(Base, Word) => Len(a) <= Word
  BY <1>1 DEF TransferInv, CarriesAmount
<1>3. in \in Inputs /\ r \in Recipients /\ in.sender = "fungible" /\ Message("fungible", msg)
  BY <1>1 DEF TransferInv, InputType, MessageType, Carrying, Kinds
<1>4. Sized(r)
  BY <1>3, InputSized
<1>5. msg.payload = <<a, r>>
  BY <1>2, <1>3 DEF Message, Shape
<1> SUFFICES ASSUME Arriving < Power(Base, Word)
             PROVE  ReadAmount = Arriving /\ (Fits(r) => ReadRecipient = r)
  OBVIOUS
<1>6. CASE stage = "proposal"
  <2>1. data = MessageHandler("fungible", msg.payload)
    BY <1>3, <1>6 DEF TransferInv, Delivered
  <2> HIDE DEF a, r
  <2>2. data = LeftPad(a) \o Length(r) \o r
    BY <1>5, <2>1 DEF MessageHandler
  <2>3. FungibleReads(data, a, r)
    BY <1>2, <1>4, <2>2, FungibleRead DEF FungibleLayout
  <2> QED
    BY <1>2, <1>6, <2>3 DEF FungibleReads, ReadAmount, ReadRecipient, ReadLength
<1>7. CASE stage = "call"
  <2>1. msg.type = "fungible" /\ data = SubstrateArgs(msg.type, msg.payload)
    BY <1>3, <1>7 DEF TransferInv, Delivered, Message
  <2> HIDE DEF a, r
  <2>2. data = <<Fixed(r), Number[a]>>
    BY <1>5, <2>1 DEF SubstrateArgs
  <2>3. Fits(r) => Fixed(r) = r
    <3>1. r \in Seq(Byte)
      BY <1>4 DEF Sized
    <3> QED
      BY <1>7, <3>1 DEF Fits, Fixed
  <2> QED
    BY <1>2, <1>7, <2>2, <2>3 DEF ReadAmount, ReadRecipient
<1> QED
  BY <1>1, <1>6, <1>7

\* A fungible transfer arrives with its recipient and, rounded down to the
\* destination's decimals, with the amount that was sent (the ERC20 handlers,
\* the processors, the Substrate handlers).
THEOREM TransferAmountArrives == TransferSpec => []AmountArrives
<1>1. TransferInv => AmountArrives
  <2> SUFFICES ASSUME TransferInv, Constructed, in.kind = "fungible"
               PROVE  AmountArrives
    BY DEF AmountArrives
  <2>1. Carrying /\ stage # "start"
    BY DEF Constructed, Carrying
  <2>2. Sent \in Nat /\ Sent < Power(Base, Word)
    BY <2>1, SentType DEF TransferInv
  <2>3. CASE Converted
    <3>1. in.from \in Nat /\ in.to \in Nat
      BY <2>1, <2>3 DEF TransferInv, CarriesAmount
    <3>2. Arriving = Convert(Sent, in.from, in.to)
      BY <2>3 DEF Arriving
    <3>3. Within(Sent, in.from, in.to, Arriving)
      <4>1. \A S, from, to \in Nat : Within(S, from, to, Convert(S, from, to))
        BY ConvertWithin
      <4> QED
        BY <2>2, <3>1, <3>2, <4>1, Zenon
    <3> QED
      BY <2>3, <3>3, AmountRead DEF AmountArrives, Within
  <2>4. CASE ~Converted
    <3>1. Arriving = Sent
      BY <2>4 DEF Arriving
    <3>2. Power(Ten, 0) = 1
      BY PowerDef, TransferAssumption
    <3>3. ReadAmount = Sent /\ (Fits(in.recipient) => ReadRecipient = in.recipient)
      BY <2>2, <3>1, AmountRead
    <3>4. Sent * 1 <= Sent * 1 /\ Sent * 1 < (Sent + 1) * 1
      BY <2>2
    <3> QED
      BY <2>4, <3>2, <3>3, <3>4 DEF AmountArrives
  <2> QED
    BY <2>3, <2>4
<1> QED
  BY <1>1, TransferInvariant, PTL

\* Tokens and generic payloads arrive as they were sent, and no message is
\* encoded by the handler of another kind (the ERC721 and generic handlers).
THEOREM TransferDataArrives == TransferSpec => []DataArrives
<1>1. TransferInv => DataArrives
  <2> SUFFICES ASSUME TransferInv PROVE DataArrives
    OBVIOUS
  <2>1. TokenArrives
    <3> SUFFICES ASSUME Constructed, in.kind = "nonFungible", in.processor # "map"
                 PROVE  TokenArrives
      BY DEF TokenArrives
    <3> DEFINE a == msg.payload[1]
               r == in.recipient
               m == in.metadata
    <3>1. Carrying /\ stage \in {"proposal", "call"} /\ in.kind # "raw"
      BY DEF Constructed, Carrying
    <3>2. /\ a \in Seq(Byte) /\ Len(a) <= Word /\ Number[a] = in.value
          /\ msg.payload[2] = r /\ msg.payload[3] = m
      BY <3>1 DEF TransferInv, CarriesData
    <3>3. /\ r \in Recipients /\ m \in Metadata /\ in.sender = "nonFungible"
          /\ Message("nonFungible", msg)
      BY <3>1 DEF TransferInv, InputType, MessageType, Carrying, Kinds
    <3>4. Sized(r) /\ Sized(m)
      BY <3>3, InputSized
    <3>5. msg.payload = <<a, r, m>>
      BY <3>2, <3>3 DEF Message, Shape
    <3>6. CASE stage = "proposal"
      <4>1. data = MessageHandler("nonFungible", msg.payload)
        BY <3>3, <3>6 DEF TransferInv, Delivered
      <4> HIDE DEF a, r, m
      <4>2. data = LeftPad(a) \o Length(r) \o r \o Length(m) \o m
        BY <3>5, <4>1 DEF MessageHandler
      <4>3. TokenReads(data, a, r, m)
        BY <3>2, <3>4, <4>2, TokenRead DEF TokenLayout
      <4>4. ReadAmount = in.value /\ ReadRecipient = r /\ ReadMetadata(2 * Word + Len(r)) = m
        BY <3>2, <3>6, <4>3 DEF TokenReads, ReadAmount, ReadRecipient, ReadMetadata, ReadLength
      <4> QED
        BY <4>4 DEF TokenArrives, r, m
    <3>7. CASE stage = "call"
      <4>1. msg.type = "nonFungible" /\ data = SubstrateArgs(msg.type, msg.payload)
        BY <3>3, <3>7 DEF TransferInv, Delivered, Message
      <4> HIDE DEF a, r, m
      <4>2. data = <<Fixed(r), Number[a], m>>
        BY <3>5, <4>1 DEF SubstrateArgs
      <4>3. Fits(r) => Fixed(r) = r
        <5>1. r \in Seq(Byte)
          BY <3>4 DEF Sized
        <5> QED
          BY <3>7, <5>1 DEF Fits, Fixed
      <4>4. /\ ReadAmount = in.value /\ (Fits(r) => ReadRecipient = r)
            /\ ReadMetadata(2 * Word + Len(r)) = m
        BY <3>2, <3>7, <4>2, <4>3 DEF ReadAmount, ReadRecipient, ReadMetadata
      <4> QED
        BY <4>4 DEF TokenArrives, r, m
    <3> QED
      BY <3>1, <3>6, <3>7
  <2>2. PayloadArrives
    <3> SUFFICES ASSUME Constructed, in.kind = "generic", in.processor # "map",
                        Fits(in.metadata)
                 PROVE  ReadMetadata(0) = in.metadata
      BY DEF PayloadArrives
    <3> DEFINE m == in.metadata
    <3>1. Carrying /\ stage \in {"proposal", "call"} /\ in.kind # "raw"
      BY DEF Constructed, Carrying
    <3>2. msg.payload[1] = m
      BY <3>1 DEF TransferInv, CarriesData
    <3>3. m \in Metadata /\ in.sender = "generic" /\ Message("generic", msg)
      BY <3>1 DEF TransferInv, InputType, MessageType, Carrying, Kinds
    <3>4. Sized(m)
      BY <3>3, InputSized
    <3>5. msg.payload = <<m>>
      BY <3>2, <3>3 DEF Message, Shape
    <3>6. CASE stage = "proposal"
      <4>1. data = MessageHandler("generic", msg.payload)
        BY <3>3, <3>6 DEF TransferInv, Delivered
      <4> HIDE DEF m
      <4>2. data = Length(m) \o m
        BY <3>5, <4>1 DEF MessageHandler
      <4>3. /\ Number[Slice(data, 0, 0 + Word)] = Len(m)
            /\ Slice(data, Word, Word + Len(m)) = m
        BY <3>4, <4>2, GenericRead
      <4>4. 0 + Word = Word
        BY BaseType
      <4>5. ReadMetadata(0) = m
        BY <3>6, <4>3, <4>4 DEF ReadMetadata, ReadLength
      <4> QED
        BY <4>5 DEF m
    <3>7. CASE stage = "call"
      <4>1. msg.type = "generic" /\ data = SubstrateArgs(msg.type, msg.payload)
        BY <3>3, <3>7 DEF TransferInv, Delivered, Message
      <4>2. Fits(m)
        OBVIOUS
      <4> HIDE DEF m
      <4>3. data = <<Fixed(m)>>
        BY <3>5, <4>1 DEF SubstrateArgs
      <4>4. Fixed(m) = m
        <5>1. m \in Seq(Byte)
          BY <3>4 DEF Sized
        <5> QED
          BY <3>7, <4>2, <5>1 DEF Fits, Fixed
      <4>5. ReadMetadata(0) = m
        BY <3>7, <4>3, <4>4 DEF ReadMetadata
      <4> QED
        BY <4>5 DEF m
    <3> QED
      BY <3>1, <3>6, <3>7
  <2> QED
    BY <2>1, <2>2 DEF DataArrives, TransferInv, Delivered
<1> QED
  BY <1>1, TransferInvariant, PTL

\* No deposit made with the constructors and no message without the automatic
\* processor ends the process, whatever the calldata of ERC20 and generic
\* deposits is (the length checks of the event handlers).
THEOREM TransferPanics == TransferSpec => []PanicsOnlyOn
<1>1. TransferInv => PanicsOnlyOn
  BY DEF TransferInv
<1> QED
  BY <1>1, TransferInvariant, PTL

-------------------------------------------------------------------------------
(* Floats                                                                  *)

\* Half of a number.
LEMMA Half ==
    ASSUME NEW n \in Nat
    PROVE  /\ n \div 2 \in Nat /\ (n # 0 => n \div 2 < n)
           /\ n = 2 * (n \div 2) \/ n = 2 * (n \div 2) + 1
  OBVIOUS

\* BitLen satisfies its recursive definition.
LEMMA BitLenDef ==
    /\ BitLen[0] = 0
    /\ \A n \in Nat \ {0} : BitLen[n] = 1 + BitLen[n \div 2]
    /\ \A n \in Nat : BitLen[n] \in Nat
<1> DEFINE size == [i \in Nat |-> i]
           before == [i \in Nat |-> i \div 2]
           base == [i \in Nat |-> 0]
           step == [t \in Nat \X Nat |-> 1 + t[2]]
<1>1. PICK f : Solution(f, Nat, Nat, size, before, base, step)
  <2>1. size \in [Nat -> Nat] /\ before \in [Nat -> Nat] /\ base \in [Nat -> Nat]
    BY Half
  <2>2. step \in [Nat \X Nat -> Nat]
    OBVIOUS
  <2>3. \A i \in Nat : size[i] # 0 => size[before[i]] < size[i]
    BY Half
  <2>4. Recursive(Nat, Nat, size, before, base, step)
    BY <2>1, <2>2, <2>3, Zenon DEF Recursive
  <2> HIDE DEF size, before, base, step
  <2> QED
    BY <2>4, Recursion
<1> f \in [Nat -> Nat]
  BY <1>1 DEF Solution
<1>2. ASSUME NEW n \in Nat
      PROVE  f[n] = IF n = 0 THEN 0 ELSE 1 + f[n \div 2]
  <2>1. n \div 2 \in Nat /\ <<n, f[n \div 2]>> \in Nat \X Nat
    BY Half
  <2>2. n # 0 => f[n] = step[<<n, f[n \div 2]>>]
    BY <1>1, <2>1 DEF Solution
  <2>3. n = 0 => f[n] = 0
    BY <1>1 DEF Solution
  <2>4. step[<<n, f[n \div 2]>>] = 1 + f[n \div 2]
    BY <2>1
  <2> QED
    BY <2>2, <2>3, <2>4
<1>3. f = [n \in Nat |-> IF n = 0 THEN 0 ELSE 1 + f[n \div 2]]
  BY <1>2
<1>4. BitLen = [n \in Nat |-> IF n = 0 THEN 0 ELSE 1 + BitLen[n \div 2]]
  BY <1>3, Zenon DEF BitLen
<1>5. \A n \in Nat : BitLen[n] = IF n = 0 THEN 0 ELSE 1 + BitLen[n \div 2]
  BY <1>4
<1> DEFINE Wrong == {n \in Nat : BitLen[n] \notin Nat}
<1>6. ASSUME Wrong # {} PROVE FALSE
  <2>1. PICK n \in Wrong : \A m \in Wrong : n <= m
    BY <1>6, Smallest
  <2>2. n \in Nat /\ n # 0
    BY <1>5, <2>1
  <2>3. n \div 2 \in Nat /\ n \div 2 < n
    BY <2>2, Half
  <2>4. BitLen[n \div 2] \in Nat
    BY <2>1, <2>2, <2>3
  <2> QED
    BY <1>5, <2>1, <2>2, <2>4
<1> QED
  BY <1>5, <1>6

\* A number of k bits is at least 2^(k - 1) and less than 2^k.
LEMMA BitLenBounds ==
    ASSUME NEW n \in Nat \ {0}
    PROVE  /\ BitLen[n] \in Nat
           /\ Power(2, BitLen[n]) \in Nat
           /\ Power(2, BitLen[n]) <= 2 * n /\ n < Power(2, BitLen[n])
<1> DEFINE Wrong == {i \in Nat \ {0} :
                        ~(Power(2, BitLen[i]) <= 2 * i /\ i < Power(2, BitLen[i]))}
<1>1. ASSUME Wrong # {} PROVE FALSE
  <2>1. PICK i \in Wrong : \A j \in Wrong : i <= j
    <3>1. Wrong \subseteq Nat
      OBVIOUS
    <3> QED
      BY <1>1, <3>1, Smallest
  <2>2. i \in Nat \ {0} /\ ~(Power(2, BitLen[i]) <= 2 * i /\ i < Power(2, BitLen[i]))
    BY <2>1
  <2> DEFINE h == i \div 2
  <2>3. h \in Nat /\ h < i /\ (i = 2 * h \/ i = 2 * h + 1)
    BY <2>2, Half
  <2>4. BitLen[i] = BitLen[h] + 1 /\ BitLen[h] \in Nat
    BY <2>2, <2>3, BitLenDef
  <2>5. Power(2, BitLen[i]) = 2 * Power(2, BitLen[h]) /\ Power(2, BitLen[h]) \in Nat
    BY <2>4, PowerDef
  <2> HIDE DEF h
  <2>6. CASE h = 0
    <3>1. Power(2, BitLen[h]) = 1
      BY <2>6, BitLenDef, PowerDef
    <3> QED
      BY <2>2, <2>3, <2>5, <2>6, <3>1
  <2>7. CASE h # 0
    <3>1. Power(2, BitLen[h]) <= 2 * h /\ h < Power(2, BitLen[h])
      BY <2>1, <2>2, <2>3, <2>7
    <3> QED
      BY <2>2, <2>3, <2>5, <3>1
  <2> QED
    BY <2>6, <2>7
<1>2. BitLen[n] \in Nat /\ Power(2, BitLen[n]) \in Nat
  BY BitLenDef, PowerDef
<1> QED
  BY <1>1, <1>2

\* Up(e) / Down(e) is 2^e.
LEMMA UpDown ==
    ASSUME NEW e \in Int
    PROVE  /\ Up(e) \in Nat \ {0} /\ Down(e) \in Nat \ {0}
           /\ \A k \in Nat : k + e \in Nat =>
                 Power(2, k + e) * Down(e) = Power(2, k) * Up(e)
           /\ \/ Up(e) = 2 * Up(e - 1) /\ Down(e - 1) = Down(e)
              \/ Up(e - 1) = Up(e) /\ Down(e - 1) = 2 * Down(e)
<1>1. CASE e > 0
  <2>1. Up(e) = Power(2, e) /\ Down(e) = 1
    BY <1>1 DEF Up, Down
  <2>2. e \in Nat /\ e - 1 \in Nat
    BY <1>1
  <2>3. Power(2, e) \in Nat \ {0}
    BY <2>2, PowerPositive
  <2>4. \A k \in Nat : Power(2, k + e) = Power(2, k) * Power(2, e) /\ Power(2, k + e) \in Nat
    BY <2>2, PowerSum, PowerDef
  <2>5. Power(2, e) = 2 * Power(2, e - 1)
    <3>1. (e - 1) + 1 = e
      OBVIOUS
    <3> QED
      BY <2>2, <3>1, PowerDef
  <2>6. Up(e - 1) = Power(2, e - 1) /\ Down(e - 1) = 1
    <3>1. CASE e = 1
      BY <3>1, PowerDef DEF Up, Down
    <3>2. CASE e # 1
      BY <1>1, <3>2 DEF Up, Down
    <3> QED
      BY <3>1, <3>2
  <2> QED
    BY <2>1, <2>3, <2>4, <2>5, <2>6
<1>2. CASE e <= 0
  <2>1. Up(e) = 1 /\ Up(e - 1) = 1
    BY <1>2 DEF Up
  <2>2. -e \in Nat /\ (-e) + 1 = -(e - 1) /\ e - 1 < 0
    BY <1>2
  <2>3. Down(e) = Power(2, -e)
    <3>1. CASE e = 0
      <4>1. -e <= 0
        BY <3>1, <1>2, <2>2
      <4> QED
        BY <2>2, <3>1, <4>1, PowerDef DEF Down
    <3>2. CASE e # 0
      BY <1>2, <3>2 DEF Down
    <3> QED
      BY <3>1, <3>2
  <2>4. Down(e - 1) = Power(2, (-e) + 1)
    BY <2>2 DEF Down
  <2>5. Power(2, (-e) + 1) = 2 * Power(2, -e) /\ Power(2, -e) \in Nat \ {0}
    BY <2>2, PowerDef, PowerPositive
  <2>6. ASSUME NEW k \in Nat, k + e \in Nat
        PROVE  Power(2, k + e) * Power(2, -e) = Power(2, k) * 1
    <3>1. Power(2, (k + e) + (-e)) = Power(2, k + e) * Power(2, -e)
      BY <2>2, <2>6, PowerSum
    <3>2. (k + e) + (-e) = k
      OBVIOUS
    <3>3. Power(2, k) \in Nat
      BY PowerDef
    <3> QED
      BY <3>1, <3>2, <3>3
  <2> QED
    BY <2>1, <2>3, <2>4, <2>5, <2>6
<1> QED
  BY <1>1, <1>2

\* n * u / (d * v) has P bits, for a power of two u / v.
Normal(n, d, P, e) ==
    /\ n * Up(e) >= Power(2, P - 1) * d * Down(e)
    /\ n * Up(e) < Power(2, P) * d * Down(e)

\* Inequalities of products.
LEMMA Products ==
    /\ \A x, y, z \in Nat : x <= y => x * z <= y * z /\ z * x <= z * y
    /\ \A x, y \in Nat, z \in Nat \ {0} : x < y => x * z < y * z
    /\ \A x, y \in Nat, z \in Nat \ {0} : x * z <= y * z => x <= y
    /\ \A x, y \in Nat : x * y \in Nat
  OBVIOUS

\* The exponent that Rounded looks for is one of the two it tries.
LEMMA Exponent ==
    ASSUME NEW p \in Nat \ {0}, NEW n \in Nat \ {0}, NEW d \in Nat \ {0}, NEW shift,
           shift = p - BitLen[n] + BitLen[d]
    PROVE  \E e \in {shift - 1, shift} : Normal(n, d, p, e)
<1>1. p \in Nat /\ p - 1 \in Nat
  OBVIOUS
<1> DEFINE N == Power(2, BitLen[n])
           D == Power(2, BitLen[d])
           Q == Power(2, p)
           H == Power(2, p - 1)
           u == Up(shift)
           v == Down(shift)
           U == Up(shift - 1)
           V == Down(shift - 1)
<1>2. BitLen[n] \in Nat /\ BitLen[d] \in Nat /\ shift \in Int /\ shift - 1 \in Int
  BY <1>1, BitLenDef
<1>3. N \in Nat /\ N <= 2 * n /\ n < N /\ D \in Nat /\ D <= 2 * d /\ d < D
  BY BitLenBounds
<1>4. Q \in Nat /\ H \in Nat /\ Q = 2 * H
  <2>1. (p - 1) + 1 = p
    BY <1>1
  <2> QED
    BY <1>1, <2>1, PowerDef
<1>5. /\ u \in Nat \ {0} /\ v \in Nat \ {0} /\ U \in Nat \ {0} /\ V \in Nat \ {0}
      /\ (u = 2 * U /\ V = v) \/ (U = u /\ V = 2 * v)
  BY <1>2, UpDown
<1>6. (Q * D) * v = N * u
  <2>1. BitLen[n] + shift = p + BitLen[d] /\ BitLen[n] + shift \in Nat
    BY <1>1, <1>2
  <2>2. Power(2, BitLen[n] + shift) * v = N * u
    BY <1>2, <2>1, UpDown
  <2>3. Power(2, p + BitLen[d]) = Q * D
    BY <1>1, <1>2, PowerSum
  <2> QED
    BY <2>1, <2>2, <2>3
<1>7. Normal(n, d, p, shift) <=> n * u >= H * d * v /\ n * u < Q * d * v
  BY DEF Normal
<1>8. Normal(n, d, p, shift - 1) <=> n * U >= H * d * V /\ n * U < Q * d * V
  BY DEF Normal
<1> HIDE DEF N, D, Q, H, u, v, U, V
<1>9. /\ n * u \in Nat /\ H * d * v \in Nat /\ n * U \in Nat /\ H * d * V \in Nat
      /\ Q * d * v = 2 * (H * d * v) /\ Q * d * V = 2 * (H * d * V)
  BY <1>4, <1>5
<1>10. 2 * (H * d * v) <= 2 * (n * u)
  <2>1. (Q * d) * v <= (Q * D) * v
    <3>1. Q * d <= Q * D /\ Q * d \in Nat /\ Q * D \in Nat
      BY <1>3, <1>4, Products
    <3> QED
      BY <1>5, <3>1, Products
  <2>2. N * u <= (2 * n) * u
    BY <1>3, <1>5, Products
  <2>3. (2 * n) * u = 2 * (n * u)
    BY <1>5
  <2>4. N * u \in Nat /\ (Q * d) * v \in Nat
    BY <1>3, <1>4, <1>5, Products
  <2> QED
    BY <1>6, <1>9, <2>1, <2>2, <2>3, <2>4
<1>11. n * u < 2 * (Q * d * v)
  <2>1. n * u < N * u
    BY <1>3, <1>5, Products
  <2>2. (Q * D) * v <= (Q * (2 * d)) * v
    <3>1. Q * D <= Q * (2 * d) /\ Q * D \in Nat /\ Q * (2 * d) \in Nat
      BY <1>3, <1>4, Products
    <3> QED
      BY <1>5, <3>1, Products
  <2>3. (Q * (2 * d)) * v = 2 * (Q * d * v)
    BY <1>4, <1>5
  <2>4. N * u \in Nat /\ Q * d * v \in Nat
    BY <1>3, <1>4, <1>5, Products
  <2> QED
    BY <1>6, <1>9, <2>1, <2>2, <2>3, <2>4
<1>12. CASE n * u < Q * d * v
  <2>1. H * d * v <= n * u
    BY <1>9, <1>10
  <2> QED
    BY <1>7, <1>9, <1>12, <2>1
<1>13. CASE n * u >= Q * d * v
  <2>1. CASE u = 2 * U /\ V = v
    <3>1. n * u = 2 * (n * U)
      BY <1>5, <2>1
    <3>2. n * U >= H * d * V /\ n * U < Q * d * V
      BY <1>9, <1>11, <1>13, <2>1, <3>1
    <3> QED
      BY <1>8, <3>2
  <2>2. CASE U = u /\ V = 2 * v
    <3>1. H * d * V = 2 * (H * d * v)
      BY <1>4, <1>5, <2>2
    <3>2. n * U >= H * d * V /\ n * U < Q * d * V
      BY <1>9, <1>11, <1>13, <2>2, <3>1
    <3> QED
      BY <1>8, <3>2
  <2> QED
    BY <1>5, <2>1, <2>2
<1>14. n * u < Q * d * v \/ n * u >= Q * d * v
  BY <1>9
<1> QED
  BY <1>12, <1>13, <1>14

\* Nearest is off by at most one half.
LEMMA NearestClose ==
    ASSUME NEW a \in Nat, NEW b \in Nat \ {0}
    PROVE  /\ Nearest(a, b) \in Nat
           /\ 2 * (Nearest(a, b) * b) <= 2 * a + b
           /\ 2 * a <= 2 * (Nearest(a, b) * b) + b
<1> DEFINE q == a \div b
           m == a % b
<1>1. q \in Int /\ m \in Int /\ q >= 0 /\ m >= 0 /\ m < b
  OBVIOUS
<1>2. \A x, y \in Int : x = a \div b /\ y = a % b => a = b * x + y
  OBVIOUS
<1>3. a = b * q + m
  BY <1>1, <1>2
<1>4. Nearest(a, b) = IF 2 * m > b \/ (2 * m = b /\ q % 2 = 1) THEN q + 1 ELSE q
  BY DEF Nearest
<1> HIDE DEF q, m
<1>5. q * b = b * q /\ (q + 1) * b = b * q + b /\ b * q \in Nat
  BY <1>1
<1> QED
  BY <1>1, <1>3, <1>4, <1>5

\* The fraction r is n / d but for one part in 2^p.
Close(p, r, n, d) ==
    /\ r[1] \in Nat /\ r[2] \in Nat \ {0}
    /\ Power(2, p) * (r[1] * d) <= Power(2, p) * (n * r[2]) + n * r[2]
    /\ Power(2, p) * (n * r[2]) <= Power(2, p) * (r[1] * d) + n * r[2]

\* One rounding of math/big.
LEMMA RoundedClose ==
    ASSUME NEW p \in Nat \ {0}, NEW n \in Nat, NEW d \in Nat \ {0}
    PROVE  Close(p, Rounded(p, n, d), n, d)
<1>1. p \in Nat /\ p - 1 \in Nat
  OBVIOUS
<1> DEFINE Q == Power(2, p)
           H == Power(2, p - 1)
<1>2. Q \in Nat /\ H \in Nat /\ Q = 2 * H
  <2>1. (p - 1) + 1 = p
    BY <1>1
  <2> QED
    BY <1>1, <2>1, PowerDef
<1>3. CASE n = 0
  <2>1. Rounded(p, n, d) = <<0, 1>>
    BY <1>3 DEF Rounded
  <2> HIDE DEF Q, H
  <2>2. 0 * d = 0 /\ n * 1 = 0 /\ Q * 0 = 0
    BY <1>2, <1>3
  <2> QED
    BY <2>1, <2>2 DEF Close, Q
<1>4. CASE n # 0
  <2> DEFINE shift == p - BitLen[n] + BitLen[d]
             e == CHOOSE i \in {shift - 1, shift} : Normal(n, d, p, i)
  <2>1. \E i \in {shift - 1, shift} : Normal(n, d, p, i)
    BY <1>4, Exponent
  <2>2. e \in {shift - 1, shift} /\ Normal(n, d, p, e)
    BY <2>1
  <2>3. Rounded(p, n, d) = <<Nearest(n * Up(e), d * Down(e)) * Down(e), Up(e)>>
    BY <1>4 DEF Rounded, Normal
  <2>4. shift \in Int /\ shift - 1 \in Int
    BY <1>1, BitLenDef
  <2>5. e \in Int
    BY <2>2, <2>4
  <2> HIDE DEF e
  <2> DEFINE u == Up(e)
             v == Down(e)
             a == n * u
             b == d * v
             R == Nearest(a, b)
  <2>6. u \in Nat \ {0} /\ v \in Nat \ {0}
    BY <2>5, UpDown
  <2>7. a \in Nat /\ b \in Nat \ {0}
    BY <2>6
  <2>8. H * b <= a
    <3>1. a >= H * d * v
      BY <2>2 DEF Normal
    <3> HIDE DEF H, u, v
    <3>2. H * d * v = H * (d * v) /\ H * (d * v) \in Nat
      BY <1>2, <2>6
    <3> QED
      BY <2>7, <3>1, <3>2
  <2>9. R \in Nat /\ 2 * (R * b) <= 2 * a + b /\ 2 * a <= 2 * (R * b) + b
    BY <2>7, NearestClose
  <2>10. Rounded(p, n, d) = <<R * v, u>>
    BY <2>3
  <2>11. (R * v) * d = R * b /\ n * u = a /\ R * v \in Nat
    <3> HIDE DEF R, u, v
    <3> QED
      BY <2>6, <2>9
  <2> HIDE DEF R, a, b, u, v, Q, H
  <2>12. Q * (R * b) <= Q * a + a /\ Q * a <= Q * (R * b) + a
    <3>1. R * b \in Nat
      BY <2>7, <2>9, Products
    <3>2. \A h, x, y, z \in Nat : 2 * x <= 2 * y + z => (2 * h) * x <= (2 * h) * y + h * z
      <4>1. ASSUME NEW h \in Nat, NEW x \in Nat, NEW y \in Nat, NEW z \in Nat, 2 * x <= 2 * y + z
            PROVE  (2 * h) * x <= (2 * h) * y + h * z
        <5>1. h * (2 * x) <= h * (2 * y + z)
          BY <4>1, Products
        <5>2. h * (2 * x) = (2 * h) * x /\ h * (2 * y + z) = (2 * h) * y + h * z
          OBVIOUS
        <5> QED
          BY <5>1, <5>2
      <4> QED
        BY <4>1
    <3>3. (2 * H) * (R * b) <= (2 * H) * a + H * b
      BY <1>2, <2>7, <2>9, <3>1, <3>2
    <3>4. (2 * H) * a <= (2 * H) * (R * b) + H * b
      BY <1>2, <2>7, <2>9, <3>1, <3>2
    <3>5. Q * a \in Nat /\ Q * (R * b) \in Nat /\ H * b \in Nat
      BY <1>2, <2>7, <3>1, Products
    <3> QED
      BY <1>2, <2>7, <2>8, <3>3, <3>4, <3>5
  <2> QED
    BY <2>6, <2>10, <2>11, <2>12 DEF Close, Q
<1> QED
  BY <1>3, <1>4

-------------------------------------------------------------------------------
(* Fees: for every price a node answers, limit and factor.                 *)

FeesSpec == InitFees /\ [][NextFees]_fee

\* A legacy fee is cut to the limit.
LEMMA StaticWithin ==
    ASSUME NEW suggested \in Prices, NEW limit \in Prices \cup {NilPrice}, NEW factor \in Factors
    PROVE  \E price \in Int :
               /\ StaticGasPrice(suggested, limit, factor) = <<price>>
               /\ limit # NilPrice => price <= limit
<1> DEFINE price == MultiplyGasPrice(suggested, factor)
           r == Rounded(FloatBits(suggested), suggested * factor[1], factor[2])
<1>1. price \in Int /\ limit \in Int
  <2>1. \A a \in Int, b \in Nat \ {0} : a \div b \in Int
    OBVIOUS
  <2>2. suggested * factor[1] \in Nat /\ factor[2] \in Nat \ {0}
    BY FeesAssumption
  <2>3. FloatBits(suggested) \in Nat \ {0}
    BY FeesAssumption, BitLenDef DEF FloatBits
  <2>4. r[1] \in Nat /\ r[2] \in Nat \ {0}
    BY <2>2, <2>3, RoundedClose DEF Close
  <2>5. price = r[1] \div r[2]
    BY DEF MultiplyGasPrice
  <2> HIDE DEF r, price
  <2> QED
    BY <2>1, <2>4, <2>5, FeesAssumption DEF NilPrice
<1>2. StaticGasPrice(suggested, limit, factor) = <<IF Limited(price, limit) THEN limit ELSE price>>
  BY DEF StaticGasPrice
<1> HIDE DEF price
<1>3. CASE Limited(price, limit)
  BY <1>1, <1>2, <1>3
<1>4. CASE ~Limited(price, limit)
  BY <1>1, <1>2, <1>4 DEF Limited
<1> QED
  BY <1>3, <1>4

\* Wherever the base fee lies, a dynamic fee can be included and is under the
\* limit, unless the base fee alone is above it.
LEMMA LondonWithin ==
    ASSUME NEW base \in Prices, NEW tip \in Prices, NEW limit \in Prices \cup {NilPrice}
    PROVE  \E t, c \in Int :
               /\ EstimateGasLondon(base, tip, limit) = <<t, c>>
               /\ base <= c /\ t \in 0..c
               /\ limit # NilPrice =>
                     IF base > limit THEN c = base + LowestTip
                     ELSE c <= limit /\ base + t <= limit
<1>1. base \in Nat /\ tip \in Nat /\ limit \in Int /\ LowestTip \in Nat
      /\ (limit # NilPrice => limit \in Nat)
  BY FeesAssumption DEF NilPrice
<1>2. CASE Limited(base, limit)
  <2>1. EstimateGasLondon(base, tip, limit) = <<LowestTip, base + LowestTip>>
    BY <1>2 DEF EstimateGasLondon
  <2> QED
    BY <1>1, <1>2, <2>1 DEF Limited
<1>3. CASE ~Limited(base, limit) /\ Limited(tip + 2 * base, limit)
  <2>1. EstimateGasLondon(base, tip, limit) = <<limit - base, limit>>
    BY <1>3 DEF EstimateGasLondon
  <2> QED
    BY <1>1, <1>3, <2>1 DEF Limited
<1>4. CASE ~Limited(base, limit) /\ ~Limited(tip + 2 * base, limit)
  <2>1. EstimateGasLondon(base, tip, limit) = <<tip, tip + 2 * base>>
    BY <1>4 DEF EstimateGasLondon
  <2> QED
    BY <1>1, <1>4, <2>1 DEF Limited
<1> QED
  BY <1>2, <1>3, <1>4

\* The state after a transaction is priced.
LEMMA PriceUsable ==
    ASSUME NEW base \in Prices \cup {NilPrice}, NEW limit \in Prices \cup {NilPrice},
           NEW tip \in Prices, NEW suggested \in Prices, NEW factor \in Factors,
           PriceTransaction(base, tip, suggested, limit, factor)
    PROVE  FeeUsable'
<1> DEFINE prices == GasPrice(base, tip, suggested, limit, factor)
<1>1. fee' = [op |-> "price", base |-> base, limit |-> limit, prices |-> prices,
              type |-> TxType(prices)]
  BY DEF PriceTransaction
<1>2. /\ fee'.op = "price" /\ fee'.base = base /\ fee'.limit = limit
      /\ fee'.prices = prices /\ fee'.type = TxType(prices)
  BY <1>1
<1> HIDE DEF prices
<1>3. CASE base = NilPrice
  <2>1. prices = StaticGasPrice(suggested, limit, factor)
    BY <1>3 DEF prices, GasPrice
  <2>2. PICK price \in Int : prices = <<price>> /\ (limit # NilPrice => price <= limit)
    BY <2>1, StaticWithin
  <2>3. Len(prices) = 1 /\ prices[1] = price /\ TxType(prices) = "legacy"
    BY <2>2 DEF TxType
  <2> QED
    BY <1>2, <2>2, <2>3 DEF FeeUsable, Includable, WithinLimit, Dynamic
<1>4. CASE base # NilPrice
  <2>1. prices = EstimateGasLondon(base, tip, limit) /\ base \in Prices
    BY <1>4 DEF prices, GasPrice
  <2>2. PICK t, c \in Int :
           /\ prices = <<t, c>>
           /\ base <= c /\ t \in 0..c
           /\ limit # NilPrice =>
                 IF base > limit THEN c = base + LowestTip
                 ELSE c <= limit /\ base + t <= limit
    BY <2>1, LondonWithin
  <2>3. Len(prices) = 2 /\ prices[1] = t /\ prices[2] = c /\ TxType(prices) = "dynamic"
    BY <2>2 DEF TxType
  <2>4. Dynamic'
    BY <1>2, <2>3 DEF Dynamic
  <2> QED
    BY <1>2, <2>2, <2>3, <2>4 DEF FeeUsable, Includable, WithinLimit
<1> QED
  BY <1>3, <1>4

\* Every fee is within the user's limit, or the lowest the base fee allows,
\* and can be included, for all prices, limits and factors.
THEOREM FeesUsable == FeesSpec => []FeeUsable
<1>1. InitFees => FeeUsable
  BY DEF InitFees, FeeUsable, Includable, WithinLimit, Dynamic
<1>2. FeeUsable /\ [NextFees]_fee => FeeUsable'
  <2> SUFFICES ASSUME FeeUsable, [NextFees]_fee PROVE FeeUsable'
    OBVIOUS
  <2>1. CASE UNCHANGED fee
    BY <2>1 DEF FeeUsable, Includable, WithinLimit, Dynamic
  <2>2. ASSUME NEW digits \in Digits, NEW places \in Places, NEW decimal \in Places,
               ConvertAmount(digits, places, decimal)
        PROVE  FeeUsable'
    <3>1. fee'.op = "amount"
      BY <2>2 DEF ConvertAmount
    <3> QED
      BY <3>1 DEF FeeUsable, Includable, WithinLimit, Dynamic
  <2> QED
    BY <2>1, <2>2, PriceUsable DEF NextFees
<1> QED
  BY <1>1, <1>2, PTL DEF FeesSpec

-------------------------------------------------------------------------------
(* Amounts that a user types                                               *)

\* Three factors of p / q in a row, in either direction.
LEMMA ThreeFactors ==
    ASSUME NEW p \in Nat, NEW q \in Nat, NEW n \in Nat, NEW d \in Nat, NEW T \in Nat,
           NEW a \in Nat, NEW b \in Nat \ {0}, NEW w \in Nat, NEW v \in Nat \ {0},
           NEW z \in Nat, NEW y \in Nat
    PROVE  /\ /\ p * (a * d) <= q * (n * b)
              /\ p * w <= q * (T * v)
              /\ p * (z * (b * v)) <= q * ((a * w) * y)
              => (p * p * p) * (z * d) <= (q * q * q) * ((n * T) * y)
           /\ /\ p * (a * d) >= q * (n * b)
              /\ p * w >= q * (T * v)
              /\ p * (z * (b * v)) >= q * ((a * w) * y)
              => (p * p * p) * (z * d) >= (q * q * q) * ((n * T) * y)
<1> DEFINE A == p * (a * d)
           B == q * (n * b)
           C == p * w
           D == q * (T * v)
           E == p * (z * (b * v))
           F == q * ((a * w) * y)
           k == p * p * d
           l == q * y
           L == (p * p * p) * (z * d)
           R == (q * q * q) * ((n * T) * y)
           c == b * v
<1>1. A \in Nat /\ B \in Nat /\ C \in Nat /\ D \in Nat /\ E \in Nat /\ F \in Nat
      /\ k \in Nat /\ l \in Nat /\ L \in Nat /\ R \in Nat /\ c \in Nat \ {0}
  OBVIOUS
<1>2. E * k = L * c
  OBVIOUS
<1>3. F * k = (A * C) * l
  OBVIOUS
<1>4. (B * D) * l = R * c
  OBVIOUS
<1> HIDE DEF A, B, C, D, E, F, k, l, L, R, c
<1>5. ASSUME NEW e \in Nat, NEW f \in Nat, NEW g \in Nat, NEW h \in Nat, e <= f, g <= h
      PROVE  e * g <= f * h /\ e * g \in Nat /\ f * h \in Nat
  <2>1. e * g <= f * g /\ f * g <= f * h
    BY <1>5, Products
  <2>2. e * g \in Nat /\ f * g \in Nat /\ f * h \in Nat
    BY Products
  <2> QED
    BY <2>1, <2>2
<1>6. ASSUME A <= B, C <= D, E <= F
      PROVE  L <= R
  <2>1. A * C <= B * D /\ A * C \in Nat /\ B * D \in Nat
    BY <1>1, <1>5, <1>6
  <2>2. (A * C) * l <= (B * D) * l /\ (A * C) * l \in Nat /\ (B * D) * l \in Nat
    BY <1>1, <2>1, Products
  <2>3. E * k <= F * k /\ E * k \in Nat /\ F * k \in Nat
    BY <1>1, <1>6, Products
  <2>4. L * c <= R * c
    BY <1>2, <1>3, <1>4, <2>2, <2>3
  <2> QED
    BY <1>1, <2>4, Products
<1>7. ASSUME A >= B, C >= D, E >= F
      PROVE  L >= R
  <2>1. B * D <= A * C /\ A * C \in Nat /\ B * D \in Nat
    BY <1>1, <1>5, <1>7
  <2>2. (B * D) * l <= (A * C) * l /\ (A * C) * l \in Nat /\ (B * D) * l \in Nat
    BY <1>1, <2>1, Products
  <2>3. F * k <= E * k /\ E * k \in Nat /\ F * k \in Nat
    BY <1>1, <1>7, Products
  <2>4. R * c <= L * c
    BY <1>2, <1>3, <1>4, <2>2, <2>3
  <2>5. R <= L
    BY <1>1, <2>4, Products
  <2> QED
    BY <1>1, <2>5
<1> QED
  BY <1>6, <1>7 DEF A, B, C, D, E, F, L, R

\* Writing z / y with the places of T and cutting it at the point is off by one
\* at most.
LEMMA CutClose ==
    ASSUME NEW z \in Nat, NEW y \in Nat \ {0}, NEW T \in Nat \ {0}, NEW V,
           V = Nearest(z * T, y) \div T
    PROVE  V \in Nat /\ V * y <= z + y /\ z <= (V + 1) * y
<1> DEFINE N == Nearest(z * T, y)
<1>1. z * T \in Nat
  OBVIOUS
<1>2. N \in Nat /\ 2 * (N * y) <= 2 * (z * T) + y /\ 2 * (z * T) <= 2 * (N * y) + y
  BY <1>1, NearestClose
<1>3. V \in Nat /\ T * V <= N /\ N < T * V + T
  <2> HIDE DEF N
  <2>1. N \div T \in Int /\ N \div T >= 0
    BY <1>2
  <2>2. T * (N \div T) <= N /\ N < T * (N \div T) + T
    BY <1>2
  <2>3. V = N \div T
    BY DEF N
  <2> QED
    BY <2>1, <2>2, <2>3
<1> HIDE DEF N
<1>4. T * V \in Nat /\ N * y \in Nat /\ T * V + T \in Nat
  BY <1>2, <1>3, Products
<1>5. V * y <= z + y
  <2>1. (T * V) * y <= N * y
    BY <1>2, <1>3, <1>4, Products
  <2>2. y <= T * y /\ T * y \in Nat
    <3>1. 1 * y <= T * y /\ 1 * y = y
      BY Products
    <3> QED
      BY <3>1, Products
  <2>3. (T * V) * y = (V * y) * T /\ (z + y) * T = z * T + T * y /\ V * y \in Nat
        /\ (V * y) * T \in Nat
    BY <1>3
  <2>4. (V * y) * T <= (z + y) * T
    BY <1>1, <1>2, <1>4, <2>1, <2>2, <2>3
  <2> QED
    BY <2>3, <2>4, Products
<1>6. z <= (V + 1) * y
  <2>1. (N + 1) * y <= (T * V + T) * y
    <3>1. N + 1 <= T * V + T /\ N + 1 \in Nat
      BY <1>2, <1>3, <1>4
    <3> QED
      BY <1>4, <3>1, Products
  <2>2. (N + 1) * y = N * y + y /\ (T * V + T) * y = ((V + 1) * y) * T
        /\ (V + 1) * y \in Nat /\ ((V + 1) * y) * T \in Nat
    BY <1>2, <1>3
  <2>3. z * T <= ((V + 1) * y) * T
    BY <1>1, <1>2, <1>4, <2>1, <2>2
  <2> QED
    BY <2>2, <2>3, Products
<1> QED
  BY <1>3, <1>5, <1>6

\* Three roundings and a cut, for a precision of two bits or more.
LEMMA RoundingBound ==
    ASSUME NEW H \in Nat \ {0}, NEW Q, Q = 4 * H,
           NEW X \in Nat, NEW d \in Nat, NEW z \in Nat, NEW y \in Nat \ {0}, NEW V \in Nat,
           V * y <= z + y, z <= (V + 1) * y,
           (Q * Q * Q) * (z * d) <= ((Q + 1) * (Q + 1) * (Q + 1)) * (X * y),
           (Q * Q * Q) * (z * d) >= ((Q - 1) * (Q - 1) * (Q - 1)) * (X * y)
    PROVE  /\ (V * d) * H <= X * H + (X + H * d)
           /\ X * H <= (V * d) * H + (X + H * d)
<1> DEFINE C == Q * Q * Q
           S == Q * Q
           P == (Q + 1) * (Q + 1) * (Q + 1)
           M == (Q - 1) * (Q - 1) * (Q - 1)
<1>1. Q \in Nat \ {0} /\ Q >= 4 /\ Q - 1 \in Nat
  OBVIOUS
<1>2. C \in Nat /\ S \in Nat \ {0} /\ P \in Nat /\ M \in Nat /\ C = Q * S
  BY <1>1
<1>3. P <= C + 4 * S
  <2>1. 4 * Q <= Q * Q
    BY <1>1, Products
  <2>2. P = C + 3 * S + 3 * Q + 1
    BY <1>1
  <2> QED
    BY <1>1, <1>2, <2>1, <2>2
<1>4. C <= M + 4 * S
  <2>1. 4 * Q <= Q * Q
    BY <1>1, Products
  <2>2. M = C - 3 * S + 3 * Q - 1
    BY <1>1
  <2> QED
    BY <1>1, <1>2, <2>1, <2>2
<1>5. C * (z * d) <= P * (X * y) /\ C * (z * d) >= M * (X * y)
  OBVIOUS
<1> HIDE DEF C, S, P, M
<1>6. z * d \in Nat /\ X * y \in Nat /\ V * d \in Nat /\ V * y \in Nat /\ C * (z * d) \in Nat
      /\ P * (X * y) \in Nat /\ M * (X * y) \in Nat
  BY <1>2
<1>7. C * (V * d) <= P * X + C * d
  <2>1. (V * y) * (C * d) <= (z + y) * (C * d)
    <3>1. C * d \in Nat /\ z + y \in Nat
      BY <1>2
    <3> QED
      BY <1>6, <3>1, Products
  <2>2. (V * y) * (C * d) = (C * (V * d)) * y /\ (z + y) * (C * d) = C * (z * d) + (C * d) * y
        /\ P * (X * y) = (P * X) * y /\ (P * X + C * d) * y = (P * X) * y + (C * d) * y
    BY <1>2
  <2>3. C * (V * d) \in Nat /\ P * X + C * d \in Nat /\ (C * (V * d)) * y \in Nat
        /\ (P * X) * y \in Nat /\ (C * d) * y \in Nat
    BY <1>2
  <2>4. (C * (V * d)) * y <= (P * X + C * d) * y
    BY <1>5, <1>6, <2>1, <2>2, <2>3
  <2> QED
    BY <2>3, <2>4, Products
<1>8. M * X <= C * (V * d) + C * d
  <2>1. z * (C * d) <= ((V + 1) * y) * (C * d)
    <3>1. C * d \in Nat /\ (V + 1) * y \in Nat
      BY <1>2
    <3> QED
      BY <3>1, Products
  <2>2. z * (C * d) = C * (z * d) /\ ((V + 1) * y) * (C * d) = (C * (V * d) + C * d) * y
        /\ M * (X * y) = (M * X) * y
    BY <1>2
  <2>3. M * X \in Nat /\ C * (V * d) + C * d \in Nat /\ (M * X) * y \in Nat
        /\ (C * (V * d) + C * d) * y \in Nat
    BY <1>2
  <2>4. (M * X) * y <= (C * (V * d) + C * d) * y
    BY <1>5, <1>6, <2>1, <2>2, <2>3
  <2> QED
    BY <2>3, <2>4, Products
<1>9. (V * d) * H <= X * H + (X + H * d)
  <2>1. P * X <= (C + 4 * S) * X
    BY <1>2, <1>3, Products
  <2>2. C * (V * d) = (4 * ((V * d) * H)) * S
    BY <1>2
  <2>3. (C + 4 * S) * X + C * d = (4 * (X * H + (X + H * d))) * S
    BY <1>2
  <2>4. P * X \in Nat /\ (C + 4 * S) * X \in Nat /\ C * d \in Nat /\ C * (V * d) \in Nat
    BY <1>2, <1>6
  <2>5. C * (V * d) <= (C + 4 * S) * X + C * d
    BY <1>7, <2>1, <2>4
  <2>6. (4 * ((V * d) * H)) * S <= (4 * (X * H + (X + H * d))) * S
    BY <2>2, <2>3, <2>5
  <2>7. (V * d) * H \in Nat /\ X * H + (X + H * d) \in Nat
    OBVIOUS
  <2>8. 4 * ((V * d) * H) <= 4 * (X * H + (X + H * d))
    <3>1. 4 * ((V * d) * H) \in Nat /\ 4 * (X * H + (X + H * d)) \in Nat
      BY <2>7
    <3> QED
      BY <1>2, <2>6, <3>1, Products
  <2> QED
    BY <2>7, <2>8
<1>10. X * H <= (V * d) * H + (X + H * d)
  <2>1. C * X <= (M + 4 * S) * X
    BY <1>2, <1>4, Products
  <2>2. C * X = (4 * (X * H)) * S
    BY <1>2
  <2>3. (4 * S) * X + (C * (V * d) + C * d) = (4 * ((V * d) * H + (X + H * d))) * S
    BY <1>2
  <2>4. (M + 4 * S) * X = M * X + (4 * S) * X /\ M * X \in Nat /\ (4 * S) * X \in Nat
        /\ C * X \in Nat /\ C * (V * d) + C * d \in Nat
    BY <1>2
  <2>5. (4 * (X * H)) * S <= (4 * ((V * d) * H + (X + H * d))) * S
    BY <1>8, <2>1, <2>2, <2>3, <2>4
  <2>6. X * H \in Nat /\ (V * d) * H + (X + H * d) \in Nat
    OBVIOUS
  <2>7. 4 * (X * H) <= 4 * ((V * d) * H + (X + H * d))
    <3>1. 4 * (X * H) \in Nat /\ 4 * ((V * d) * H + (X + H * d)) \in Nat
      BY <2>6
    <3> QED
      BY <1>2, <2>5, <3>1, Products
  <2> QED
    BY <2>6, <2>7
<1> QED
  BY <1>9, <1>10

\* The amount that UserAmountToWei makes of what was typed.
LEMMA AmountBound ==
    ASSUME NEW digits \in Digits, NEW places \in Places, NEW decimal \in Places
    PROVE  LET V == UserAmountToWei(digits, places, decimal)
               X == digits * Power(10, decimal)
               d == Power(10, places)
               H == Power(2, Precision - 2)
           IN  /\ V \in Nat /\ X \in Nat /\ d \in Nat /\ H \in Nat
               /\ (V * d) * H <= X * H + (X + H * d)
               /\ X * H <= (V * d) * H + (X + H * d)
<1> DEFINE d == Power(10, places)
           T == Power(10, decimal)
           Q == Power(2, Precision)
           H == Power(2, Precision - 2)
           X == digits * T
           a == Rounded(Precision, digits, d)
           w == Rounded(Precision, T, 1)
           z == Rounded(Precision, a[1] * w[1], a[2] * w[2])
           V == Nearest(z[1] * T, z[2]) \div T
<1>0. Precision \in Nat \ {0} /\ 1 \in Nat \ {0}
  BY FeesAssumption
<1>1. digits \in Nat /\ places \in Nat /\ decimal \in Nat /\ Precision \in Nat /\ Precision - 2 \in Nat
  BY FeesAssumption
<1>2. d \in Nat \ {0} /\ T \in Nat \ {0} /\ H \in Nat \ {0} /\ Q \in Nat
  <2>1. 10 \in Nat \ {0} /\ 2 \in Nat \ {0}
    OBVIOUS
  <2>2. d \in Nat \ {0} /\ T \in Nat \ {0} /\ H \in Nat \ {0} /\ Q \in Nat \ {0}
    BY <1>1, <2>1, PowerPositive, Zenon
  <2> QED
    BY <2>2
<1>3. Q = 4 * H
  <2>1. Power(2, (Precision - 2) + 1) = 2 * H
    BY <1>1, PowerDef
  <2>2. Power(2, ((Precision - 2) + 1) + 1) = 2 * Power(2, (Precision - 2) + 1)
    BY <1>1, PowerDef
  <2>3. ((Precision - 2) + 1) + 1 = Precision
    BY <1>1
  <2> QED
    BY <1>2, <2>1, <2>2, <2>3
<1>4. UserAmountToWei(digits, places, decimal) = V
  BY DEF UserAmountToWei
<1>5. Close(Precision, a, digits, d)
  BY <1>1, <1>2, RoundedClose
<1>6. Close(Precision, w, T, 1)
  BY <1>0, <1>2, RoundedClose
<1> HIDE DEF a, w
<1>7. a[1] \in Nat /\ a[2] \in Nat \ {0} /\ w[1] \in Nat /\ w[2] \in Nat \ {0}
  BY <1>5, <1>6 DEF Close
<1>8. Close(Precision, z, a[1] * w[1], a[2] * w[2])
  <2>1. a[1] * w[1] \in Nat /\ a[2] * w[2] \in Nat \ {0}
    BY <1>7
  <2> QED
    BY <1>0, <2>1, RoundedClose
<1> HIDE DEF z
<1>9. z[1] \in Nat /\ z[2] \in Nat \ {0}
  BY <1>8 DEF Close
<1>10. V \in Nat /\ V * z[2] <= z[1] + z[2] /\ z[1] <= (V + 1) * z[2]
  BY <1>2, <1>9, CutClose
<1> DEFINE a1 == a[1]
           a2 == a[2]
           w1 == w[1]
           w2 == w[2]
           z1 == z[1]
           z2 == z[2]
<1>11. /\ Q * (a1 * d) <= Q * (digits * a2) + digits * a2
       /\ Q * (digits * a2) <= Q * (a1 * d) + digits * a2
  BY <1>5 DEF Close
<1>12. /\ Q * (w1 * 1) <= Q * (T * w2) + T * w2
       /\ Q * (T * w2) <= Q * (w1 * 1) + T * w2
  BY <1>6 DEF Close
<1>13. /\ Q * (z1 * (a2 * w2)) <= Q * ((a1 * w1) * z2) + (a1 * w1) * z2
       /\ Q * ((a1 * w1) * z2) <= Q * (z1 * (a2 * w2)) + (a1 * w1) * z2
  BY <1>8 DEF Close
<1>14. /\ a1 \in Nat /\ a2 \in Nat \ {0} /\ w1 \in Nat /\ w2 \in Nat \ {0}
       /\ z1 \in Nat /\ z2 \in Nat \ {0}
  BY <1>7, <1>9
<1>15. V \in Nat /\ V * z2 <= z1 + z2 /\ z1 <= (V + 1) * z2
  BY <1>10
<1> HIDE DEF d, T, Q, H, a1, a2, w1, w2, z1, z2, V
<1>16. Q - 1 \in Nat /\ Q + 1 \in Nat
  BY <1>2, <1>3
<1>17. ASSUME NEW x \in Nat, NEW y \in Nat, Q * x <= Q * y + y, Q * y <= Q * x + y
       PROVE  Q * x <= (Q + 1) * y /\ Q * x >= (Q - 1) * y
  <2>1. (Q + 1) * y = Q * y + y /\ (Q - 1) * y = Q * y - y /\ Q * y \in Nat /\ Q * x \in Nat
    BY <1>2
  <2> QED
    BY <1>17, <2>1
<1>18. Q * (a1 * d) <= (Q + 1) * (digits * a2) /\ Q * (a1 * d) >= (Q - 1) * (digits * a2)
  <2>1. a1 * d \in Nat /\ digits * a2 \in Nat
    BY <1>1, <1>2, <1>14
  <2> QED
    BY <1>11, <1>17, <2>1
<1>19. Q * w1 <= (Q + 1) * (T * w2) /\ Q * w1 >= (Q - 1) * (T * w2)
  <2>1. w1 * 1 = w1 /\ T * w2 \in Nat
    BY <1>2, <1>14
  <2> QED
    BY <1>12, <1>14, <1>17, <2>1
<1>20. /\ Q * (z1 * (a2 * w2)) <= (Q + 1) * ((a1 * w1) * z2)
       /\ Q * (z1 * (a2 * w2)) >= (Q - 1) * ((a1 * w1) * z2)
  <2>1. z1 * (a2 * w2) \in Nat /\ (a1 * w1) * z2 \in Nat
    BY <1>14
  <2> QED
    BY <1>13, <1>17, <2>1
<1>21. (Q * Q * Q) * (z1 * d) <= ((Q + 1) * (Q + 1) * (Q + 1)) * (X * z2)
  BY <1>1, <1>2, <1>14, <1>16, <1>18, <1>19, <1>20, ThreeFactors
<1>22. (Q * Q * Q) * (z1 * d) >= ((Q - 1) * (Q - 1) * (Q - 1)) * (X * z2)
  BY <1>1, <1>2, <1>14, <1>16, <1>18, <1>19, <1>20, ThreeFactors
<1>23. X \in Nat
  BY <1>1, <1>2
<1> HIDE DEF X
<1>24. (V * d) * H <= X * H + (X + H * d) /\ X * H <= (V * d) * H + (X + H * d)
  BY <1>2, <1>3, <1>14, <1>15, <1>21, <1>22, <1>23, RoundingBound
<1> QED
  BY <1>2, <1>4, <1>15, <1>23, <1>24 DEF d, T, X, H

\* However many digits, places and decimals, the amount that is sent is the one
\* typed, but for the rounding of three floats and one unit (UserAmountToWei).
THEOREM AmountsClose == FeesSpec => []AmountClose
<1>1. InitFees => AmountClose
  BY DEF InitFees, AmountClose
<1>2. AmountClose /\ [NextFees]_fee => AmountClose'
  <2> SUFFICES ASSUME AmountClose, [NextFees]_fee PROVE AmountClose'
    OBVIOUS
  <2>1. CASE UNCHANGED fee
    BY <2>1 DEF AmountClose
  <2>2. ASSUME NEW base, NEW tip, NEW suggested, NEW limit, NEW factor,
               PriceTransaction(base, tip, suggested, limit, factor)
        PROVE  AmountClose'
    <3>1. fee'.op = "price"
      BY <2>2 DEF PriceTransaction
    <3> QED
      BY <3>1 DEF AmountClose
  <2>3. ASSUME NEW digits \in Digits, NEW places \in Places, NEW decimal \in Places,
               ConvertAmount(digits, places, decimal)
        PROVE  AmountClose'
    <3> DEFINE V == UserAmountToWei(digits, places, decimal)
               X == digits * Power(10, decimal)
               d == Power(10, places)
               H == Power(2, Precision - 2)
    <3>1. fee'.digits = digits /\ fee'.places = places /\ fee'.decimal = decimal /\ fee'.wei = V
      BY <2>3 DEF ConvertAmount
    <3>2. /\ V \in Nat /\ X \in Nat /\ d \in Nat /\ H \in Nat
          /\ (V * d) * H <= X * H + (X + H * d)
          /\ X * H <= (V * d) * H + (X + H * d)
      BY AmountBound
    <3>3. /\ (V * d - X) * H <= X + H * d
          /\ (-(V * d - X)) * H <= X + H * d
      <4> HIDE DEF V, X, d, H
      <4>1. /\ (V * d - X) * H = (V * d) * H - X * H
            /\ (-(V * d - X)) * H = X * H - (V * d) * H
            /\ (V * d) * H \in Nat /\ X * H \in Nat /\ X + H * d \in Nat
        BY <3>2
      <4> QED
        BY <3>2, <4>1
    <3>4. /\ (fee'.wei * Power(10, fee'.places) - fee'.digits * Power(10, fee'.decimal))
                 * Power(2, Precision - 2)
             <= fee'.digits * Power(10, fee'.decimal)
                 + Power(2, Precision - 2) * Power(10, fee'.places)
          /\ (-(fee'.wei * Power(10, fee'.places) - fee'.digits * Power(10, fee'.decimal)))
                 * Power(2, Precision - 2)
             <= fee'.digits * Power(10, fee'.decimal)
                 + Power(2, Precision - 2) * Power(10, fee'.places)
      BY <3>1, <3>3
    <3> QED
      BY <3>4 DEF AmountClose
  <2> QED
    BY <2>1, <2>2, <2>3 DEF NextFees
<1> QED
  BY <1>1, <1>2, PTL DEF FeesSpec

===============================================================================
