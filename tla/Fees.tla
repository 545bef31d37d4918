--------------------------------- MODULE Fees ---------------------------------
(***************************************************************************)
(* The fee of a transaction (calls/evmgaspricer, evmtransaction) and the   *)
(* amount of tokens a user types (calls/util.go). A fee is <<price>> for a *)
(* legacy and <<tip cap, fee cap>> for a dynamic fee transaction.          *)
(*                                                                         *)
(* A big.Float is a fraction <<n, d>> with a number of significant bits.   *)
(***************************************************************************)
EXTENDS Numbers, Sequences

CONSTANTS
    LowestTip,      \* TwoAndTheHalfGwei
    Prices,         \* what a node answers, and the limits a user sets
    Factors,        \* GasPriceFactor as a fraction
    Precision,      \* 53, bits of a typed amount
    MinBits,        \* 64, the least bits of an integer as a float
    Digits,         \* the digits of a typed amount as a number
    Places          \* decimal places typed, and decimals of a token

\* math.Pow10 knows no power above 308.
ASSUME FeesAssumption ==
    /\ LowestTip \in Nat /\ Prices \subseteq Nat
    /\ \A f \in Factors : f[1] \in Nat /\ f[2] \in Nat \ {0}
    /\ Precision \in Nat /\ Precision >= 2 /\ MinBits \in Nat \ {0}
    /\ Digits \subseteq Nat /\ Places \subseteq 0..308

NilPrice == -1

VARIABLE fee        \* the last computation: its input and its result

-------------------------------------------------------------------------------
(* Floats                                                                  *)

Up(e)   == IF e > 0 THEN Power(2, e) ELSE 1
Down(e) == IF e < 0 THEN Power(2, -e) ELSE 1

\* n/d to the nearest integer, half to even.
Nearest(n, d) ==
    LET q == n \div d
        r == 2 * (n % d)
    IN  IF r > d \/ (r = d /\ q % 2 = 1) THEN q + 1 ELSE q

\* External: rounding of math/big to a precision of p bits. The exponent follows
\* from the number of bits up to one.
Rounded(p, n, d) ==
    IF n = 0 THEN <<0, 1>>
    ELSE LET shift == p - BitLen[n] + BitLen[d]
             e == CHOOSE e \in {shift - 1, shift} :
                    /\ n * Up(e) >= Power(2, p - 1) * d * Down(e)
                    /\ n * Up(e) < Power(2, p) * d * Down(e)
         IN  <<Nearest(n * Up(e), d * Down(e)) * Down(e), Up(e)>>

-------------------------------------------------------------------------------
(* Prices                                                                  *)

Limited(price, limit) == limit # NilPrice /\ price > limit

\* SetInt: an integer is a float with at least MinBits, and with all its bits.
FloatBits(n) == IF BitLen[n] > MinBits THEN BitLen[n] ELSE MinBits

\* multiplyGasPrice: the product is rounded like the suggestion, then cut.
MultiplyGasPrice(suggested, factor) ==
    LET product == Rounded(FloatBits(suggested), suggested * factor[1], factor[2])
    IN  product[1] \div product[2]

\* StaticGasPriceDeterminant.
StaticGasPrice(suggested, limit, factor) ==
    LET price == MultiplyGasPrice(suggested, factor)
    IN  <<IF Limited(price, limit) THEN limit ELSE price>>

\* Fault: a base fee above the limit gets no special treatment.
EstimateGasLondonCut(base, tip, limit) ==
    IF Limited(tip + 2 * base, limit) THEN <<limit - base, limit>>
    ELSE <<tip, tip + 2 * base>>

EstimateGasLondon(base, tip, limit) ==
    IF Limited(base, limit) THEN <<LowestTip, base + LowestTip>>
    ELSE IF Limited(tip + 2 * base, limit) THEN <<limit - base, limit>>
    ELSE <<tip, tip + 2 * base>>

\* LondonGasPriceDeterminant: a chain without a base fee is priced statically.
GasPrice(base, tip, suggested, limit, factor) ==
    IF base = NilPrice THEN StaticGasPrice(suggested, limit, factor)
    ELSE EstimateGasLondon(base, tip, limit)

\* NewTransaction: by the number of prices.
TxType(prices) == IF Len(prices) > 1 THEN "dynamic" ELSE "legacy"

-------------------------------------------------------------------------------
(* Amounts                                                                 *)

\* Fault: the typed fraction is cut off.
UserAmountToWeiWhole(digits, places, decimal) ==
    (digits \div Power(10, places)) * Power(10, decimal)

\* The typed amount digits / 10^places and the power of ten are floats, so is
\* their product, which is written with decimal places and cut at the point.
UserAmountToWei(digits, places, decimal) ==
    LET amount == Rounded(Precision, digits, Power(10, places))
        power  == Rounded(Precision, Power(10, decimal), 1)
        wei    == Rounded(Precision, amount[1] * power[1], amount[2] * power[2])
    IN  Nearest(wei[1] * Power(10, decimal), wei[2]) \div Power(10, decimal)

-------------------------------------------------------------------------------
InitFees == fee = [op |-> "none"]

PriceTransaction(base, tip, suggested, limit, factor) ==
    /\ fee.op = "none"
    /\ LET prices == GasPrice(base, tip, suggested, limit, factor) IN
       fee' = [op |-> "price", base |-> base, limit |-> limit, prices |-> prices,
               type |-> TxType(prices)]

ConvertAmount(digits, places, decimal) ==
    /\ fee.op = "none"
    /\ fee' = [op |-> "amount", digits |-> digits, places |-> places,
               decimal |-> decimal, wei |-> UserAmountToWei(digits, places, decimal)]

NextFees ==
    \/ \E base, limit \in Prices \cup {NilPrice} : \E tip, suggested \in Prices :
       \E factor \in Factors : PriceTransaction(base, tip, suggested, limit, factor)
    \/ \E digits \in Digits, places, decimal \in Places :
          ConvertAmount(digits, places, decimal)

-------------------------------------------------------------------------------
(* Properties                                                              *)

Dynamic == fee.op = "price" /\ fee.type = "dynamic"

\* The chain can take a dynamic fee: the cap covers the base fee, and the tip
\* is neither negative nor above the cap (estimateGasLondon).
Includable ==
    Dynamic => /\ fee.base <= fee.prices[2]
               /\ fee.prices[1] \in 0..fee.prices[2]

\* "limits the maximum gas price": no fee is above the limit, except that a
\* base fee above it is paid with the lowest tip, and what a dynamic fee comes
\* to is under the limit too.
WithinLimit ==
    fee.op = "price" /\ fee.limit # NilPrice =>
        IF Dynamic /\ fee.base > fee.limit
        THEN fee.prices[2] = fee.base + LowestTip
        ELSE /\ fee.prices[Len(fee.prices)] <= fee.limit
             /\ Dynamic => fee.base + fee.prices[1] <= fee.limit

\* Cutting a fee to the user's limit leaves one that is within the limit and
\* that the chain can still include, wherever the base fee lies (GasPrice).
FeeUsable == Includable /\ WithinLimit

\* UserAmountToWei is off by no more than the rounding of three floats and
\* one unit, whatever was typed.
AmountClose ==
    fee.op = "amount" =>
        LET exact == fee.digits * Power(10, fee.decimal)     \* at 10^places
            diff  == fee.wei * Power(10, fee.places) - exact
        IN  \A x \in {diff, -diff} :
               x * Power(2, Precision - 2) <= exact + Power(2, Precision - 2) * Power(10, fee.places)

===============================================================================
