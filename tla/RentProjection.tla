--------------------------- MODULE RentProjection ---------------------------
(***************************************************************************)
(* The rent forecast of the costs command: what an entry of a given size is *)
(* expected to pay over some days. The code computes in doubles and rounds  *)
(* up; here the quotients are rounded up exactly.                          *)
(***************************************************************************)
EXTENDS Integers

CONSTANTS
    LedgersNum, LedgersDen,     \* ledgers of a day, as a fraction
    Increment,                  \* DATA_SIZE_1KB_INCREMENT
    FeePerIncrement,            \* DEFAULT_FEE_PER_RENT_1KB, in stroops
    PersistentRate,             \* rent rate denominators
    TemporaryRate,
    CodeDiscount,               \* CODE_ENTRY_RENT_DISCOUNT_FACTOR
    Windows                     \* the forecast windows, in days, increasing

ASSUME RentAssumption ==
    /\ {LedgersNum, FeePerIncrement} \subseteq Nat
    /\ {LedgersDen, Increment, PersistentRate, TemporaryRate, CodeDiscount}
           \subseteq Nat \ {0}
    /\ Windows \subseteq Nat \ {0}

CeilDiv(a, b) == (a + b - 1) \div b

IsPersistent(type) == type \in {"instance", "wasm", "persistent"}
IsCode(type) == type = "wasm"

Rate(type) == IF IsPersistent(type) THEN PersistentRate ELSE TemporaryRate

LedgerCount(days) == CeilDiv(days * LedgersNum, LedgersDen)

FullFee(size, days, type) ==
    CeilDiv(size * FeePerIncrement * LedgerCount(days), Increment * Rate(type))

\* projectRentCost, in stroops.
RentCost(size, days, type) ==
    IF IsCode(type) THEN CeilDiv(FullFee(size, days, type), CodeDiscount)
    ELSE FullFee(size, days, type)

\* projectRentWindows.
RentWindows(size, type) == [days \in Windows |-> RentCost(size, days, type)]

\* The windows formatForecastedRentEntry flags as over the monthly budget.
OverBudget(size, type, budget) ==
    {days \in Windows : RentWindows(size, type)[days] > budget}

=============================================================================
