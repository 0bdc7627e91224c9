------------------------------ MODULE Currency ------------------------------
(***************************************************************************)
(* The pure conversion rules of src/go/internal/currency/service.go.       *)
(*                                                                         *)
(* A decimal amount is abstracted to what a conversion can get wrong about *)
(* it: the currency it is an amount OF.  Multiplying by a from -> to rate  *)
(* turns an amount of "from" into an amount of "to" and any other amount   *)
(* into a number that is an amount of nothing (Garbled); a zero amount     *)
(* stays zero.  Rounding to two decimals, and the rate itself, are not     *)
(* modelled.                                                               *)
(***************************************************************************)
CONSTANTS
    Currencies,  \* the ISO-4217 codes in play
    Amounts,     \* what prices are worth, whatever they are expressed in
    Garbled,     \* the unit of a number multiplied by a rate not meant for it
    Null         \* SQL NULL; as a unit, that of a zero amount

ASSUME UnitsDistinct ==
    Garbled \notin Currencies /\ Null \notin Currencies /\ Garbled # Null

Units == Currencies \union {Garbled}

(***************************************************************************)
(* The price columns of a commodities row.  worth is CurrentPrice's value  *)
(* and price the currency it is expressed in; conv is the currency of      *)
(* ConvertedOriginalPrice, Null when that is zero; acq stands for the      *)
(* acquisition_price / acquisition_currency pair.  OriginalPrice is always *)
(* an amount of OriginalPriceCurrency: only ApplyConversion's first case   *)
(* rescales it, together with the currency.                                *)
(* No column says which currency price and conv are in: every reader takes *)
(* them for amounts of the group's.  foreign, which only the model knows,  *)
(* marks a row that a restore wrote from an archive of another currency    *)
(* than the group's, and stays with it until somebody enters it anew.      *)
(***************************************************************************)
Commodity == [orig  : Currencies,
              conv  : Units \union {Null},
              worth : Amounts,
              price : Units,
              acq   : Currencies \union {Null},
              foreign : BOOLEAN]

Rescale(unit, from, to) ==
    IF unit = Null THEN Null
    ELSE IF unit = from THEN to ELSE Garbled

(* Case A: the original price was in the currency being left.              *)
ConvertFromCurrency(c, from, to) ==
    [c EXCEPT !.orig = to, !.conv = Null, !.price = Rescale(@, from, to)]

(* Mutant of case C: the current price is forgotten.                       *)
ConvertToCurrencyOriginalOnly(c, from, to) == [c EXCEPT !.conv = Null]

(* Case C: the original price was already in the new currency.             *)
ConvertToCurrency(c, from, to) ==
    [c EXCEPT !.conv = Null, !.price = Rescale(@, from, to)]

(* Case B: the original price is in a third currency.                      *)
ConvertThirdCurrency(c, from, to) ==
    [c EXCEPT !.conv = Rescale(@, from, to), !.price = Rescale(@, from, to)]

ApplyConversion(c, from, to) ==
    IF c.orig = from THEN ConvertFromCurrency(c, from, to)
    ELSE IF c.orig = to THEN ConvertToCurrency(c, from, to)
    ELSE ConvertThirdCurrency(c, from, to)

(* Whether a conversion asks for the write-once acquisition pair to be set *)
FillAcquisition(c, from) == c.orig = from /\ c.acq = Null

(* What ValidateWithContext requires of a row of a group valued in cur, and *)
(* what every reader of the row takes for granted.                         *)
ValuedIn(c, cur) ==
    /\ c.price = cur
    /\ c.conv \in IF c.orig = cur THEN {Null} ELSE {Null, cur}
=============================================================================
