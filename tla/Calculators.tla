----------------------------- MODULE Calculators -----------------------------
(***************************************************************************)
(* The calculators of the simulations tab: pure functions from the texts   *)
(* of a form, kept in a dictionary under the titles of its lines, to the   *)
(* four results of its page, or to the error that is thrown.               *)
(*                                                                         *)
(* A number of the form or of a result is the integer number of its        *)
(* hundredths, the precision the application shows.  What is computed on   *)
(* the way to a result is a Double that nothing rounds: here a fraction    *)
(* <<a, b>> of hundredths.  A result is rounded once, when it is formatted *)
(* with "%.02f".  The titles are written without accents.                  *)
(***************************************************************************)
EXTENDS Integers, Sequences

CONSTANTS
    NoText,          \* the empty text
    Unreadable,      \* a text that is no number
    NotANumber,      \* nan or inf
    Annuity(_, _, _), \* the monthly payment of a loan, a fraction: the formula
                      \* with pow, for an amount, a rate not 0 and a duration
    HalfUp(_, _, _)   \* for a form d, whether a / b is rounded up when it is
                      \* half-way between two hundredths: the Double at hand
                      \* may lie on either side

ASSUME CalculatorsAssumption ==
    /\ NoText \notin Int /\ Unreadable \notin Int /\ NotANumber \notin Int
    /\ NoText # Unreadable

CreditKeys == {"Montant a financer", "Duree", "Taux", "Taux assurance",
               "Frais de dossier"}

RentabilityKeys ==
    {"Prix du bien", "Cout des travaux", "Frais de notaire", "Loyer mensuel",
     "Taxe fonciere", "Frais d'entretien", "Charges de copropriete",
     "Frais de gerance", "Assurance loyers impayes", "Cout du credit"}

\* What is not a number counts as zero, the empty text too.
transformInDouble(text) == IF text \in Int THEN text ELSE 0

\* The key whose missing text is thrown: the first one, in the order of the
\* tests, that is blank.
Thrown(d, tested) ==
    LET missing == {i \in DOMAIN tested : d[tested[i]] = NoText}
    IN  IF missing = {} THEN "none"
        ELSE tested[CHOOSE i \in missing : \A j \in missing : i <= j]

\* The number under a key of the dictionary.
Value(d, k) == transformInDouble(d[k])

\* formatIntoStringWithTwoNumbersAfterPoint: the nearest hundredth.  A number
\* just below zero becomes "-0", which is zero.
Rounded(d, a, b) ==
    LET n == IF b < 0 THEN -a ELSE a
        m == IF b < 0 THEN -b ELSE b
        twice == 2 * (n % m)
    IN  n \div m + (IF twice > m \/ (twice = m /\ HalfUp(d, a, b)) THEN 1 ELSE 0)

\* The same for what a division by zero may have made no number.
Formatted(d, x) == IF x = NotANumber THEN NotANumber ELSE Rounded(d, x[1], x[2])

\* The quotient of two amounts, shown as a percentage.
Ratio(d, a, b) == IF b = 0 THEN NotANumber ELSE Rounded(d, 10000 * a, b)

Plus(x, y) == <<x[1] * y[2] + y[1] * x[2], x[2] * y[2]>>

------------------------------------------------------------------------------
(***************************************************************************)
(* RentabilityCalculator                                                   *)
(***************************************************************************)

RentTested == <<"Loyer mensuel">>
FinanceTested == <<"Prix du bien", "Frais de notaire">>
ChargesTested == <<"Taxe fonciere", "Charges de copropriete">>

getAnnualRent(d) == 12 * Value(d, "Loyer mensuel")

\* A product of an amount and a rate in whole hundredths.  It is never asked for:
\* the rent is looked up under "Loyer Mensuel", which is no title, and the whole
\* computation is skipped when a key is not found.
Percent(product) == product \div 10000

getAnnualManagementFeesAmount(d) ==
    IF "Loyer Mensuel" \in DOMAIN d
    THEN Percent(12 * Value(d, "Loyer Mensuel") * Value(d, "Frais de gerance"))
    ELSE 0

getAnnualInsuranceCost(d) == 12 * Value(d, "Assurance loyers impayes")

getAnnualCreditCost(d) == 12 * Value(d, "Cout du credit")

getTotalToFinance(d) ==
    Value(d, "Prix du bien") + Value(d, "Cout des travaux")
        + Value(d, "Frais de notaire")

getAnnualTotalCharges(d) ==
    getAnnualManagementFeesAmount(d) + getAnnualInsuranceCost(d)
        + Value(d, "Taxe fonciere") + Value(d, "Frais d'entretien")
        + Value(d, "Charges de copropriete")

getGrossYield(d) == Ratio(d, getAnnualRent(d), getTotalToFinance(d))

getNetYield(d) ==
    Ratio(d, getAnnualRent(d) - getAnnualTotalCharges(d), getTotalToFinance(d))

getAnnualCashflow(d) ==
    getAnnualRent(d) - getAnnualTotalCharges(d) - getAnnualCreditCost(d)

getMensualCashflow(d) == Rounded(d, getAnnualCashflow(d), 12)

\* The colour of a result.  The outcome of a division by zero is positive
\* when it is an infinity; it is not told apart here and never asked for.
isResultPositive(result) == result >= 0

RentabilityResults(d) ==
    <<getGrossYield(d), getNetYield(d), getAnnualCashflow(d),
      getMensualCashflow(d)>>

\* Mutation: the gross yield does not test what is to finance.
FinanceUntested(d) == Thrown(d, RentTested \o ChargesTested)

\* The four functions are called one after the other.
RentabilityError(d) ==
    Thrown(d, RentTested \o FinanceTested
                \o RentTested \o ChargesTested \o FinanceTested)

------------------------------------------------------------------------------
(***************************************************************************)
(* CreditCalculator                                                        *)
(***************************************************************************)

Months(d) == 12 * Value(d, "Duree")

\* With a rate of zero, or no duration, both 1 - powerResult and the value it
\* divides, or the divisor alone, are zero.
getMensualityWithoutInsurance(d) ==
    IF Value(d, "Taux") = 0 \/ Months(d) = 0 THEN NotANumber
    ELSE Annuity(Value(d, "Montant a financer"), Value(d, "Taux"),
                 Value(d, "Duree"))

getInsuranceCost(d) ==
    <<Value(d, "Montant a financer") * Value(d, "Taux assurance")
          * Value(d, "Duree"), 10000>>

getMensualityWithInsurance(d) ==
    LET without == getMensualityWithoutInsurance(d)
        insurance == getInsuranceCost(d)
    IN  IF without = NotANumber THEN NotANumber
        ELSE Plus(without, <<insurance[1], insurance[2] * Months(d)>>)

getInterestCost(d) ==
    LET without == getMensualityWithoutInsurance(d)
    IN  IF without = NotANumber THEN NotANumber
        ELSE Plus(<<Months(d) * without[1], without[2]>>,
                  <<-Value(d, "Montant a financer"), 1>>)

getStringMensuality(d) ==
    Formatted(d, IF d["Taux assurance"] = NoText
                   THEN getMensualityWithoutInsurance(d)
                   ELSE getMensualityWithInsurance(d))

getTotalCost(d) ==
    LET interest == getInterestCost(d)
        amounts == Value(d, "Montant a financer") + Value(d, "Frais de dossier")
    IN  IF interest = NotANumber THEN NotANumber
        ELSE Formatted(d, Plus(Plus(<<amounts, 1>>, getInsuranceCost(d)), interest))

CreditResults(d) ==
    <<getStringMensuality(d), Formatted(d, getInterestCost(d)),
      Formatted(d, getInsuranceCost(d)), getTotalCost(d)>>

CreditTested == <<"Taux", "Montant a financer">>

CreditError(d) == Thrown(d, CreditTested)

------------------------------------------------------------------------------
(***************************************************************************)
(* What the calculators promise                                            *)
(***************************************************************************)

RequiredOfCredit == {"Taux", "Montant a financer"}
RequiredOfRentability ==
    {"Loyer mensuel", "Prix du bien", "Frais de notaire", "Taxe fonciere",
     "Charges de copropriete"}

\* An error is thrown exactly when a line the form cannot do without is blank,
\* and it names such a line.
NamesMissing(error, d, required) ==
    IF \E k \in required : d[k] = NoText
    THEN error \in required /\ d[error] = NoText
    ELSE error = "none"

\* Without an error the four figures of a rentability page agree as far as
\* rounding allows: twelve times the cash-flow of a month is at most six
\* hundredths away from that of the year; a month in the red has a year in the
\* red (not the converse: five hundredths lost in a year are "-0" a month, which
\* counts as positive); a cash-flow that is not negative has a net yield that is
\* not; and the net yield is at most the gross one.
FiguresAgree(d) ==
    RentabilityError(d) = "none" =>
        LET gross == getGrossYield(d)
            net == getNetYield(d)
            year == getAnnualCashflow(d)
            month == getMensualCashflow(d)
        IN  /\ 12 * month \in year - 6 .. year + 6
            /\ isResultPositive(year) => isResultPositive(month)
            /\ net # NotANumber =>
                  /\ gross # NotANumber /\ net <= gross
                  /\ isResultPositive(year) => isResultPositive(net)
==============================================================================
