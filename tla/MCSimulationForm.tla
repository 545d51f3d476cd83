--------------------------- MODULE MCSimulationForm ---------------------------
(***************************************************************************)
(* Small instances of SimulationForm for TLC, and the calculators over     *)
(* every assignment of a few texts to the lines of the two forms.          *)
(***************************************************************************)
EXTENDS SimulationForm

\* A stand-in for the formula with pow: simple interest on half the amount, to
\* the nearest half of a hundredth below.
SomeAnnuity(amount, rate, duration) ==
    <<(2 * (amount + (amount * rate * duration) \div 20000)) \div (12 * duration), 2>>

\* Both outcomes for a quotient half-way between two hundredths.
SomeHalfUp(d, a, b) == (a + b) % 3 = 0

CreditLines == {"Montant a financer", "Taux", "Taux assurance",
                "Frais de dossier"}
OneAmount == {1000}
FirstAndLast == {2, 20}

\* With these the months, and the yields, are now and then half-way between two
\* hundredths, and a year is so little in the red that its months are "-0".
FewTexts == {NoText, 0, 2}
FewPrices == {NoText, 0, 128}
Prices == {"Prix du bien", "Cout des travaux", "Frais de notaire"}
SomeLoans == {NoText, Unreadable, 0, 70000, 123457}
SomeRates == {NoText, Unreadable, 0, 1, 150}
SomeDurations == {10, 20, 30}

CreditInputs ==
    {d \in [CreditKeys -> SomeLoans \cup SomeRates \cup SomeDurations] :
        /\ d["Montant a financer"] \in SomeLoans
        /\ d["Frais de dossier"] \in SomeLoans
        /\ d["Taux"] \in SomeRates /\ d["Taux assurance"] \in SomeRates
        /\ d["Duree"] \in SomeDurations}

RentabilityInputs ==
    {[k \in RentabilityKeys |-> IF k \in Prices THEN p[k] ELSE t[k]] :
        p \in [Prices -> FewPrices], t \in [RentabilityKeys \ Prices -> FewTexts]}

\* Whatever the lines of an empty form are filled with, the error thrown names a
\* missing line, the tests being spread over nine functions that call each other, and
\* without an error the figures of the page agree as far as rounding allows.
CalculatorsAreRight ==
    FInit =>
        /\ \A d \in CreditInputs : NamesMissing(CreditError(d), d, RequiredOfCredit)
        /\ \A d \in RentabilityInputs :
              /\ NamesMissing(RentabilityError(d), d, RequiredOfRentability)
              /\ FiguresAgree(d)
=============================================================================
