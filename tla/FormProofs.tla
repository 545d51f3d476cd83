------------------------------ MODULE FormProofs ------------------------------
(***************************************************************************)
(* Proofs about the simulation forms and their calculators, for any texts, *)
(* any number of lines on screen and any formula for the monthly payment.  *)
(* FormInv (in SimulationForm) is the inductive invariant; results, whose  *)
(* members are whatever the calculator returns, is a sequence over some    *)
(* set.  MCSimulationForm has the inputs for which TLC evaluates the       *)
(* calculators; the theorems about them are for all inputs.                *)
(***************************************************************************)
EXTENDS MCSimulationForm, SequenceTheorems, WellFoundedInduction, TLAPS

-----------------------------------------------------------------------------
(* The calculators.                                                        *)

\* A set of places in a list has a first one.
LEMMA FirstPlace ==
    ASSUME NEW M \in SUBSET Nat, M # {}
    PROVE  \E i \in M : \A j \in M : i <= j
<1> DEFINE R == OpToRel(<, Nat)
<1>1. IsWellFoundedOn(R, Nat)
  BY NatLessThanWellFounded
<1>2. \A x, y \in Nat : <<x, y>> \in R <=> x < y
  BY DEF OpToRel
<1> HIDE DEF R
<1>3. PICK i \in M : \A j \in M : ~(<<j, i>> \in R)
  BY <1>1, WFMin
<1>4. \A j \in M : j \in Nat /\ i \in Nat /\ ~(j < i)
  BY <1>2, <1>3
<1>5. \A j \in M : i <= j
  BY <1>4
<1>6. QED
  BY <1>5

\* And a last one, when it is bounded.
LEMMA LastPlace ==
    ASSUME NEW M \in SUBSET Nat, M # {}, NEW n \in Nat, \A i \in M : i <= n
    PROVE  \E i \in M : \A j \in M : j <= i
<1> DEFINE back == {n - i : i \in M}
<1>1. back \in SUBSET Nat /\ back # {}
  <2>1. \A i \in M : n - i \in Nat
    OBVIOUS
  <2>2. \A x \in back : x \in Nat
    BY <2>1
  <2>3. PICK i \in M : TRUE
    OBVIOUS
  <2>4. n - i \in back
    OBVIOUS
  <2>5. QED
    BY <2>2, <2>4
<1>2. PICK b \in back : \A j \in back : b <= j
  BY <1>1, FirstPlace
<1>3. PICK i \in M : b = n - i
  BY <1>2
<1>4. ASSUME NEW j \in M PROVE j <= i
  <2>1. n - j \in back
    OBVIOUS
  <2>2. n - i <= n - j
    BY <1>2, <1>3, <2>1
  <2>3. QED
    BY <2>2
<1>5. QED
  BY <1>4

\* A function over the first numbers is a sequence.
LEMMA FunctionIsSeq ==
    ASSUME NEW S, NEW n \in Nat, NEW f \in [1 .. n -> S]
    PROVE  f \in Seq(S) /\ Len(f) = n
<1>1. f \in Seq(S)
  BY SeqDef
<1>2. QED
  BY <1>1, LenProperties

\* What is thrown is the title of a blank line among those tested, if there is one.
LEMMA ThrownIsBlank ==
    ASSUME NEW d, NEW tested, DOMAIN tested \subseteq Nat
    PROVE  IF \E i \in DOMAIN tested : d[tested[i]] = NoText
           THEN \E i \in DOMAIN tested : Thrown(d, tested) = tested[i] /\ d[tested[i]] = NoText
           ELSE Thrown(d, tested) = "none"
<1> DEFINE missing == {i \in DOMAIN tested : d[tested[i]] = NoText}
           first == CHOOSE i \in missing : \A j \in missing : i <= j
<1>1. CASE missing = {}
  BY <1>1 DEF Thrown
<1>2. CASE missing # {}
  <2>1. \E i \in missing : \A j \in missing : i <= j
    BY <1>2, FirstPlace
  <2>2. first \in missing
    BY <2>1
  <2>3. Thrown(d, tested) = tested[first]
    BY <1>2 DEF Thrown
  <2>4. QED
    BY <2>2, <2>3
<1>3. QED
  BY <1>1, <1>2

\* So the error names a missing line among those that are tested.
LEMMA ThrownNames ==
    ASSUME NEW T, NEW d, NEW tested \in Seq(T)
    PROVE  NamesMissing(Thrown(d, tested), d, Range(tested))
<1>1. DOMAIN tested \subseteq Nat
  OBVIOUS
<1>2. CASE \E i \in DOMAIN tested : d[tested[i]] = NoText
  <2>1. PICK i \in DOMAIN tested : Thrown(d, tested) = tested[i] /\ d[tested[i]] = NoText
    BY <1>1, <1>2, ThrownIsBlank
  <2>2. Thrown(d, tested) \in Range(tested) /\ d[Thrown(d, tested)] = NoText
    BY <2>1 DEF Range
  <2>3. QED
    BY <2>2 DEF NamesMissing
<1>3. CASE ~\E i \in DOMAIN tested : d[tested[i]] = NoText
  <2>1. Thrown(d, tested) = "none"
    BY <1>1, <1>3, ThrownIsBlank
  <2>2. ~\E k \in Range(tested) : d[k] = NoText
    BY <1>3 DEF Range
  <2>3. QED
    BY <2>1, <2>2 DEF NamesMissing
<1>4. QED
  BY <1>2, <1>3

\* The titles of a list of one and of a list of two.
LEMMA ShortLists ==
    ASSUME NEW T, NEW a \in T, NEW b \in T
    PROVE  /\ <<a>> \in Seq(T) /\ Range(<<a>>) = {a}
           /\ <<a, b>> \in Seq(T) /\ Range(<<a, b>>) = {a, b}
<1>1. DOMAIN <<a>> = {1} /\ <<a>>[1] = a
  OBVIOUS
<1>2. DOMAIN <<a, b>> = {1, 2} /\ <<a, b>>[1] = a /\ <<a, b>>[2] = b
  OBVIOUS
<1>3. <<a>> \in Seq(T) /\ <<a, b>> \in Seq(T)
  OBVIOUS
<1>4. QED
  BY <1>1, <1>2, <1>3 DEF Range

\* What a list of two parts holds.
LEMMA ConcatRange ==
    ASSUME NEW T, NEW s \in Seq(T), NEW t \in Seq(T)
    PROVE  s \o t \in Seq(T) /\ Range(s \o t) = Range(s) \cup Range(t)
<1>1. s \o t \in Seq(T)
  BY ConcatProperties
<1>2. Range(s \o t) = Range(s) \cup Range(t)
  BY RangeConcatenation
<1>3. QED
  BY <1>1, <1>2

\* The credit calculator throws an error exactly for a form without its rate or
\* without its amount, and names one of them.
THEOREM CreditErrors ==
    \A d \in [CreditKeys -> AnyText] : NamesMissing(CreditError(d), d, RequiredOfCredit)
<1>1. "Taux" \in CreditKeys /\ "Montant a financer" \in CreditKeys
  BY DEF CreditKeys
<1>2. CreditTested \in Seq(CreditKeys) /\ Range(CreditTested) = RequiredOfCredit
  BY <1>1, ShortLists DEF CreditTested, RequiredOfCredit
<1>3. QED
  BY <1>2, ThrownNames DEF CreditError

\* The rentability calculator throws an error exactly for a form in which one of
\* the five lines it tests is blank, and names one of them.
THEOREM RentabilityErrors ==
    \A d \in [RentabilityKeys -> AnyText] :
        NamesMissing(RentabilityError(d), d, RequiredOfRentability)
<1> DEFINE K == RentabilityKeys
           R == RentTested
           F == FinanceTested
           C == ChargesTested
<1>1. R \in Seq(K) /\ Range(R) = {"Loyer mensuel"}
  <2>1. "Loyer mensuel" \in K
    BY DEF RentabilityKeys
  <2>2. QED
    BY <2>1, ShortLists DEF RentTested
<1>2. F \in Seq(K) /\ Range(F) = {"Prix du bien", "Frais de notaire"}
  <2>1. "Prix du bien" \in K /\ "Frais de notaire" \in K
    BY DEF RentabilityKeys
  <2>2. QED
    BY <2>1, ShortLists DEF FinanceTested
<1>3. C \in Seq(K) /\ Range(C) = {"Taxe fonciere", "Charges de copropriete"}
  <2>1. "Taxe fonciere" \in K /\ "Charges de copropriete" \in K
    BY DEF RentabilityKeys
  <2>2. QED
    BY <2>1, ShortLists DEF ChargesTested
<1>4. \A s, t \in Seq(K) : s \o t \in Seq(K) /\ Range(s \o t) = Range(s) \cup Range(t)
  BY ConcatRange
<1> HIDE DEF R, F, C, K
<1>5. R \o F \in Seq(K) /\ Range(R \o F) = Range(R) \cup Range(F)
  BY <1>1, <1>2, <1>4
<1>6. R \o F \o R \in Seq(K) /\ Range(R \o F \o R) = Range(R \o F) \cup Range(R)
  BY <1>1, <1>4, <1>5
<1>7. /\ R \o F \o R \o C \in Seq(K)
      /\ Range(R \o F \o R \o C) = Range(R \o F \o R) \cup Range(C)
  BY <1>3, <1>4, <1>6
<1>8. /\ R \o F \o R \o C \o F \in Seq(K)
      /\ Range(R \o F \o R \o C \o F) = Range(R \o F \o R \o C) \cup Range(F)
  BY <1>2, <1>4, <1>7
<1>9. Range(R \o F \o R \o C \o F) = RequiredOfRentability
  BY <1>1, <1>2, <1>3, <1>5, <1>6, <1>7, <1>8 DEF RequiredOfRentability
<1>10. \A d : RentabilityError(d) = Thrown(d, R \o F \o R \o C \o F)
  BY DEF RentabilityError, R, F, C
<1>11. QED
  BY <1>8, <1>9, <1>10, ThrownNames

\* A rounded quotient is at most half a hundredth away from the quotient.
LEMMA RoundedIsNearest ==
    ASSUME NEW d, NEW a \in Int, NEW b \in Nat, b # 0
    PROVE  /\ Rounded(d, a, b) \in Int
           /\ 2 * (b * Rounded(d, a, b)) <= 2 * a + b
           /\ 2 * a <= 2 * (b * Rounded(d, a, b)) + b
<1> DEFINE q == a \div b
           r == a % b
           up == 2 * r > b \/ (2 * r = b /\ HalfUp(d, a, b))
<1>1. q \in Int /\ r \in 0 .. b - 1 /\ a = b * q + r
  OBVIOUS
<1>2. Rounded(d, a, b) = q + (IF up THEN 1 ELSE 0)
  <2>1. ~(b < 0)
    OBVIOUS
  <2>2. QED
    BY <2>1 DEF Rounded
<1>3. (up => 2 * r >= b) /\ (~up => 2 * r <= b)
  BY <1>1
<1> HIDE DEF q, r, up
<1>4. CASE up
  <2>1. Rounded(d, a, b) = q + 1
    BY <1>2, <1>4
  <2>2. b * (q + 1) = b * q + b /\ b * q \in Int
    BY <1>1
  <2>3. QED
    BY <1>1, <1>3, <1>4, <2>1, <2>2
<1>5. CASE ~up
  <2>1. Rounded(d, a, b) = q
    BY <1>1, <1>2, <1>5
  <2>2. b * q \in Int
    BY <1>1
  <2>3. QED
    BY <1>1, <1>3, <1>5, <2>1, <2>2
<1>6. QED
  BY <1>4, <1>5

\* Rounding keeps the order of quotients by the same number, and their sign: two
\* that are rounded the wrong way round are half-way and equal, and a form rounds
\* the same quotient in one way.
LEMMA RoundingKeepsOrder ==
    ASSUME NEW d, NEW x \in Int, NEW y \in Int, NEW b \in Nat, b # 0, x <= y
    PROVE  /\ Rounded(d, x, b) <= Rounded(d, y, b)
           /\ x >= 0 => Rounded(d, x, b) >= 0
<1> DEFINE p == Rounded(d, x, b)
           q == Rounded(d, y, b)
<1>1. p \in Int /\ 2 * (b * p) <= 2 * x + b /\ 2 * x <= 2 * (b * p) + b
  BY RoundedIsNearest
<1>2. q \in Int /\ 2 * (b * q) <= 2 * y + b /\ 2 * y <= 2 * (b * q) + b
  BY RoundedIsNearest
<1>3. x = y => p = q
  OBVIOUS
<1> HIDE DEF p, q
<1>4. p <= q
  <2>1. SUFFICES ASSUME q + 1 <= p, x + 1 <= y PROVE FALSE
    BY <1>1, <1>2, <1>3
  <2>2. b * (q + 1) <= b * p /\ b * (q + 1) = b * q + b
    BY <1>1, <1>2, <2>1
  <2>3. b * q \in Int /\ b * p \in Int
    BY <1>1, <1>2
  <2>4. QED
    BY <1>1, <1>2, <2>1, <2>2, <2>3
<1>5. x >= 0 => p >= 0
  <2>1. SUFFICES ASSUME x >= 0, p + 1 <= 0 PROVE FALSE
    BY <1>1
  <2>2. b * (p + 1) <= 0 /\ b * (p + 1) = b * p + b /\ b * p \in Int
    BY <1>1, <2>1
  <2>3. QED
    BY <1>1, <2>1, <2>2
<1>6. QED
  BY <1>4, <1>5 DEF p, q

\* The rent is looked up under a title the form does not have.
LEMMA NoManagementFees ==
    ASSUME NEW d, DOMAIN d = RentabilityKeys
    PROVE  getAnnualManagementFeesAmount(d) = 0
<1>1. "Loyer Mensuel" \notin RentabilityKeys
  BY DEF RentabilityKeys
<1>2. \A x : (IF "Loyer Mensuel" \in RentabilityKeys THEN x ELSE 0) = 0
  BY <1>1
<1>3. QED
  BY <1>2, Zenon DEF getAnnualManagementFeesAmount

\* The figures of the rentability page agree, as far as rounding allows, whatever
\* numbers that are not negative are typed, the fields offering a keyboard
\* without a sign, and whichever way a quotient half-way is rounded.
THEOREM RentabilityFigures ==
    \A d \in [RentabilityKeys -> Nat \cup {NoText, Unreadable}] : FiguresAgree(d)
<1> SUFFICES ASSUME NEW d \in [RentabilityKeys -> Nat \cup {NoText, Unreadable}]
             PROVE  FiguresAgree(d)
  OBVIOUS
<1>1. \A k \in RentabilityKeys : Value(d, k) \in Nat
  <2>1. SUFFICES ASSUME NEW k \in RentabilityKeys PROVE Value(d, k) \in Nat
    OBVIOUS
  <2>2. d[k] \in Nat \/ d[k] \notin Int
    BY CalculatorsAssumption
  <2>3. QED
    BY <2>2 DEF Value, transformInDouble
<1> DEFINE rent == getAnnualRent(d)
           finance == getTotalToFinance(d)
           charges == getAnnualTotalCharges(d)
           credit == getAnnualCreditCost(d)
           year == getAnnualCashflow(d)
           month == getMensualCashflow(d)
           gross == getGrossYield(d)
           net == getNetYield(d)
<1>2. rent \in Nat /\ finance \in Nat /\ credit \in Nat
  <2>1. /\ Value(d, "Loyer mensuel") \in Nat /\ Value(d, "Prix du bien") \in Nat
        /\ Value(d, "Cout des travaux") \in Nat /\ Value(d, "Frais de notaire") \in Nat
        /\ Value(d, "Cout du credit") \in Nat
    BY <1>1 DEF RentabilityKeys
  <2>2. \A a, b, c \in Nat : 12 * a \in Nat /\ a + b + c \in Nat
    OBVIOUS
  <2>3. rent \in Nat /\ credit \in Nat
    BY <2>1, <2>2 DEF getAnnualRent, getAnnualCreditCost
  <2>4. finance \in Nat
    BY <2>1, <2>2 DEF getTotalToFinance
  <2>5. QED
    BY <2>3, <2>4
<1>3. charges \in Nat
  <2>1. /\ Value(d, "Assurance loyers impayes") \in Nat /\ Value(d, "Taxe fonciere") \in Nat
        /\ Value(d, "Frais d'entretien") \in Nat
        /\ Value(d, "Charges de copropriete") \in Nat
    BY <1>1 DEF RentabilityKeys
  <2>2. DOMAIN d = RentabilityKeys
    OBVIOUS
  <2>3. getAnnualManagementFeesAmount(d) = 0
    BY <2>2, NoManagementFees
  <2>4. \A a, b, c, e \in Nat : 0 + 12 * a + b + c + e \in Nat
    OBVIOUS
  <2>5. QED
    BY <2>1, <2>3, <2>4, Zenon DEF getAnnualTotalCharges, getAnnualInsuranceCost
<1>4. /\ year = rent - charges - credit
      /\ month = Rounded(d, year, 12)
      /\ gross = Ratio(d, rent, finance) /\ net = Ratio(d, rent - charges, finance)
  BY DEF getAnnualCashflow, getMensualCashflow, getGrossYield, getNetYield
<1> HIDE DEF rent, finance, charges, credit, year, month, gross, net
<1>5. 12 * month \in year - 6 .. year + 6 /\ (year >= 0 => month >= 0)
  <2>1. year \in Int /\ 12 \in Nat /\ 12 # 0
    BY <1>2, <1>3, <1>4
  <2>2. month \in Int /\ 2 * (12 * month) <= 2 * year + 12 /\ 2 * year <= 2 * (12 * month) + 12
    BY <1>4, <2>1, RoundedIsNearest
  <2>3. QED
    BY <2>1, <2>2
<1>6. ASSUME net # NotANumber
      PROVE  gross # NotANumber /\ net <= gross /\ (year >= 0 => net >= 0)
  <2>1. finance # 0
    BY <1>4, <1>6 DEF Ratio
  <2> DEFINE income == 10000 * rent
             profit == 10000 * (rent - charges)
  <2>2. gross = Rounded(d, income, finance) /\ net = Rounded(d, profit, finance)
    BY <1>4, <2>1 DEF Ratio
  <2>3. income \in Int /\ profit \in Int /\ profit <= income /\ (year >= 0 => profit >= 0)
    BY <1>2, <1>3, <1>4
  <2> HIDE DEF income, profit
  <2>4. gross \in Int
    BY <1>2, <2>1, <2>2, <2>3, RoundedIsNearest
  <2>5. net <= gross /\ (year >= 0 => net >= 0)
    BY <1>2, <2>1, <2>2, <2>3, RoundingKeepsOrder
  <2>6. QED
    BY <2>4, <2>5, CalculatorsAssumption
<1>7. isResultPositive(year) => isResultPositive(month)
  BY <1>5 DEF isResultPositive
<1>8. QED
  BY <1>5, <1>6, <1>7
  DEF FiguresAgree, isResultPositive, rent, finance, charges, credit, year, month, gross, net

\* What the run of the forms evaluates is a part of the three theorems before.
THEOREM CalculatorsRight == FSpec => []CalculatorsAreRight
<1>1. ASSUME NEW d \in CreditInputs PROVE d \in [CreditKeys -> AnyText]
  <2>1. SomeLoans \cup SomeRates \cup SomeDurations \subseteq AnyText
    BY DEF AnyText, SomeLoans, SomeRates, SomeDurations
  <2>2. d \in [CreditKeys -> SomeLoans \cup SomeRates \cup SomeDurations]
    BY Zenon DEF CreditInputs
  <2>3. QED
    BY <2>1, <2>2
<1>2. RentabilityInputs \subseteq [RentabilityKeys -> Nat \cup {NoText, Unreadable}]
  BY DEF RentabilityInputs, FewTexts, FewPrices
<1>3. Nat \cup {NoText, Unreadable} \subseteq AnyText
  BY DEF AnyText
<1>4. CalculatorsAreRight
  BY <1>1, <1>2, <1>3, CreditErrors, RentabilityErrors, RentabilityFigures DEF CalculatorsAreRight
<1>5. QED
  BY <1>4, PTL

-----------------------------------------------------------------------------
(* The lines of the two forms.                                             *)

\* The lines of the credit form: the picker is the line of the duration, the
\* second, and the line of the rate is below it.
LEMMA LinesOfCredit ==
    ASSUME Form = "credit"
    PROVE  /\ DOMAIN Items = 1 .. 5 /\ Len(Items) = 5 /\ Keys = CreditKeys
           /\ \A i \in 1 .. 5 : /\ Items[i].kind = "pickerView" <=> i = 2
                                /\ Items[i].key = "Duree" <=> i = 2
                                /\ Items[i].key = "Taux" <=> i = 3
<1> DEFINE kinds == <<"textField", "pickerView", "stepper", "stepper", "textField">>
           keys == <<"Montant a financer", "Duree", "Taux", "Taux assurance",
                     "Frais de dossier">>
<1>1. /\ DOMAIN keys = 1 .. 5
      /\ kinds[1] = "textField" /\ kinds[2] = "pickerView" /\ kinds[3] = "stepper"
      /\ kinds[4] = "stepper" /\ kinds[5] = "textField"
  OBVIOUS
<1>2. /\ keys[1] = "Montant a financer" /\ keys[2] = "Duree" /\ keys[3] = "Taux"
      /\ keys[4] = "Taux assurance" /\ keys[5] = "Frais de dossier"
  OBVIOUS
<1>3. Items = Lines(kinds, keys)
  BY DEF Items, CreditCells
<1> HIDE DEF kinds, keys
<1>4. Items = [i \in 1 .. 5 |-> [kind |-> kinds[i], key |-> keys[i]]]
  BY <1>1, <1>3 DEF Lines
<1>5. DOMAIN Items = 1 .. 5 /\ \A i \in 1 .. 5 : Items[i].kind = kinds[i] /\ Items[i].key = keys[i]
  BY <1>4
<1>6. 1 .. 5 = {1, 2, 3, 4, 5}
  OBVIOUS
<1>7. Keys = {keys[i] : i \in {1, 2, 3, 4, 5}}
  BY <1>5, <1>6 DEF Keys
<1>8. {keys[i] : i \in {1, 2, 3, 4, 5}} = {keys[1], keys[2], keys[3], keys[4], keys[5]}
  OBVIOUS
<1>9. Keys = CreditKeys
  BY <1>2, <1>7, <1>8 DEF CreditKeys
<1>10. ASSUME NEW i \in {1, 2, 3, 4, 5}
       PROVE  /\ kinds[i] = "pickerView" <=> i = 2
              /\ keys[i] = "Duree" <=> i = 2
              /\ keys[i] = "Taux" <=> i = 3
  BY <1>1, <1>2
<1>11. Len(Items) = 5
  BY <1>4
<1>12. QED
  BY <1>5, <1>11, <1>6, <1>9, <1>10

\* The lines of the rentability form: no picker, and no duration.
LEMMA RentabilityLines ==
    ASSUME Form = "rentability"
    PROVE  /\ DOMAIN Items = 1 .. 10 /\ Len(Items) = 10 /\ Keys = RentabilityKeys
           /\ \A i \in 1 .. 10 : Items[i].kind # "pickerView"
<1> DEFINE kinds == <<"without", "without", "without", "subtitled", "subtitled",
                      "subtitled", "subtitled", "without", "subtitled", "subtitled">>
           keys == <<"Prix du bien", "Cout des travaux", "Frais de notaire",
                     "Loyer mensuel", "Taxe fonciere", "Frais d'entretien",
                     "Charges de copropriete", "Frais de gerance",
                     "Assurance loyers impayes", "Cout du credit">>
<1>1. /\ DOMAIN keys = 1 .. 10
      /\ \A i \in 1 .. 10 : kinds[i] # "pickerView"
  OBVIOUS
<1>2. /\ keys[1] = "Prix du bien" /\ keys[2] = "Cout des travaux"
      /\ keys[3] = "Frais de notaire" /\ keys[4] = "Loyer mensuel"
      /\ keys[5] = "Taxe fonciere" /\ keys[6] = "Frais d'entretien"
      /\ keys[7] = "Charges de copropriete" /\ keys[8] = "Frais de gerance"
      /\ keys[9] = "Assurance loyers impayes" /\ keys[10] = "Cout du credit"
  OBVIOUS
<1>3. Items = Lines(kinds, keys)
  BY DEF Items, RentabilityCells
<1> HIDE DEF kinds, keys
<1>4. Items = [i \in 1 .. 10 |-> [kind |-> kinds[i], key |-> keys[i]]]
  BY <1>1, <1>3 DEF Lines
<1>5. DOMAIN Items = 1 .. 10 /\ \A i \in 1 .. 10 : Items[i].kind = kinds[i] /\ Items[i].key = keys[i]
  BY <1>4
<1>6. 1 .. 10 = {1, 2, 3, 4, 5, 6, 7, 8, 9, 10}
  OBVIOUS
<1>7. Keys = {keys[i] : i \in {1, 2, 3, 4, 5, 6, 7, 8, 9, 10}}
  BY <1>5, <1>6 DEF Keys
<1>8. {keys[i] : i \in {1, 2, 3, 4, 5, 6, 7, 8, 9, 10}} =
        {keys[1], keys[2], keys[3], keys[4], keys[5],
         keys[6], keys[7], keys[8], keys[9], keys[10]}
  OBVIOUS
<1>9. Keys = RentabilityKeys
  BY <1>2, <1>7, <1>8 DEF RentabilityKeys
<1>10. Len(Items) = 10
  BY <1>4
<1>11. QED
  BY <1>1, <1>5, <1>10, <1>9

\* What the proofs use of the lines of a form.
LEMMA ItemFacts ==
    /\ DOMAIN Items = 1 .. Len(Items) /\ Len(Items) \in Nat
    /\ \A i \in DOMAIN Items : /\ Items[i].key \in Keys
                               /\ Items[i].kind = "pickerView" <=> Items[i].key = "Duree"
    /\ Form = "credit" =>
          /\ Keys = CreditKeys
          /\ \A i \in DOMAIN Items : /\ Items[i].key = "Duree" <=> i = 2
                                     /\ Items[i].key = "Taux" <=> i = 3
<1>1. \A i \in DOMAIN Items : Items[i].key \in Keys
  BY DEF Keys
<1>2. CASE Form = "credit"
  <2>1. DOMAIN Items = 1 .. Len(Items) /\ Len(Items) \in Nat
    <3>1. DOMAIN Items = 1 .. 5 /\ Len(Items) = 5
      BY <1>2, LinesOfCredit
    <3>2. QED
      BY <3>1
  <2>2. QED
    BY <1>1, <1>2, <2>1, LinesOfCredit
<1>3. CASE Form = "rentability"
  <2>1. DOMAIN Items = 1 .. Len(Items) /\ Len(Items) \in Nat
    <3>1. DOMAIN Items = 1 .. 10 /\ Len(Items) = 10
      BY <1>3, RentabilityLines
    <3>2. QED
      BY <3>1
  <2>2. "Duree" \notin RentabilityKeys /\ Keys = RentabilityKeys
    <3>1. "Duree" \notin RentabilityKeys
      BY DEF RentabilityKeys
    <3>2. Keys = RentabilityKeys
      BY <1>3, RentabilityLines
    <3>3. QED
      BY <3>1, <3>2
  <2>3. \A i \in DOMAIN Items : Items[i].kind # "pickerView" /\ Items[i].key # "Duree"
    BY <1>1, <1>3, <2>2, RentabilityLines
  <2>4. QED
    BY <1>1, <1>3, <2>1, <2>3
<1>4. QED
  BY <1>2, <1>3, FormAssumption

-----------------------------------------------------------------------------
(* The invariant.                                                          *)

\* The results are a sequence, over some set.
ResultsListed == \E S : results \in Seq(S)

IForm == FormInv /\ ResultsListed

\* What the cells of lines that are laid out are.
LEMMA ShownFacts ==
    ASSUME FormTypeOK, LinesOK, NEW i \in Shown
    PROVE  /\ i \in DOMAIN Items /\ at[i] \in DOMAIN cells
           /\ cells[at[i]] \in Cell
           /\ cells[at[i]].kind = Items[i].kind /\ cells[at[i]].key = Items[i].key
<1>1. i \in DOMAIN Items /\ at[i] \in 1 .. Len(cells)
  BY DEF Shown, FormTypeOK
<1>2. DOMAIN cells = 1 .. Len(cells) /\ at[i] \in DOMAIN cells /\ cells[at[i]] \in Cell
  BY <1>1 DEF FormTypeOK
<1>3. QED
  BY <1>1, <1>2 DEF LinesOK

\* The end of an editing writes what a line shows, and never the duration.
LEMMA CommittedFacts ==
    ASSUME FormTypeOK, LinesOK
    PROVE  /\ Committed(data, editing) \in [Keys -> AnyText]
           /\ \A k \in Keys : Committed(data, editing)[k] # data[k] =>
                  /\ k # "Duree"
                  /\ \E i \in Shown : /\ Items[i].key = k
                                      /\ cells[at[i]].text = Committed(data, editing)[k]
<1>1. CASE editing = 0
  BY <1>1 DEF Committed, FormTypeOK
<1>2. CASE editing # 0
  <2>1. PICK i \in Shown : at[i] = editing /\ Items[i].kind # "pickerView"
    BY <1>2 DEF LinesOK
  <2>2. /\ i \in DOMAIN Items
        /\ cells[editing] \in Cell /\ cells[editing].key = Items[i].key
    BY <2>1, ShownFacts
  <2>3. Items[i].key # "Duree" /\ Items[i].key \in Keys
    BY <2>1, <2>2, ItemFacts
  <2>4. cells[editing].text \in AnyText
    BY <2>2 DEF Cell
  <2>5. Committed(data, editing) = [data EXCEPT ![Items[i].key] = cells[editing].text]
    BY <1>2, <2>2 DEF Committed
  <2>6. data \in [Keys -> AnyText]
    BY DEF FormTypeOK
  <2>7. QED
    BY <2>1, <2>3, <2>4, <2>5, <2>6
<1>3. QED
  BY <1>1, <1>2

\* A step keeps the duration when it does not touch it, and lays out or writes
\* only lines that are below the picker when the picker was laid out.
LEMMA DurationStays ==
    ASSUME DurationOK, FormTypeOK, page # "aborted",
           data'["Duree"] = data["Duree"],
           Form = "credit" =>
              /\ data'["Taux"] # data["Taux"] => \E i \in Shown : i >= 2
              /\ (\E i \in Shown' : i >= 2) => \E i \in Shown : i >= 2
    PROVE  DurationOK'
  BY DEF DurationOK

\* So it does when it ends an editing, or not.
LEMMA DurationStaysCommitted ==
    ASSUME DurationOK, FormTypeOK, LinesOK, page # "aborted",
           data' = Committed(data, editing) \/ data' = data,
           Shown' = Shown
    PROVE  DurationOK'
<1>1. SUFFICES ASSUME Form = "credit" PROVE DurationOK'
  BY DEF DurationOK
<1>2. "Duree" \in Keys /\ "Taux" \in Keys
  BY <1>1, ItemFacts DEF CreditKeys
<1>3. data'["Duree"] = data["Duree"]
  BY <1>2, CommittedFacts
<1>4. ASSUME data'["Taux"] # data["Taux"]
      PROVE  \E i \in Shown : i >= 2
  <2>1. PICK i \in Shown : Items[i].key = "Taux"
    BY <1>2, <1>4, CommittedFacts
  <2>2. i \in DOMAIN Items
    BY ShownFacts
  <2>3. i = 3
    BY <1>1, <2>1, <2>2, ItemFacts
  <2>4. QED
    BY <2>3
<1>5. QED
  BY <1>3, <1>4, DurationStays

\* A step that does not calculate or save keeps what is said of the results.
LEMMA ResultsStay ==
    ASSUME PageHasItsResults, ResultsListed, UNCHANGED <<results, computed, saved>>,
           page' = "results" => page = "results"
    PROVE  PageHasItsResults' /\ ResultsListed'
  BY DEF PageHasItsResults, ResultsListed

\* A new cell, and one that is configured for a line.
LEMMA ConfiguredCell ==
    ASSUME NEW i \in DOMAIN Items,
           NEW cell, cell \in Cell \/ cell = NewCell(Items[i].kind)
    PROVE  /\ cell.kind = Items[i].kind => Configured(cell, Items[i]) \in Cell
           /\ Configured(cell, Items[i]).kind = cell.kind
           /\ Configured(cell, Items[i]).key = Items[i].key
<1>1. Items[i].key \in Keys
  BY ItemFacts
<1>2. CASE cell \in Cell
  <2>1. Configured(cell, Items[i]) = [cell EXCEPT !.key = Items[i].key]
    BY DEF Configured
  <2>2. QED
    BY <1>1, <1>2, <2>1 DEF Cell
<1>3. CASE cell = NewCell(Items[i].kind)
  <2>1. Configured(cell, Items[i]) =
          [kind |-> Items[i].kind, key |-> Items[i].key, text |-> NoText,
           row |-> 10, picked |-> 10]
    BY <1>3 DEF Configured, NewCell
  <2>2. cell.kind = Items[i].kind
    BY <1>3 DEF NewCell
  <2>3. QED
    BY <1>1, <2>1, <2>2 DEF Cell, AnyText
<1>4. QED
  BY <1>2, <1>3

\* The first layout.
LEMMA FInitInv == FInit => IForm
<1> SUFFICES ASSUME FInit PROVE IForm
  OBVIOUS
<1> USE DEF FInit
<1>1. /\ MaxShown \in Nat /\ MaxShown <= Len(Items)
      /\ 1 .. MaxShown \subseteq DOMAIN Items
  BY FormAssumption, ShownAssumption, ItemFacts
<1>2. cells \in Seq(Cell) /\ Len(cells) = MaxShown
  <2>1. ASSUME NEW i \in 1 .. MaxShown
        PROVE  [NewCell(Items[i].kind) EXCEPT !.key = Items[i].key] \in Cell
    <3>1. i \in DOMAIN Items
      BY <1>1
    <3>2. NewCell(Items[i].kind).kind = Items[i].kind
      BY DEF NewCell
    <3>3. QED
      BY <3>1, <3>2, ConfiguredCell DEF Configured
  <2>2. cells \in [1 .. MaxShown -> Cell]
    BY <2>1
  <2>3. QED
    BY <1>1, <2>2, FunctionIsSeq
<1>3. at \in [DOMAIN Items -> 0 .. Len(cells)] /\ Shown = 1 .. MaxShown
  <2>1. at = [i \in DOMAIN Items |-> IF i <= MaxShown THEN i ELSE 0]
    OBVIOUS
  <2>2. \A i \in DOMAIN Items : i \in Nat \ {0}
    BY ItemFacts
  <2>3. \A i \in DOMAIN Items : (IF i <= MaxShown THEN i ELSE 0) \in 0 .. MaxShown
    BY <1>1, <2>2
  <2>4. at \in [DOMAIN Items -> 0 .. MaxShown]
    BY <2>1, <2>3
  <2>5. \A i \in DOMAIN Items : at[i] # 0 <=> i \in 1 .. MaxShown
    BY <1>1, <2>1, <2>2
  <2>6. Shown = 1 .. MaxShown
    BY <1>1, <2>1, <2>5 DEF Shown
  <2>7. QED
    BY <1>2, <2>4, <2>6
<1>4. lastCell \in 0 .. Len(cells)
  <2> DEFINE last == {i \in 1 .. MaxShown : Items[i].kind = LastKind}
             top == CHOOSE i \in last : \A j \in last : j <= i
  <2>1. CASE last = {}
    BY <1>1, <1>2, <2>1
  <2>2. CASE last # {}
    <3>1. last \in SUBSET Nat /\ \A i \in last : i <= MaxShown
      BY <1>1
    <3>2. \E i \in last : \A j \in last : j <= i
      BY <1>1, <2>2, <3>1, LastPlace
    <3>3. top \in last
      BY <3>2
    <3>4. QED
      BY <1>1, <1>2, <2>2, <3>3
  <2>3. QED
    BY <2>1, <2>2
<1>5. data \in [Keys -> AnyText] /\ computed \in [Keys -> AnyText]
  <2>1. NoText \in AnyText /\ creditDuration[10] \in AnyText
    BY DEF AnyText, creditDuration
  <2>2. QED
    BY <2>1
<1>6. FormTypeOK
  BY <1>2, <1>3, <1>4, <1>5 DEF FormTypeOK
<1>7. LinesOK
  <2>1. ASSUME NEW i \in Shown
        PROVE  at[i] = i /\ cells[at[i]].kind = Items[i].kind
                /\ cells[at[i]].key = Items[i].key
    <3>1. i \in 1 .. MaxShown /\ i \in DOMAIN Items
      BY <1>1, <1>3
    <3>2. at[i] = i
      BY <1>1, <3>1
    <3>3. cells[i] = Configured(NewCell(Items[i].kind), Items[i])
      BY <3>1 DEF Configured
    <3>4. NewCell(Items[i].kind).kind = Items[i].kind
      BY DEF NewCell
    <3>5. QED
      BY <3>1, <3>2, <3>3, <3>4, ConfiguredCell
  <2>2. QED
    BY <2>1 DEF LinesOK
<1>8. DurationOK
  <2>1. SUFFICES ASSUME Form = "credit",
                        data["Taux"] # NoText \/ \E i \in Shown : i >= 2
                 PROVE  data["Duree"] \in Durations
    BY DEF DurationOK
  <2>2. "Duree" \in Keys /\ "Taux" \in Keys
    BY <2>1, ItemFacts DEF CreditKeys
  <2>3. data["Taux"] = NoText
    BY <2>2
  <2>4. MaxShown >= 2
    BY <1>1, <1>3, <2>1, <2>3
  <2>5. data["Duree"] = creditDuration[10]
    BY <2>2, <2>4
  <2>6. QED
    BY <2>5 DEF Durations, creditDuration
<1>9. results = << >> /\ page = "form" /\ saved = {}
  OBVIOUS
<1>10. PageHasItsResults /\ ResultsListed
  BY <1>9 DEF PageHasItsResults, ResultsListed
<1>11. QED
  BY <1>6, <1>7, <1>8, <1>10 DEF IForm, FormInv

-----------------------------------------------------------------------------
(* The steps.                                                              *)

\* A line that enters gets a cell no other line has, and the picker writes the
\* duration it remembers.
LEMMA LineEntersInv ==
    ASSUME IForm, NEW i \in DOMAIN Items, LineEnters(i)
    PROVE  IForm'
<1> DEFINE kind == Items[i].kind
           new == Len(cells) + 1
<1>1. PICK c \in IF Spare(kind) # {} THEN Spare(kind) ELSE {new} :
        LET cell == Configured(IF c = new THEN NewCell(kind) ELSE cells[c], Items[i])
        IN  /\ cells' = IF c = new THEN Append(cells, cell)
                        ELSE [cells EXCEPT ![c] = cell]
            /\ at' = [at EXCEPT ![i] = c]
            /\ lastCell' = IF kind = LastKind THEN c ELSE lastCell
            /\ IF kind # "pickerView" THEN UNCHANGED <<data, page>>
               ELSE IF cell.picked \in DOMAIN creditDuration
               THEN /\ data' = [data EXCEPT !["Duree"] = creditDuration[cell.picked]]
                    /\ UNCHANGED page
               ELSE page' = "aborted" /\ UNCHANGED data
  BY DEF LineEnters
<1> DEFINE old == IF c = new THEN NewCell(kind) ELSE cells[c]
           cell == Configured(old, Items[i])
<1>2. /\ OnForm /\ i \notin Shown /\ {i - 1, i + 1} \cap Shown # {}
      /\ UNCHANGED <<editing, results, alert, computed, saved>>
  BY DEF LineEnters
<1>3. FormTypeOK /\ LinesOK /\ DurationOK /\ PageHasItsResults /\ ResultsListed
  BY DEF IForm, FormInv
<1>4. /\ cells \in Seq(Cell) /\ Len(cells) \in Nat /\ DOMAIN cells = 1 .. Len(cells)
      /\ at \in [DOMAIN Items -> 0 .. Len(cells)]
      /\ lastCell \in 0 .. Len(cells)
      /\ data \in [Keys -> AnyText] /\ computed \in [Keys -> AnyText]
  BY <1>3 DEF FormTypeOK
<1>5. /\ c = new \/ (c \in DOMAIN cells /\ cells[c].kind = kind)
      /\ \A j \in DOMAIN Items : at[j] # c
  <2>1. CASE Spare(kind) # {}
    BY <1>1, <1>4, <2>1 DEF Spare
  <2>2. CASE Spare(kind) = {}
    <3>1. c = new
      BY <1>1, <2>2
    <3>2. \A j \in DOMAIN Items : at[j] # new
      BY <1>4
    <3>3. QED
      BY <3>1, <3>2
  <2>3. QED
    BY <2>1, <2>2
<1>6. cell \in Cell /\ cell.kind = kind /\ cell.key = Items[i].key
  <2>1. CASE c = new
    <3>1. old = NewCell(kind) /\ NewCell(kind).kind = kind
      BY <2>1 DEF NewCell
    <3>2. QED
      BY <3>1, ConfiguredCell
  <2>2. CASE c # new
    <3>1. old \in Cell /\ old.kind = kind
      BY <1>4, <1>5, <2>2
    <3>2. QED
      BY <3>1, ConfiguredCell
  <2>3. QED
    BY <2>1, <2>2
<1>7. /\ cells' = IF c = new THEN Append(cells, cell) ELSE [cells EXCEPT ![c] = cell]
      /\ at' = [at EXCEPT ![i] = c]
      /\ lastCell' = IF kind = LastKind THEN c ELSE lastCell
      /\ IF kind # "pickerView" THEN UNCHANGED <<data, page>>
         ELSE IF cell.picked \in DOMAIN creditDuration
         THEN /\ data' = [data EXCEPT !["Duree"] = creditDuration[cell.picked]]
              /\ UNCHANGED page
         ELSE page' = "aborted" /\ UNCHANGED data
  BY <1>1
<1> HIDE DEF cell, old, kind, new
<1>8. /\ cells' \in Seq(Cell) /\ c \in 1 .. Len(cells') /\ Len(cells) <= Len(cells')
      /\ cells'[c] = cell
      /\ \A b \in DOMAIN cells : b # c => cells'[b] = cells[b]
  <2>1. CASE c = new
    <3>1. cells' = Append(cells, cell)
      BY <1>7, <2>1
    <3>2. QED
      BY <1>4, <1>6, <2>1, <3>1, AppendProperties DEF new
  <2>2. CASE c # new
    <3>1. cells' = [cells EXCEPT ![c] = cell] /\ c \in 1 .. Len(cells)
      BY <1>4, <1>5, <1>7, <2>2
    <3>2. QED
      BY <1>4, <1>6, <3>1, ExceptSeq
  <2>3. QED
    BY <2>1, <2>2
<1>9. data' \in [Keys -> AnyText]
  <2>1. creditDuration[cell.picked] \in AnyText \/ cell.picked \notin DOMAIN creditDuration
    BY DEF creditDuration, AnyText
  <2>2. QED
    BY <1>4, <1>7, <2>1
<1>10. FormTypeOK'
  <2>1. at' \in [DOMAIN Items -> 0 .. Len(cells')]
    BY <1>4, <1>7, <1>8
  <2>2. lastCell' \in 0 .. Len(cells')
    BY <1>4, <1>7, <1>8
  <2>3. QED
    BY <1>2, <1>4, <1>8, <1>9, <2>1, <2>2 DEF FormTypeOK
<1>11. Shown' = Shown \cup {i} /\ i \in DOMAIN Items
  <2>1. c # 0
    BY <1>4, <1>5 DEF new
  <2>2. DOMAIN at' = DOMAIN at /\ i \in DOMAIN at
    BY <1>4, <1>7
  <2>3. at'[i] = c /\ \A j \in DOMAIN at : j # i => at'[j] = at[j]
    BY <1>4, <1>7
  <2>4. QED
    BY <2>1, <2>2, <2>3 DEF Shown
<1>12. /\ at'[i] = c
       /\ \A j \in Shown : /\ j \in DOMAIN Items /\ j # i /\ at'[j] = at[j] /\ at[j] # c
                           /\ at[j] \in DOMAIN cells /\ cells'[at[j]] = cells[at[j]]
  <2>1. at'[i] = c
    BY <1>4, <1>7
  <2>2. ASSUME NEW j \in Shown
        PROVE  /\ j \in DOMAIN Items /\ j # i /\ at'[j] = at[j] /\ at[j] # c
               /\ at[j] \in DOMAIN cells /\ cells'[at[j]] = cells[at[j]]
    <3>1. j \in DOMAIN Items /\ at[j] \in DOMAIN cells
      BY <1>3, ShownFacts
    <3>2. j # i
      BY <1>2
    <3>3. at'[j] = at[j] /\ at[j] # c
      BY <1>4, <1>5, <1>7, <3>1, <3>2
    <3>4. QED
      BY <1>8, <3>1, <3>2, <3>3
  <2>3. QED
    BY <2>1, <2>2
<1>13. LinesOK'
  <2>1. ASSUME NEW j \in Shown'
        PROVE  cells'[at'[j]].kind = Items[j].kind /\ cells'[at'[j]].key = Items[j].key
    <3>1. CASE j = i
      BY <1>6, <1>8, <1>12, <3>1 DEF kind
    <3>2. CASE j \in Shown
      BY <1>3, <1>12, <3>2, ShownFacts
    <3>3. QED
      BY <1>11, <3>1, <3>2
  <2>2. ASSUME NEW j \in Shown', NEW k \in Shown', at'[j] = at'[k]
        PROVE  j = k
    BY <1>3, <1>11, <1>12, <2>2 DEF LinesOK
  <2>3. editing' = 0 \/ \E j \in Shown' : at'[j] = editing' /\ Items[j].kind # "pickerView"
    BY <1>2, <1>3, <1>11, <1>12 DEF LinesOK
  <2>4. QED
    BY <2>1, <2>2, <2>3 DEF LinesOK
<1>14. DurationOK'
  <2>1. SUFFICES ASSUME Form = "credit", page' # "aborted" PROVE DurationOK'
    BY DEF DurationOK
  <2>2. "Duree" \in Keys /\ "Taux" \in Keys
    BY <2>1, ItemFacts DEF CreditKeys
  <2>3. page # "aborted"
    BY <1>2 DEF OnForm
  <2>4. CASE kind = "pickerView"
    <3>1. cell.picked \in DOMAIN creditDuration
          /\ data' = [data EXCEPT !["Duree"] = creditDuration[cell.picked]]
      BY <1>7, <2>1, <2>4
    <3>2. data'["Duree"] \in Durations
      BY <1>4, <2>2, <3>1 DEF Durations
    <3>3. QED
      BY <3>2 DEF DurationOK
  <2>5. CASE kind # "pickerView"
    <3>1. data' = data /\ page' = page
      BY <1>7, <2>5
    <3>2. i # 2
      BY <2>1, <2>5, ItemFacts DEF kind
    <3>3. PICK j \in Shown : j = i - 1 \/ j = i + 1
      BY <1>2
    <3>4. i \in Nat \ {0} /\ j \in Nat \ {0}
      BY <1>12, ItemFacts
    <3>5. i >= 2 => j >= 2
      BY <3>2, <3>3, <3>4
    <3>6. (\E l \in Shown' : l >= 2) => \E l \in Shown : l >= 2
      BY <1>11, <3>5
    <3>7. QED
      BY <1>3, <2>1, <2>3, <3>1, <3>6, DurationStays
  <2>6. QED
    BY <2>4, <2>5
<1>15. PageHasItsResults' /\ ResultsListed'
  <2>1. page' = "results" => page = "results"
    BY <1>7
  <2>2. QED
    BY <1>2, <1>3, <2>1, ResultsStay
<1>16. QED
  BY <1>10, <1>13, <1>14, <1>15 DEF IForm, FormInv

\* A line that leaves is not the one that is being edited.
LEMMA LineLeavesInv ==
    ASSUME IForm, NEW i \in DOMAIN Items, LineLeaves(i)
    PROVE  IForm'
<1>1. FormTypeOK /\ LinesOK /\ DurationOK /\ PageHasItsResults /\ ResultsListed
  BY DEF IForm, FormInv
<1>2. /\ OnForm /\ i \in Shown /\ at[i] # editing /\ at' = [at EXCEPT ![i] = 0]
      /\ UNCHANGED <<cells, lastCell, editing, data, results, page, alert, computed, saved>>
  BY DEF LineLeaves
<1>3. at \in [DOMAIN Items -> 0 .. Len(cells)] /\ Len(cells) \in Nat
  BY <1>1 DEF FormTypeOK
<1>4. /\ Shown' \subseteq Shown
      /\ \A j \in Shown : at[j] = editing => j \in Shown'
      /\ \A j \in Shown' : at'[j] = at[j]
  BY <1>2, <1>3 DEF Shown
<1>5. FormTypeOK'
  BY <1>1, <1>2, <1>3 DEF FormTypeOK
<1>6. LinesOK'
  <2>1. editing = 0 \/ \E j \in Shown' : at'[j] = editing /\ Items[j].kind # "pickerView"
    BY <1>1, <1>4 DEF LinesOK
  <2>2. QED
    BY <1>1, <1>2, <1>4, <2>1 DEF LinesOK
<1>7. DurationOK'
  BY <1>1, <1>2, <1>4 DEF DurationOK
<1>8. PageHasItsResults' /\ ResultsListed'
  BY <1>1, <1>2, ResultsStay
<1>9. QED
  BY <1>5, <1>6, <1>7, <1>8 DEF IForm, FormInv

\* A step that keeps the lines and changes texts or the picker of cells keeps
\* what a line has to do with its cell.
LEMMA LinesStay ==
    ASSUME FormTypeOK, LinesOK, UNCHANGED at,
           \A j \in Shown : cells'[at[j]].kind = cells[at[j]].kind
                          /\ cells'[at[j]].key = cells[at[j]].key,
           editing' = 0 \/ \E j \in Shown :
                              at[j] = editing' /\ Items[j].kind # "pickerView"
    PROVE  LinesOK' /\ Shown' = Shown
<1>1. Shown' = Shown
  BY DEF Shown
<1>2. QED
  BY <1>1 DEF LinesOK

\* A new text in the field of a line keeps the cells, and their keys.
LEMMA TextChanges ==
    ASSUME FormTypeOK, LinesOK, NEW i \in Shown, NEW text \in AnyText,
           cells' = [cells EXCEPT ![at[i]].text = text], UNCHANGED at
    PROVE  /\ cells' \in Seq(Cell) /\ Len(cells') = Len(cells)
           /\ \A j \in Shown : cells'[at[j]].kind = cells[at[j]].kind
                             /\ cells'[at[j]].key = cells[at[j]].key
<1> DEFINE cell == [cells[at[i]] EXCEPT !.text = text]
<1>1. at[i] \in DOMAIN cells /\ cells[at[i]] \in Cell
  BY ShownFacts
<1>2. cell \in Cell /\ cell.kind = cells[at[i]].kind /\ cell.key = cells[at[i]].key
  BY <1>1 DEF Cell
<1>3. cells \in Seq(Cell) /\ DOMAIN cells = 1 .. Len(cells)
  BY DEF FormTypeOK
<1>4. cells' = [cells EXCEPT ![at[i]] = cell]
  BY <1>1
<1> HIDE DEF cell
<1>5. /\ cells' \in Seq(Cell) /\ Len(cells') = Len(cells)
      /\ \A c \in DOMAIN cells : cells'[c] = IF c = at[i] THEN cell ELSE cells[c]
  BY <1>1, <1>2, <1>3, <1>4, ExceptSeq
<1>6. \A j \in Shown : at[j] \in DOMAIN cells
  BY ShownFacts
<1>7. QED
  BY <1>2, <1>5, <1>6

\* Typing in a line ends the editing of the line that was edited before.
LEMMA TypeInInv ==
    ASSUME IForm, NEW i \in DOMAIN Items, NEW text \in Typed, TypeIn(i, text)
    PROVE  IForm'
<1>1. FormTypeOK /\ LinesOK /\ DurationOK /\ PageHasItsResults /\ ResultsListed
  BY DEF IForm, FormInv
<1>2. /\ OnForm /\ i \in Shown /\ Items[i].kind # "pickerView"
      /\ data' = IF editing = at[i] THEN data ELSE Committed(data, editing)
      /\ editing' = at[i]
      /\ cells' = [cells EXCEPT ![at[i]].text = text]
      /\ UNCHANGED <<at, lastCell, results, page, alert, computed, saved>>
  BY DEF TypeIn
<1>3. text \in AnyText
  BY FormAssumption DEF AnyText
<1>4. /\ cells' \in Seq(Cell) /\ Len(cells') = Len(cells)
      /\ \A j \in Shown : cells'[at[j]].kind = cells[at[j]].kind
                        /\ cells'[at[j]].key = cells[at[j]].key
  BY <1>1, <1>2, <1>3, TextChanges
<1>5. data' \in [Keys -> AnyText]
  BY <1>1, <1>2, CommittedFacts DEF FormTypeOK
<1>6. FormTypeOK'
  BY <1>1, <1>2, <1>4, <1>5 DEF FormTypeOK
<1>7. LinesOK' /\ Shown' = Shown
  BY <1>1, <1>2, <1>4, LinesStay
<1>8. DurationOK'
  BY <1>1, <1>2, <1>7, DurationStaysCommitted DEF OnForm
<1>9. PageHasItsResults' /\ ResultsListed'
  BY <1>1, <1>2, ResultsStay
<1>10. QED
  BY <1>6, <1>7, <1>8, <1>9 DEF IForm, FormInv

\* An editing ends without another beginning.
LEMMA EndEditingInv ==
    ASSUME IForm, EndEditing
    PROVE  IForm'
<1>1. FormTypeOK /\ LinesOK /\ DurationOK /\ PageHasItsResults /\ ResultsListed
  BY DEF IForm, FormInv
<1>2. /\ page # "aborted" /\ data' = Committed(data, editing) /\ editing' = 0
      /\ UNCHANGED <<cells, at, lastCell, results, page, alert, computed, saved>>
  BY DEF EndEditing
<1>3. data' \in [Keys -> AnyText]
  BY <1>1, <1>2, CommittedFacts
<1>4. FormTypeOK'
  BY <1>1, <1>2, <1>3 DEF FormTypeOK
<1>5. LinesOK' /\ Shown' = Shown
  BY <1>1, <1>2, LinesStay
<1>6. DurationOK'
  BY <1>1, <1>2, <1>5, DurationStaysCommitted
<1>7. PageHasItsResults' /\ ResultsListed'
  BY <1>1, <1>2, ResultsStay
<1>8. QED
  BY <1>4, <1>5, <1>6, <1>7 DEF IForm, FormInv

\* The stepper sets the text of its field and leaves the data alone.
LEMMA StepRateInv ==
    ASSUME IForm, NEW i \in DOMAIN Items, NEW rate \in Int,
           i \in Shown, StepRate(i, rate)
    PROVE  IForm'
<1>1. FormTypeOK /\ LinesOK /\ DurationOK /\ PageHasItsResults /\ ResultsListed
  BY DEF IForm, FormInv
<1>2. /\ OnForm /\ cells' = [cells EXCEPT ![at[i]].text = rate]
      /\ UNCHANGED <<at, lastCell, editing, data, results, page, alert, computed, saved>>
  BY DEF StepRate
<1>3. rate \in AnyText
  BY DEF AnyText
<1>4. /\ cells' \in Seq(Cell) /\ Len(cells') = Len(cells)
      /\ \A j \in Shown : cells'[at[j]].kind = cells[at[j]].kind
                        /\ cells'[at[j]].key = cells[at[j]].key
  BY <1>1, <1>2, <1>3, TextChanges
<1>5. FormTypeOK'
  BY <1>1, <1>2, <1>4 DEF FormTypeOK
<1>6. editing' = 0 \/ \E j \in Shown : at[j] = editing' /\ Items[j].kind # "pickerView"
  BY <1>1, <1>2 DEF LinesOK
<1>7. LinesOK' /\ Shown' = Shown
  BY <1>1, <1>2, <1>4, <1>6, LinesStay
<1>8. DurationOK'
  BY <1>1, <1>2, <1>7, DurationStaysCommitted DEF OnForm
<1>9. PageHasItsResults' /\ ResultsListed'
  BY <1>1, <1>2, ResultsStay
<1>10. QED
  BY <1>5, <1>7, <1>8, <1>9 DEF IForm, FormInv

\* The picker writes a duration of the list, and nothing under another title.
LEMMA PickDurationInv ==
    ASSUME IForm, NEW i \in DOMAIN Items, NEW row \in PickedRows, PickDuration(i, row)
    PROVE  IForm'
<1>1. FormTypeOK /\ LinesOK /\ DurationOK /\ PageHasItsResults /\ ResultsListed
  BY DEF IForm, FormInv
<1>2. /\ OnForm /\ i \in Shown /\ Items[i].kind = "pickerView"
      /\ cells' = [cells EXCEPT ![at[i]].row = row,
                                ![at[i]].picked = creditDuration[row]]
      /\ data' = [data EXCEPT ![cells[at[i]].key] = creditDuration[row]]
      /\ UNCHANGED <<at, lastCell, editing, results, page, alert, computed, saved>>
  BY DEF PickDuration
<1>3. row \in 0 .. 20 /\ creditDuration[row] \in Durations /\ creditDuration[row] \in Int
  BY FormAssumption DEF Durations, creditDuration
<1> DEFINE cell == [cells[at[i]] EXCEPT !.row = row, !.picked = creditDuration[row]]
<1>4. /\ at[i] \in DOMAIN cells /\ cells[at[i]] \in Cell
      /\ cells[at[i]].key = Items[i].key
  BY <1>1, <1>2, ShownFacts
<1>5. cell \in Cell /\ cell.kind = cells[at[i]].kind /\ cell.key = cells[at[i]].key
  BY <1>3, <1>4 DEF Cell
<1>6. cells \in Seq(Cell) /\ DOMAIN cells = 1 .. Len(cells)
  BY <1>1 DEF FormTypeOK
<1>7. cells' = [cells EXCEPT ![at[i]] = cell]
  BY <1>2, <1>4
<1> HIDE DEF cell
<1>8. /\ cells' \in Seq(Cell) /\ Len(cells') = Len(cells)
      /\ \A c \in DOMAIN cells : cells'[c] = IF c = at[i] THEN cell ELSE cells[c]
  BY <1>4, <1>5, <1>6, <1>7, ExceptSeq
<1>9. \A j \in Shown : at[j] \in DOMAIN cells
  BY <1>1, ShownFacts
<1>10. \A j \in Shown : cells'[at[j]].kind = cells[at[j]].kind
                     /\ cells'[at[j]].key = cells[at[j]].key
  BY <1>5, <1>8, <1>9
<1>11. Items[i].key = "Duree" /\ "Duree" \in Keys
  BY <1>2, ItemFacts
<1>12. data \in [Keys -> AnyText] /\ data' = [data EXCEPT !["Duree"] = creditDuration[row]]
  BY <1>1, <1>2, <1>4, <1>11 DEF FormTypeOK
<1>13. data' \in [Keys -> AnyText] /\ data'["Duree"] \in Durations
  BY <1>3, <1>11, <1>12 DEF AnyText
<1>14. FormTypeOK'
  BY <1>1, <1>2, <1>8, <1>13 DEF FormTypeOK
<1>15. editing' = 0 \/ \E j \in Shown : at[j] = editing' /\ Items[j].kind # "pickerView"
  BY <1>1, <1>2 DEF LinesOK
<1>16. LinesOK'
  BY <1>1, <1>2, <1>10, <1>15, LinesStay
<1>17. DurationOK'
  BY <1>13 DEF DurationOK
<1>18. PageHasItsResults' /\ ResultsListed'
  BY <1>1, <1>2, ResultsStay
<1>19. QED
  BY <1>14, <1>16, <1>17, <1>18 DEF IForm, FormInv

\* Both calculators give four results.
LEMMA FourResults ==
    ASSUME NEW d
    PROVE  \E T : CalculationResults(d) \in Seq(T) /\ Len(CalculationResults(d)) = 4
<1>1. \A a, b, c, e : /\ <<a, b, c, e>> \in Seq({a, b, c, e})
                      /\ Len(<<a, b, c, e>>) = 4
  OBVIOUS
<1>2. \E T : CreditResults(d) \in Seq(T) /\ Len(CreditResults(d)) = 4
  BY <1>1, Zenon DEF CreditResults
<1>3. \E T : RentabilityResults(d) \in Seq(T) /\ Len(RentabilityResults(d)) = 4
  BY <1>1, Zenon DEF RentabilityResults
<1>4. CalculationResults(d) = CreditResults(d) \/ CalculationResults(d) = RentabilityResults(d)
  BY DEF CalculationResults
<1>5. QED
  BY <1>2, <1>3, <1>4

\* The calculation adds the four results of a form that raises no error, and
\* without them the page is not pushed.
LEMMA CalculInv ==
    ASSUME IForm, didTapOnCalculButton
    PROVE  IForm'
<1>1. FormTypeOK /\ LinesOK /\ DurationOK /\ PageHasItsResults /\ ResultsListed
  BY DEF IForm, FormInv
<1>2. /\ page = "form"
      /\ data' = IF editing = lastCell THEN Committed(data, editing) ELSE data
      /\ editing' = IF editing = lastCell THEN 0 ELSE editing
      /\ ShowResults(data')
      /\ UNCHANGED <<cells, at, lastCell, saved>>
  BY DEF didTapOnCalculButton, OnForm
<1>3. \/ UNCHANGED <<results, computed, page>>
      \/ /\ CalculationError(data') = "none"
         /\ results' = results \o CalculationResults(data')
         /\ computed' = data' /\ page' = "results"
  BY <1>2 DEF ShowResults
<1>4. data' \in [Keys -> AnyText]
  BY <1>1, <1>2, CommittedFacts DEF FormTypeOK
<1>5. FormTypeOK'
  BY <1>1, <1>2, <1>3, <1>4 DEF FormTypeOK
<1>6. editing' = 0 \/ \E j \in Shown : at[j] = editing' /\ Items[j].kind # "pickerView"
  BY <1>1, <1>2 DEF LinesOK
<1>7. LinesOK' /\ Shown' = Shown
  BY <1>1, <1>2, <1>6, LinesStay
<1>8. DurationOK'
  BY <1>1, <1>2, <1>7, DurationStaysCommitted
<1>9. page' # "aborted"
  BY <1>2, <1>3
<1>10. PageHasItsResults' /\ ResultsListed'
  <2>1. CASE UNCHANGED <<results, computed, page>>
    BY <1>1, <1>2, <2>1, ResultsStay
  <2>2. CASE /\ CalculationError(data') = "none"
             /\ results' = results \o CalculationResults(data')
             /\ computed' = data' /\ page' = "results"
    <3>1. PICK S : results \in Seq(S)
      BY <1>1 DEF ResultsListed
    <3>2. PICK T : CalculationResults(data') \in Seq(T) /\ Len(CalculationResults(data')) = 4
      BY FourResults
    <3>3. results \in Seq(S \cup T) /\ CalculationResults(data') \in Seq(S \cup T)
      BY <3>1, <3>2, SeqMonotonic
    <3>4. results' \in Seq(S \cup T) /\ Len(results') = Len(results) + 4
      <4>1. \A s, t \in Seq(S \cup T) : /\ s \o t \in Seq(S \cup T)
                                        /\ Len(s \o t) = Len(s) + Len(t)
        BY ConcatProperties
      <4>2. QED
        BY <2>2, <3>2, <3>3, <4>1
    <3>5. Len(results) \in Nat
      BY <3>1
    <3>6. Len(results') >= 4 /\ Len(results') % 4 = 0
      BY <1>1, <3>4, <3>5 DEF PageHasItsResults
    <3>7. Form = "credit" => computed'["Duree"] \in Durations
      <4>1. SUFFICES ASSUME Form = "credit" PROVE data'["Duree"] \in Durations
        BY <2>2
      <4>2. "Taux" \in CreditKeys /\ Keys = CreditKeys
        BY <4>1, ItemFacts DEF CreditKeys
      <4>3. NamesMissing(CreditError(data'), data', RequiredOfCredit)
        BY <1>4, <4>2, CreditErrors
      <4>4. CreditError(data') = "none"
        BY <2>2, <4>1 DEF CalculationError
      <4>5. "none" \notin RequiredOfCredit /\ "Taux" \in RequiredOfCredit
        BY DEF RequiredOfCredit
      <4>6. data'["Taux"] # NoText
        BY <4>3, <4>4, <4>5 DEF NamesMissing
      <4>7. QED
        BY <1>8, <1>9, <4>1, <4>6 DEF DurationOK
    <3>8. \A r \in saved' : Len(r.results) = 4
      BY <1>1, <1>2 DEF PageHasItsResults
    <3>9. QED
      BY <3>4, <3>6, <3>7, <3>8 DEF PageHasItsResults, ResultsListed
  <2>3. QED
    BY <1>3, <2>1, <2>2
<1>11. QED
  BY <1>5, <1>7, <1>8, <1>10 DEF IForm, FormInv

\* What is saved are the four results that are on screen.
LEMMA SaveInv ==
    ASSUME IForm, SaveSimulation
    PROVE  IForm'
<1>1. FormTypeOK /\ LinesOK /\ DurationOK /\ PageHasItsResults /\ ResultsListed
  BY DEF IForm, FormInv
<1>2. /\ page = "results" /\ saved' = {[inputs |-> data, results |-> FirstFour]}
      /\ UNCHANGED <<cells, at, lastCell, editing, data, results, page, alert, computed>>
  BY DEF SaveSimulation
<1>3. FormTypeOK' /\ DurationOK'
  BY <1>1, <1>2 DEF FormTypeOK, DurationOK, Shown
<1>4. LinesOK'
  BY <1>1, <1>2 DEF LinesOK, Shown
<1>5. Len(FirstFour) = 4
  <2>1. PICK S : results \in Seq(S)
    BY <1>1 DEF ResultsListed
  <2>2. Len(results) >= 4 /\ Len(results) \in Nat
    BY <1>1, <1>2, <2>1 DEF PageHasItsResults
  <2>3. \A j \in 1 .. 4 : results[j] \in S
    BY <2>1, <2>2
  <2>4. QED
    BY <2>3, SubSeqProperties DEF FirstFour
<1>6. \A r \in saved' : Len(r.results) = 4
  BY <1>2, <1>5
<1>7. PageHasItsResults' /\ ResultsListed'
  BY <1>1, <1>2, <1>6 DEF PageHasItsResults, ResultsListed
<1>8. QED
  BY <1>3, <1>4, <1>7 DEF IForm, FormInv

\* Leaving the alert or the page of results changes nothing of the form.
LEMMA LeavePageInv ==
    ASSUME IForm, DismissAlert \/ Back
    PROVE  IForm'
<1>1. FormTypeOK /\ LinesOK /\ DurationOK /\ PageHasItsResults /\ ResultsListed
  BY DEF IForm, FormInv
<1>2. /\ UNCHANGED <<cells, at, lastCell, editing, data, results, computed, saved>>
      /\ page' = page \/ (page = "results" /\ page' = "form")
  BY DEF DismissAlert, Back
<1>3. FormTypeOK' /\ DurationOK'
  BY <1>1, <1>2 DEF FormTypeOK, DurationOK, Shown
<1>4. LinesOK'
  BY <1>1, <1>2 DEF LinesOK, Shown
<1>5. PageHasItsResults' /\ ResultsListed'
  BY <1>1, <1>2, ResultsStay
<1>6. QED
  BY <1>3, <1>4, <1>5 DEF IForm, FormInv

\* The steppers compute a rate from what their field holds.
LEMMA StepperInv ==
    ASSUME IForm, NEW i \in DOMAIN Items,
           didTapOnPlusButton(i) \/ didTapOnMinusButton(i)
    PROVE  IForm'
<1>1. i \in Shown
  BY DEF didTapOnPlusButton, didTapOnMinusButton
<1> DEFINE value == transformInDouble(cells[at[i]].text)
<1>2. value \in Int
  BY DEF transformInDouble
<1>3. StepRate(i, value + 1) \/ StepRate(i, IF value - 1 <= 0 THEN 0 ELSE value - 1)
  BY DEF didTapOnPlusButton, didTapOnMinusButton
<1>4. value + 1 \in Int /\ (IF value - 1 <= 0 THEN 0 ELSE value - 1) \in Int
  BY <1>2
<1> HIDE DEF value
<1>5. QED
  BY <1>1, <1>3, <1>4, StepRateInv

\* Every step keeps the invariant.
LEMMA FNextInv ==
    ASSUME IForm, [FNext]_formVars
    PROVE  IForm'
<1>1. CASE \E i \in DOMAIN Items : LineEnters(i) \/ LineLeaves(i)
  BY <1>1, LineEntersInv, LineLeavesInv
<1>2. CASE \E i \in DOMAIN Items : \E text \in Typed : TypeIn(i, text)
  BY <1>2, TypeInInv
<1>3. CASE \E i \in DOMAIN Items : didTapOnPlusButton(i) \/ didTapOnMinusButton(i)
  BY <1>3, StepperInv
<1>4. CASE \E i \in DOMAIN Items : \E row \in PickedRows : PickDuration(i, row)
  BY <1>4, PickDurationInv
<1>5. CASE EndEditing
  BY <1>5, EndEditingInv
<1>6. CASE didTapOnCalculButton
  BY <1>6, CalculInv
<1>7. CASE DismissAlert \/ Back
  BY <1>7, LeavePageInv
<1>8. CASE SaveSimulation
  BY <1>8, SaveInv
<1>9. CASE UNCHANGED formVars
  BY <1>9 DEF IForm, FormInv, FormTypeOK, LinesOK, DurationOK, PageHasItsResults,
              ResultsListed, Shown, formVars
<1>10. QED
  BY <1>1, <1>2, <1>3, <1>4, <1>5, <1>6, <1>7, <1>8, <1>9 DEF FNext

\* The invariant, for any number of lines on screen, any texts and any
\* calculator: a line shows the cell that is configured for it, and the form
\* has a duration before it can have a rate.
THEOREM FormInvariance == FSpec => []FormInv
<1>1. FInit => IForm
  BY FInitInv
<1>2. IForm /\ [FNext]_formVars => IForm'
  BY FNextInv
<1>3. IForm => FormInv
  BY DEF IForm
<1>4. QED
  BY <1>1, <1>2, <1>3, PTL DEF FSpec

\* While the page of results is on screen its four lines exist, and no loan is
\* computed without a duration of the list.
THEOREM ResultsExist == FSpec => []PageHasItsResults
<1>1. FormInv => PageHasItsResults
  BY DEF FormInv
<1>2. QED
  BY <1>1, FormInvariance, PTL

\* What a step writes under the title of a text line is what that line shows:
\* an edit does not reach the line its cell showed before.
THEOREM EditReachesItsLine == FSpec => WrittenIsShown
<1> DEFINE Writes == \A k \in Keys \ {"Duree"} : data'[k] # data[k] =>
                        \E i \in Shown : Items[i].key = k /\ cells[at[i]].text = data'[k]
<1>1. ASSUME FormInv, [FNext]_formVars
      PROVE  Writes
  <2>1. FormTypeOK /\ LinesOK
    BY <1>1 DEF FormInv
  <2>2. CASE UNCHANGED data \/ data' = Committed(data, editing)
    BY <2>1, <2>2, CommittedFacts
  <2>3. CASE \E i \in DOMAIN Items : LineEnters(i)
    <3>1. UNCHANGED data \/ \E v : data' = [data EXCEPT !["Duree"] = v]
      BY <2>3 DEF LineEnters
    <3>2. QED
      BY <2>1, <3>1 DEF FormTypeOK
  <2>4. CASE \E i \in DOMAIN Items : \E row \in PickedRows : PickDuration(i, row)
    <3>1. PICK i \in DOMAIN Items, row \in PickedRows : PickDuration(i, row)
      BY <2>4
    <3>2. /\ i \in Shown /\ Items[i].kind = "pickerView"
          /\ data' = [data EXCEPT ![cells[at[i]].key] = creditDuration[row]]
      BY <3>1 DEF PickDuration
    <3>3. cells[at[i]].key = "Duree"
      BY <2>1, <3>2, ShownFacts, ItemFacts
    <3>4. QED
      BY <2>1, <3>2, <3>3 DEF FormTypeOK
  <2>5. CASE UNCHANGED formVars
    BY <2>2, <2>5 DEF formVars
  <2>6. CASE FNext
    <3>1. \/ \E i \in DOMAIN Items : LineEnters(i)
          \/ \E i \in DOMAIN Items : \E row \in PickedRows : PickDuration(i, row)
          \/ UNCHANGED data \/ data' = Committed(data, editing)
      BY <2>6 DEF FNext, LineLeaves, TypeIn, didTapOnPlusButton, didTapOnMinusButton,
                  StepRate, EndEditing, didTapOnCalculButton, DismissAlert, Back,
                  SaveSimulation
    <3>2. QED
      BY <2>2, <2>3, <2>4, <3>1
  <2>7. QED
    BY <1>1, <2>5, <2>6
<1>2. FormInv /\ [FNext]_formVars => [Writes]_formVars
  BY <1>1
<1>3. QED
  BY <1>2, FormInvariance, PTL DEF FSpec, WrittenIsShown

=============================================================================
