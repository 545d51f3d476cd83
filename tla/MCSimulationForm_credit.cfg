CONSTANTS
    NoText = NoText
    Unreadable = Unreadable
    NotANumber = NotANumber
    Annuity <- SomeAnnuity
    HalfUp <- SomeHalfUp
    Form = "credit"
    TypedIn <- CreditLines
    Typed <- OneAmount
    PickedRows <- FirstAndLast
    MaxShown = 2
    MaxRate = 1
    MaxCalculations = 2
SPECIFICATION FSpec
INVARIANTS PageHasItsResults CalculatorsAreRight
PROPERTY WrittenIsShown
CHECK_DEADLOCK FALSE
