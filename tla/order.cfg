\* Every handler of an order, with a customer's tab cancelling the request
\* behind its back, a quotation created across the acceptance, and two price changes over a range of amounts that leaves
\* room for two reductions in a row and an increase over each of them.
CONSTANTS
    Amounts <- WideAmounts
    Stored <- WideStored
    QuotedPrice <- WideQuotedPrice
    ChangeIds = {c1, c2}
    CancelCalls = {k1, k2}
    QuotationCalls = {q1}
    MaxCostItems = 1
SPECIFICATION Spec
INVARIANTS
    ClosureIsWhole
    PriceIsAgreed
    OnlyAnIncreaseSkipsReception
    OnlyUntouchedOrdersGoBack
    FiguresAddUp
PROPERTIES
    PastStands
    ImplementsContract
