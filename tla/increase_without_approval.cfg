\* Two reductions, then a close at the first of the two prices.
CONSTANTS
    Amounts <- WideAmounts
    Stored <- WideStored
    QuotedPrice <- WideQuotedPrice
    ChangeIds = {c1, c2}
    CancelCalls = {}
    QuotationCalls = {}
    MaxCostItems = 0
SPECIFICATION Spec
PROPERTY IncreaseNeedsApproval
