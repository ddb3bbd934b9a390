\* One technician has the completed orders and changes its modality, the other
\* one moves; two overlapping calls.
CONSTANTS
    t1 = t1
    t2 = t2
    c1 = c1
    c2 = c2
    None = None
    Technicians <- TwoTechnicians
    Places <- ThreePlaces
    Addresses <- OneAddress
    Payloads <- TheirPayloads
    Orders <- TwoOrders
    TechnicianOf <- OfTheFirst
    Ratings = {2, 5}
    Named <- TheSecond
    SomeoneNamed = TRUE
    Calls <- TwoCalls
    DepartmentCodes = {"15", "04"}
    ProvinceCodes = {"1501", "1510", "0401"}
    DistrictCodes <- ThreeDistricts
    Shipped <- ShippedPiece
    NameOf <- ShippedNames
SPECIFICATION Spec
SYMMETRY Symmetry
INVARIANTS
    ShownReviewsExist
    CatalogueStaysWhole
PROPERTIES
    EditAloneIsWhole
    ReviewsAddUp
    NobodyNearerIsPassedOver
