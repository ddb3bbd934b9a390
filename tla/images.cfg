\* Four uploads, with two faults, an award and a deletion of the request.
CONSTANTS
    u1 = u1
    u2 = u2
    u3 = u3
    u4 = u4
    Uploads <- FourUploads
    MaxImages = 2
    MaxFaults = 2
SPECIFICATION ImagesSpec
SYMMETRY Symmetry
INVARIANTS
    ImagesHaveTheirObjects
    SerialUploadsAreLimited
\* Every upload has ended: nothing is left to do.
CHECK_DEADLOCK FALSE
