\* Two deletions, one after the other.
\* The customer and the technician may be gone in the end.
CONSTANT Repeats = 2
SPECIFICATION DeletionSpec
PROPERTY DeletionsStayApart
CHECK_DEADLOCK FALSE
