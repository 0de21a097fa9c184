SPECIFICATION Spec
CONSTANTS
    Users = {u1, u2}
    Details = {d1, d2}
    Images = {i1, i2, i3, i4}
    UploadSizes = {1, 2}
    Handlers = {h1}
    Submits = {r1, r2}
    Unsteady = {}
    Elsewhere = {u1}
    None = None
SYMMETRY Symmetry
INVARIANTS ApprovedWithDocuments UploadsKept NoDeadEnd
PROPERTIES ApprovedFixed
