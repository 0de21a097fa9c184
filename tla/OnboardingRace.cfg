SPECIFICATION Spec
CONSTANTS
    Users = {u1, u2}
    Details = {d1}
    Images = {i1, i2}
    UploadSizes = {1}
    Handlers = {h1, h2}
    Submits = {r1, r2}
    Unsteady = {u1}
    Elsewhere = {u1}
    None = None
SYMMETRY Symmetry
INVARIANTS TypeOK ReasonsCurrent
