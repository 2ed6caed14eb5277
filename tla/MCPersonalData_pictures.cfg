SPECIFICATION Spec
CONSTANTS
    None = None
    parent = parent
    child = child
    trainer = trainer
    camper = camper
    n1 = n1
    n2 = n2
    r1 = r1
    r2 = r2
    Accounts = {parent, child, trainer}
    Rows = {"parentUser", "childUser", "childProfile", "org"}
    Kind <- PictureKind
    Owner <- PictureOwner
    Login <- PictureLogin
    Roster <- PictureRoster
    Assets = {n1, n2}
    Forms = {}
    Addressee <- NoForms
    Requests = {r1, r2}
    Endpoints = {"edit", "adminEdit", "createLogin", "color", "picture", "remove", "erase"}
SYMMETRY MCSymmetry
INVARIANT IInv
INVARIANT PhotosAreStored
