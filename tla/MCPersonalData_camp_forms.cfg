SPECIFICATION Spec
CONSTANTS
    None = None
    parent = parent
    child = child
    trainer = trainer
    camper = camper
    n1 = n1
    n2 = n2
    r1 = r1
    r2 = r2
    Accounts = {camper, trainer}
    Rows = {"camperUser", "camperSelf"}
    Kind <- CampKind
    Owner <- CampOwner
    Login <- CampLogin
    Roster <- CampRoster
    Assets = {n1, n2}
    Forms = {"form"}
    Addressee <- CampAddressee
    Requests = {r1, r2}
    Endpoints = {"edit", "adminEdit", "skill", "picture", "remove", "submit", "convert", "send", "erase"}
SYMMETRY MCSymmetry
INVARIANT ErasedIsBlank
