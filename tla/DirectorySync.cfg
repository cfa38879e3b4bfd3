SPECIFICATION Spec
CONSTANTS
    r1 = r1
    r2 = r2
    r3 = r3
    owner = owner
    member = member
    A = A
    B = B
    eOwner = eOwner
    eMember = eMember
    eNew = eNew
    dCorp = dCorp
    dOther = dOther
    None = None
    Req = {r1, r2, r3}
    Seeds = {owner, member}
    Emails = {eOwner, eMember, eNew}
    Tenants = {A, B}
    DirTenant = A
    BatchSize = 2
    Work = 3
    SeedRow <- MCSeedRow
    DomainOf <- MCDomainOf
    RowIds <- MCRowIds
SYMMETRY Symmetry
INVARIANTS
    TypeOK
    SessionsEndTogether
    OneSessionPerLogin
    OwnersStay
    NoOtherLockOut
    DirectoryMirrored
    NothingBeyondDirectory
CHECK_DEADLOCK FALSE
