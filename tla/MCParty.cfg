SPECIFICATION Spec
CONSTANTS
    Players = {p1, p2, p3, gm}
    Parties = {A, B}
    NoPlayer = NoPlayer
    NoParty = NoParty
    NotGainInFight = {gm}
SYMMETRY PartySymmetry
INVARIANTS MembershipAgrees InvitationsAgree SharingNeedsEverybody
CHECK_DEADLOCK FALSE
