SPECIFICATION WaitingSpec
CONSTANTS
    Clients = {c1, c2, c3, c4, gm}
    Privileged = {gm}
    MaxPlayers = 2
    Width = 16
    MaxSkew = 2
SYMMETRY ClientSymmetry
INVARIANTS RefusedMayComeBack
PROPERTY RoomForThoseBefore
CHECK_DEADLOCK FALSE
