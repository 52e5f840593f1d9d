\* Two names and three sections: a node, something else at the same name, and a
\* buffer upload that names it; sections before and after one that fails.
CONSTANTS
    Mountpoints = {m1, m2}
    NoMp = NoMp
    MaxSections = 3
SYMMETRY MountpointSymmetry
SPECIFICATION Spec
INVARIANTS
    HandlersLive
    FirstMountOwnsPath
    BufferNodeOpen
    GoodSectionsServed
    AllReleased
CHECK_DEADLOCK FALSE
