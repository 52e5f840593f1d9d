\* Three entries, two devices: a device is listed again behind another one.
CONSTANTS
    Devices = {video0, video1}
    NoDevice = NoDevice
    Inputs = {0, 1}
    MaxEntries = 3
SPECIFICATION Spec
INVARIANTS
    OneDescriptorPerDevice
    DescriptorsAccounted
CHECK_DEADLOCK FALSE
