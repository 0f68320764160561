SPECIFICATION FairSpec
CONSTANTS
    d1 = d1  d2 = d2
    r1 = r1  r2 = r2  r3 = r3
    Named = Named  Blank = Blank  Unset = Unset
    NoProvider = NoProvider  NoRow = NoRow  NoDevice = NoDevice
    Devices <- MCDevices
    Records <- MCRecords
    DeviceOf <- MCDeviceOf
    MaxAbandoned = 1
INVARIANTS TypeOK RowsLive CompleteIsUsable
PROPERTIES DiesOnlyOfSearch ChoosesDevice ButtonReturns
