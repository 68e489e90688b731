SPECIFICATION Spec
CONSTANTS
    Clocks <- MCClocks
    Zones <- MCZones
    Formats <- MCFormats
    MaxTicks = 2
    None = None
INVARIANT TypeOK TimeKept MomentTold Fits WeeksCount
