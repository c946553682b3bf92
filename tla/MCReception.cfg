SPECIFICATION Spec
CONSTANTS
  Lengths <- MCLengths
  FCtrls = {0, 160, 1, 67, 8, 31}
  Ports = {0, 1}
  Frames <- MCFrames
  DataRates = {"Sf7bw125", "Sf11bw125"}
  Routers <- MCRouters
  DefaultRouters = {"r4"}
  NetIDs <- MCNetIDs
  SubnetAddrs <- MCSubnetAddrs
  None = None
INVARIANTS
  FieldsInPlace
  OptionsWithinFrame
  OwnersHear
  SubnetComesBack
  SubnetStable
  ControlFramesRoundTrip
CHECK_DEADLOCK FALSE
