SPECIFICATION Spec
CONSTANTS
  RxStop = 15
  Header = 4
  Lengths = {1, 2, 4}
  MaxBad = 1
  Sending = FALSE
PROPERTIES FrameArrivesWhole
