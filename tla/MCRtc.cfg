\* Two terminals, each with a process that opens, writes, reads and closes the RTC.
CONSTANTS
  NumTerminals = 2
  BootRate = 6
  Freqs = {2, 1000, 1024, 8192, 32768}
  CounterCap = 2
SPECIFICATION Spec
INVARIANTS
  TypeOK
PROPERTIES
  RtcReadFresh
  RtcReadReturns
  RtcInterruptServiced
