CONSTANTS
  Byte <- Bits
  Psk = {k1}
  NoPsk = none
  SALT_LEN = 2
  KEY_LEN = 2
  Xor <- XorBits
  Key <- MCKey
  Packet <- Packets
  Stray <- Strays
  MTUD_UPPER_BOUND = 6
  PathMtu = 5
  Batch = 2
  MaxSent = 2
  MaxArrivals = 3
SPECIFICATION FairSpec
CHECK_DEADLOCK FALSE
INVARIANTS
  DatagramsIntact
  CountersMeanFailure
PROPERTY
  ReceiverServes
