SPECIFICATION FairSpec
CONSTANTS
  BufSize = 2
  PacketSize = 2
  MaxIn = 4
  MaxOut = 2
INVARIANTS TypeOK OneRead OneWrite OutIntact
PROPERTIES StreamSpec InputRead OutputSent
