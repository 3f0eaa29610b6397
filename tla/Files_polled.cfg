SPECIFICATION Spec
CONSTANTS
  Formats = {"pcap", "pcapng", "snoop"}
  CapLens = {0, 5}
  Times = {22, 39}
  TicksPerUnit = 4
  UnitsPerSec = 10
  Word = 8
  Cuts = {0, 7, 16, 18, 27, 30}
  MaxPackets = 2
  MaxCount = 2
INVARIANTS TypeOK PacketsInOrder OnlyLastShort EndMeansAllGiven TimesSurvive
PROPERTIES EventuallyGiven
