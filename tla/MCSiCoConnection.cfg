CONSTANTS
    MaxConnects = 2
    MaxMessages = 2
    Channels <- ChannelNames
    MaxSims = 2
    MaxToSim = 2
    MaxToPy = 2
    None = None
SPECIFICATION BothSpec
INVARIANTS InOrder ChannelsInOrder
PROPERTIES MessagesArrive PyMessagesArrive Reconnects
CHECK_DEADLOCK FALSE
