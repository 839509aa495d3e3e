\* Two kinds of lines, three of them typed, up to two chats, two messages.
SPECIFICATION FairSpec
CONSTANTS
    ByteBase = 4
    Lines = {"hi", "/help"}
    ErrorPacket <- MCErrorPacket
    ChatEvents <- MCChatEvents
    ChunkSizes = {2, 5, 8, 10}
    MaxLines = 3
    MaxChats = 2
    MaxMessages = 2
INVARIANTS
    TypeOK
    LoggedIsWhatWasSent
    HandledIsWhatWasTyped
PROPERTIES
    EverythingArrives
CHECK_DEADLOCK FALSE
