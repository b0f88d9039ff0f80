SPECIFICATION StreamSpec
CONSTANTS
    crc16 <- Crc16Modbus
    max_frame_len_ = 7
    Streams <- MCStreams
    Chunks <- MCChunks
INVARIANT PublishesWholeFrames
