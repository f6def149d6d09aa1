\* Two clients with different speeds; queues of two and buffers of one, so that
\* five frames overflow a stalled client twice.
CONSTANTS
    Clients = {c1, c2}
    CLIENT_QUEUE = 2
    HIGH_WATER = 1
    MaxFrames = 5
SYMMETRY Symmetric
SPECIFICATION ClientSpec
INVARIANTS
    MemoryBounded
    NewestInOrder
    LossIsCounted
CHECK_DEADLOCK FALSE
