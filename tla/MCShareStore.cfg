CONSTANTS
    Share = {1, 2}
    Capacity = 2
    ChainLength = 2
    Files = 3
SPECIFICATION Spec
INVARIANTS Durable OnceOnDisk KeptForTracker
