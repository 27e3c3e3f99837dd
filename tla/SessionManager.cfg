\* The reconciler beside one RPC at a time: two calls after the first, one fault.
CONSTANTS
    Api = {a1}
    Recon = recon
    MaxCapsule = 2
    MaxClient = 3
    MaxDevice = 3
    MaxCalls = 2
    MaxFaults = 1
SPECIFICATION FairSpec
INVARIANTS HeldIsServed LoggedOutIsUnpaired
CHECK_DEADLOCK FALSE
PROPERTIES LoopsEnd HeldConnects
