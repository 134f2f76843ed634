\* Two messages fit; a third has to wait.  Two readers race for the data.
CONSTANTS
    QueueDepth = 2
    Readers = {r1, r2}
    Writers = {w1}
    MaxMsgs = 3
SPECIFICATION Spec
INVARIANTS TypeOK EventsTrackRing TransferredUnlessDisabled
PROPERTIES NoLostWakeup
