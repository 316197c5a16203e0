\* Two files sent one after the other or at once, by one device or by two.
SPECIFICATION Spec
CONSTANTS
    d1 = d1
    d2 = d2
    d3 = d3
    Device = {d1, d2, d3}
    Routes <- TwoSenders
    MaxSends = 2
    MaxFaults = 1
SYMMETRY SenderSymmetry
INVARIANTS TypeOK AnswersOwnOffer OpenIsHeard NoStuckSend
CHECK_DEADLOCK FALSE
