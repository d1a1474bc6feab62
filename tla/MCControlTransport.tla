------------------------ MODULE MCControlTransport ------------------------
(* ControlTransport for TLC: two ranks, the first one the host, that may    *)
(* disagree on the second phase and report an error in the last.            *)
EXTENDS ControlTransport, TLC
CONSTANTS r0, r1, READY, START, ok, error
MCRanks == {r0, r1}
MCCalls ==
    [r \in Ranks |-> [s \in 0..MaxSeq |->
        {b \in Bodies : /\ b.phase = START => s = 1 /\ r = r1
                        /\ b.payload = error => s = 2 /\ r = r0}]]
=============================================================================
