---------------------------- MODULE MCTranscript -----------------------------
(* Instances of Transcript for TLC.                                          *)
EXTENDS Transcript

Each(i, e, l) ==
    [r \in Readers |-> CASE r = "interface" -> i [] r = "exporter" -> e [] r = "log" -> l]

MCOutputs   == Each({"text"}, {}, {"text", "reasoning", "event"})
MCMaxUnits  == Each(2, 0, 4)
MCMaxOther  == Each(1, 5, 1)
MCReasoning == Each({"reasoning"}, {}, {})
MCNoFaults  == Each(0, 0, 0)
MCMaxFaults == Each(2, 2, 1)
=============================================================================
