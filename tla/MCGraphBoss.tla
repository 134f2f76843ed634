---------------------------- MODULE MCGraphBoss ----------------------------
(***************************************************************************)
(* Two sections that run at once, with a DSP (core 1, remote) and a CPU    *)
(* (core 2).  "both" is implemented by the two, "cpu" only by the CPU and  *)
(* "dsp" only by the DSP.                                                  *)
(***************************************************************************)
EXTENDS GraphBoss, TLC

CONSTANTS boss, s1, s2

MCCallers == {boss, s1, s2}

dsp(p) == [core |-> 1, priority |-> p, kernels |-> {"both", "dsp"},
           loads |-> [k \in {"both", "dsp", "cpu"} |-> 2]]
cpu(p) == [core |-> 2, priority |-> p, kernels |-> {"both", "cpu"},
           loads |-> [k \in {"both", "dsp", "cpu"} |-> 1]]

\* The priorities of an OMAP, two managers of equal priority (as user supplied
\* ones have), and a DSP that is only used by affinity.
MCTables == {<<cpu(3), dsp(1)>>, <<dsp(1), cpu(1)>>, <<cpu(3), dsp(0)>>}

\* s1 wants "both" on the DSP; s2 wants there what only the CPU implements, and
\* its "dsp" is out of sight in the last two tables.
MCNodes ==
    (s1 :> <<[kernel |-> "both", affinity |-> 1], [kernel |-> "cpu", affinity |-> 0]>>)
    @@ (s2 :> <<[kernel |-> "cpu", affinity |-> 1], [kernel |-> "dsp", affinity |-> 0]>>)
=============================================================================
