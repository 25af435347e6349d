----------------------------- MODULE MCFxObjects -----------------------------
EXTENDS FxObjects
CONSTANTS rd, wr, barr, pool, evf, ev, f1, f2
MCWaitQueue == {rd, wr, barr, pool, evf, ev}
                 \cup {Completion(t) : t \in Thread}
                 \cup {TimerEvent(t) : t \in Thread}
MCRequest == {[flags |-> {f1, f2}, all |-> TRUE, clear |-> FALSE],
              [flags |-> {f1}, all |-> FALSE, clear |-> TRUE],
              [flags |-> {f1, f2}, all |-> FALSE, clear |-> TRUE]}
Symmetry == Permutations(Thread)
=============================================================================
