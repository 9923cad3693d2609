-------------------------- MODULE MCPolicyWorkflow --------------------------
(* PolicyWorkflow on small instances: see the .cfg files of the same prefix. *)
EXTENDS PolicyWorkflow

\* The workflow up to a save that another administrator's meets, who then takes his
\* back.
Saving == [handoffs |-> 0, faults |-> 0, workflows |-> 1, requests |-> 4, foreign |-> 2, now |-> 0,
           others |-> {"race"}]

\* Another administrator saves while the draft is made.
Drafting == [handoffs |-> 0, faults |-> 0, workflows |-> 1, requests |-> 3, foreign |-> 2, now |-> 0,
             others |-> {"policy"}]

\* A draft that another program writes.
Rewriting == [handoffs |-> 0, faults |-> 0, workflows |-> 1, requests |-> 3, foreign |-> 1, now |-> 0,
              others |-> {"draft"}]

\* Children that meet the editor, and a terminal that fails.
Children == [handoffs |-> 1, faults |-> 1, workflows |-> 1, requests |-> 1, foreign |-> 0, now |-> 0,
             others |-> {}]

\* Two workflows, so that answers of the first meet the second.
Reopening == [handoffs |-> 0, faults |-> 0, workflows |-> 2, requests |-> 3, foreign |-> 0, now |-> 0,
              others |-> {}]

\* A review that grows old before it is applied.
Ageing == [handoffs |-> 0, faults |-> 0, workflows |-> 1, requests |-> 3, foreign |-> 0, now |-> 1,
           others |-> {}]

Scenarios == {Saving, Drafting, Rewriting, Children, Reopening, Ageing}
=============================================================================
