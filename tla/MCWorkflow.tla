----------------------------- MODULE MCWorkflow -----------------------------
(***************************************************************************)
(* Small instances of Workflow: the three pools of docker-compose.yml with *)
(* one process each, and two documents contending for two processes.       *)
(***************************************************************************)
EXTENDS WorkflowInv

MCSlots == {"wo", "wc", "wa"}

MCConsumes == [wo |-> {"ocr", "default"},
               wc |-> {"compliance", "default"},
               wa |-> {"anomaly", "default"}]

\* Fewer processes than runnable tasks, so that documents wait for each other.
TwoSlots == {"wo", "wx"}

TwoConsumes == [wo |-> {"ocr", "default"},
                wx |-> {"compliance", "anomaly", "default"}]

\* Two documents: one that may make its tasks fail, through the full pipeline,
\* and one that does not, with any two agents in either mode.
MCTwoInit ==
  /\ Init
  /\ \E r \in Requests :
       /\ request[r] = [agents |-> AgentName, pipeline |-> TRUE, faulty |-> TRUE]
       /\ \A o \in Requests \ {r} :
            Cardinality(request[o].agents) = 2 /\ ~request[o].faulty

MCTwoSpec == MCTwoInit /\ [][Next]_vars /\ Fairness
=============================================================================
