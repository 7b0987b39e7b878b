----------------------------- MODULE PartsDaemons ------------------------------
(******************************************************************************)
(* The two daemons whose promises outlive them, checked in one run: the       *)
(* initial state says which of them runs.  The guard scripts of the virtual   *)
(* addresses act after the JVM has died; the print spooler queues again what  *)
(* it finds on start.  Fairness is that of each daemon, when it is the one    *)
(* that runs.                                                                 *)
(******************************************************************************)
EXTENDS VipManager, Printd

VARIABLE part   \* the part that runs: never changes

Parts == {"vip", "printd"}

\* The parts that do not run keep one of their initial states.
PartsInit ==
  /\ part \in Parts
  /\ Init
  /\ PrInit

PartsNext ==
  \/ /\ part = "vip" /\ Next
     /\ UNCHANGED <<part, prVars>>
  \/ /\ part = "printd" /\ PrNext
     /\ UNCHANGED <<part, vars>>

partsVars == <<part, vars, prVars>>

\* Each daemon's own fairness, for the one that runs.
PartsFairness ==
  /\ \A c \in Caller : WF_vars(part = "vip" /\ CallerStep(c))
  /\ \A t \in Task : WF_vars(part = "vip" /\ launch(t)) /\ WF_vars(part = "vip" /\ do_at_exit(t))
  /\ \A c \in PrClient :
       /\ WF_prVars(part = "printd" /\ PrConnect(c)) /\ WF_prVars(part = "printd" /\ SubmitFile(c))
       /\ WF_prVars(part = "printd" /\ PrThread(c))
  /\ WF_prVars(part = "printd" /\ PrinterThread) /\ WF_prVars(part = "printd" /\ PrMain)

PartsSpec == PartsInit /\ [][PartsNext]_partsVars /\ PartsFairness
================================================================================
