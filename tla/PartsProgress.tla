----------------------------- MODULE PartsProgress -----------------------------
(******************************************************************************)
(* Programs and libraries of the repository that have nothing to do with each *)
(* other, checked in one run: the initial state says which of them runs.      *)
(* Here are those with liveness properties; fairness is that of each part,    *)
(* and asks nothing of the parts that do not run.                             *)
(******************************************************************************)
EXTENDS RwLock, SemMmap, WebGet, Prefork, Rtt, DgEcho, StrCli, Dtree

VARIABLE part   \* the part that runs: never changes

Parts == {"rwlock", "sem", "web", "prefork", "rtt", "echo", "strcli", "dtree"}

\* The parts that do not run keep one of their initial states.
PartsInit ==
  /\ part \in Parts
  /\ RwInit
  /\ part # "rwlock" => cleanup
  /\ SmInit
  /\ WgInit
  /\ PfInit
  /\ RtInit
  /\ DgInit
  /\ NbInit
  /\ DtInit

PartsNext ==
  \/ /\ part = "rwlock" /\ RwNext
     /\ UNCHANGED <<part, smVars, wgVars, pfVars, rtVars, dgVars, nbVars, dtVars>>
  \/ /\ part = "sem" /\ SmNext
     /\ UNCHANGED <<part, rwVars, wgVars, pfVars, rtVars, dgVars, nbVars, dtVars>>
  \/ /\ part = "web" /\ WgNext
     /\ UNCHANGED <<part, rwVars, smVars, pfVars, rtVars, dgVars, nbVars, dtVars>>
  \/ /\ part = "prefork" /\ PfNext
     /\ UNCHANGED <<part, rwVars, smVars, wgVars, rtVars, dgVars, nbVars, dtVars>>
  \/ /\ part = "rtt" /\ RtNext
     /\ UNCHANGED <<part, rwVars, smVars, wgVars, pfVars, dgVars, nbVars, dtVars>>
  \/ /\ part = "echo" /\ DgNext
     /\ UNCHANGED <<part, rwVars, smVars, wgVars, pfVars, rtVars, nbVars, dtVars>>
  \/ /\ part = "strcli" /\ NbNext
     /\ UNCHANGED <<part, rwVars, smVars, wgVars, pfVars, rtVars, dgVars, dtVars>>
  \/ /\ part = "dtree" /\ DtNext
     /\ UNCHANGED <<part, rwVars, smVars, wgVars, pfVars, rtVars, dgVars, nbVars>>

partsVars == <<part, rwVars, smVars, wgVars, pfVars, rtVars, dgVars, nbVars, dtVars>>

\* Each part's own fairness, for the part that runs.
PartsFairness ==
  /\ WF_rwVars(part = "rwlock" /\ Destroy)
  /\ \A t \in RwThread : WF_rwVars(part = "rwlock" /\ RwThreadStep(t))
  /\ \A p \in SmProc : WF_smVars(part = "sem" /\ SmOpenStep(p))
  /\ WF_pfVars(part = "prefork" /\ PfParent)
  /\ \A c \in Child : WF_pfVars(part = "prefork" /\ (PfReadFd(c) \/ PfServe(c)))
  /\ WF_rtVars(part = "rtt" /\ RtClient) /\ WF_rtVars(part = "rtt" /\ SigAlrm)
  /\ WF_dgVars(part = "echo" /\ DgStep)
  /\ WF_dtVars(part = "dtree" /\ DtStep)

PartsSpec == PartsInit /\ [][PartsNext]_partsVars /\ PartsFairness
================================================================================
