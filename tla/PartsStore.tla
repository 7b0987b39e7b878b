------------------------------ MODULE PartsStore -------------------------------
(******************************************************************************)
(* Programs and libraries of the repository that have nothing to do with each *)
(* other, checked in one run: the initial state says which of them runs.      *)
(* Here are those that keep two structures in step: the addresses of a host   *)
(* and their guards, the files of the database, the directory cache and the   *)
(* tree (a larger instance than that of PartsProgress), the caches and jars   *)
(* of class loaders, the bytes of a FIFO and the value of its semaphore.      *)
(******************************************************************************)
EXTENDS VipManager, Db, Dtree, JarClassLoader, SemFifo, TLC

CONSTANTS l1, l2, A, C   \* class loaders and classes

VARIABLE part   \* the part that runs: never changes

Parts == {"vip", "db", "dtree", "jcl", "semfifo"}

\* The parts that do not run keep one of their initial states.
PartsInit ==
  /\ part \in Parts
  /\ Init
  /\ DbInit
  /\ DtInit
  /\ JcInit
  /\ part # "jcl" => jcContext = App
  /\ FfInit

PartsNext ==
  \/ /\ part = "vip" /\ Next
     /\ UNCHANGED <<part, dbVars, dtVars, jcVars, ffVars>>
  \/ /\ part = "db" /\ DbNext
     /\ UNCHANGED <<part, vars, dtVars, jcVars, ffVars>>
  \/ /\ part = "dtree" /\ DtNext
     /\ UNCHANGED <<part, vars, dbVars, jcVars, ffVars>>
  \/ /\ part = "jcl" /\ JcNext
     /\ UNCHANGED <<part, vars, dbVars, dtVars, ffVars>>
  \/ /\ part = "semfifo" /\ FfNext
     /\ UNCHANGED <<part, vars, dbVars, dtVars, jcVars>>

partsVars == <<part, vars, dbVars, dtVars, jcVars, ffVars>>

PartsSpec == PartsInit /\ [][PartsNext]_partsVars

\* Keys and data of the database: strings of characters.  32 is the blank; the hash puts both
\* keys on one chain.
MCKey == {<<2>>, <<32, 1>>}
MCData == {<<1>>, <<1, 1>>}

\* Two class loaders that know each other; A, in the jar of the first, extends C, in that of the other.
MCSuper == A :> C @@ C :> NoClass
MCPackage == A :> 1 @@ C :> 2
MCJar == l1 :> {A} @@ l2 :> {C}
MCCall == {<<l1, A>>, <<l2, C>>}

\* Two processes of the database, two directories, or two threads that load, are
\* interchangeable: the parts share the names.
PartsSymmetry == Permutations(DbProc)

================================================================================
