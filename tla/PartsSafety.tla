------------------------------ MODULE PartsSafety ------------------------------
(******************************************************************************)
(* Programs and libraries of the repository that have nothing to do with each *)
(* other, checked in one run: the initial state says which of them runs.      *)
(* Here are those that pass messages and share semaphores, with one process   *)
(* more for SemMmap than in PartsProgress, and the sequential ones.           *)
(******************************************************************************)
EXTENDS SemMmap, MsgQueue, SemSysv, Semaph, PrinterStatus, Rio, Malloc, Calendar, Dates, TLC

VARIABLE part   \* the part that runs: never changes

Parts == {"sem", "mqueue", "semsysv", "semaph", "status", "rio", "malloc", "calendar", "dates"}

\* The parts that do not run keep one of their initial states.
PartsInit ==
  /\ part \in Parts
  /\ SmInit
  /\ MqInit
  /\ SvInit
  /\ SpInit
  /\ PsInit
  /\ part # "status" => psAnswer = (CHOOSE a \in PsAnswer : TRUE) /\ psRest = psAnswer
  /\ RiInit
  /\ part # "rio" => riStream = <<>>
  /\ MmInit
  /\ part # "malloc" => ~mmNextFit
  /\ CaInit
  /\ part # "calendar" => caDate = [y |-> 2000, m |-> 2, d |-> 29]
  /\ DaInit
  /\ part # "dates" => daKind = "julian" /\ daDate = [y |-> 1858, m |-> 1, d |-> 1]

PartsNext ==
  \/ /\ part = "sem" /\ SmNext
     /\ UNCHANGED <<part, mqVars, svVars, spVars, psVars, riVars, mmVars, caVars, daVars>>
  \/ /\ part = "mqueue" /\ MqNext
     /\ UNCHANGED <<part, smVars, svVars, spVars, psVars, riVars, mmVars, caVars, daVars>>
  \/ /\ part = "semsysv" /\ SvNext
     /\ UNCHANGED <<part, smVars, mqVars, spVars, psVars, riVars, mmVars, caVars, daVars>>
  \/ /\ part = "semaph" /\ SpNext
     /\ UNCHANGED <<part, smVars, mqVars, svVars, psVars, riVars, mmVars, caVars, daVars>>
  \/ /\ part = "status" /\ PsNext
     /\ UNCHANGED <<part, smVars, mqVars, svVars, spVars, riVars, mmVars, caVars, daVars>>
  \/ /\ part = "rio" /\ RiNext
     /\ UNCHANGED <<part, smVars, mqVars, svVars, spVars, psVars, mmVars, caVars, daVars>>
  \/ /\ part = "malloc" /\ MmNext
     /\ UNCHANGED <<part, smVars, mqVars, svVars, spVars, psVars, riVars, caVars, daVars>>
  \/ /\ part = "calendar" /\ CaNext
     /\ UNCHANGED <<part, smVars, mqVars, svVars, spVars, psVars, riVars, mmVars, daVars>>
  \/ /\ part = "dates" /\ DaNext
     /\ UNCHANGED <<part, smVars, mqVars, svVars, spVars, psVars, riVars, mmVars, caVars>>

partsVars == <<part, smVars, mqVars, svVars, spVars, psVars, riVars, mmVars, caVars, daVars>>

PartsSpec == PartsInit /\ [][PartsNext]_partsVars

\* Dates reached by the operations of their classes stay valid, and the formulas for them agree with
\* counting days: DaSafe, looked at where the dates are what runs.
DatesSafe == part = "dates" => DaSafe

\* The heap is tiled and coalesced and keeps what is stored in it: MmSafe, looked at where the
\* allocator is what runs.
MallocSafe == part = "malloc" => MmSafe

\* A calendar keeps its events in order and each once: CaSafe, looked at where it is what runs.
CalendarSafe == part = "calendar" => CaSafe

\* The years about the epoch and about centuries with and without a leap day.
MCYears == (1858 .. 1860) \union (1899 .. 1901) \union (1999 .. 2001) \union {2100, 2101}
MCDays == {1, -1, 30, -365}
MCMonths == {1, -1, 13, -4}

\* Two processes of a part are interchangeable: the parts share the names.
PartsSymmetry == Permutations(SvProc)

================================================================================
