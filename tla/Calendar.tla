------------------------------- MODULE Calendar --------------------------------
(******************************************************************************)
(* Calendar<C> of cpp-code/date/includes/calendar.h: a current date and a     *)
(* list of events.  Dates are compared by their modified Julian day, as       *)
(* Date's operators do; the dates of calls may be invalid.                    *)
(******************************************************************************)
EXTENDS Dates, Sequences, SequencesExt

CONSTANTS
  CaC,          \* the parameter of the template
  CaYear, CaMonth, CaDay,     \* arguments of the calls
  CaStr,        \* texts of events
  CaEvents      \* bound: events in the list

ASSUME CaAssumption == CaC \in DaKind /\ CaEvents \in Nat

VARIABLES
  caDate,       \* current_date
  caEvents,     \* events
  caSet,        \* ghost: the events whose addition, and not whose removal, came last
  caReturned    \* what the last call returned

caVars == <<caDate, caEvents, caSet, caReturned>>

CaMjd(x) == mod_julian_day(CaC, x)

\* Event::operator==, and the tests of the loops.
Same(e, f) == CaMjd(e.date) = CaMjd(f.date) /\ e.str = f.str

\* mutant: the new event goes before others of its day
LaterOrSame(e, f) == CaMjd(e.date) >= CaMjd(f.date)
Later(e, f) == CaMjd(e.date) > CaMjd(f.date)

\* The date a call speaks of: what it leaves out is taken from the current date.
CaArgs ==
  {[y |-> caDate.y, m |-> caDate.m, d |-> d] : d \in CaDay}
    \union {[y |-> caDate.y, m |-> m, d |-> d] : m \in CaMonth, d \in CaDay}
    \union {[y |-> y, m |-> m, d |-> d] : y \in CaYear, m \in CaMonth, d \in CaDay}

\* Any date: Gregorian() and Julian() take today's.
CaInit ==
  /\ caDate \in {x \in [y : CaYear, m : CaMonth, d : CaDay] : is_valid_date(CaC, x)}
  /\ caEvents = <<>> /\ caSet = {} /\ caReturned = TRUE

\* An invalid date: the constructor throws, and the call returns false.
Refused ==
  /\ \E x \in CaArgs : ~is_valid_date(CaC, x)
  /\ caReturned' = FALSE
  /\ UNCHANGED <<caDate, caEvents, caSet>>

set_date(x) ==
  /\ is_valid_date(CaC, x)
  /\ caDate' = x /\ caReturned' = TRUE
  /\ UNCHANGED <<caEvents, caSet>>

\* The loop stops at the first event that is the same or later.
add_event(e) ==
  LET stops == {i \in DOMAIN caEvents : Same(caEvents[i], e) \/ Later(caEvents[i], e)}
      first == IF stops = {} THEN Len(caEvents) + 1 ELSE CHOOSE i \in stops : \A j \in stops : i <= j
      known == first <= Len(caEvents) /\ Same(caEvents[first], e)
  IN  /\ is_valid_date(CaC, e.date)
      /\ known \/ Len(caEvents) < CaEvents
      /\ caEvents' = IF known THEN caEvents ELSE InsertAt(caEvents, first, e)
      /\ caReturned' = ~known
      /\ caSet' = caSet \union {e}
      /\ UNCHANGED caDate

\* The first event that is the same is looked for, and list::remove takes all that are.
remove_event(e) ==
  /\ is_valid_date(CaC, e.date)
  /\ caEvents' = SelectSeq(caEvents, LAMBDA f : ~Same(f, e))
  /\ caReturned' = (\E i \in DOMAIN caEvents : Same(caEvents[i], e))
  /\ caSet' = caSet \ {e}
  /\ UNCHANGED caDate

CaNext ==
  \/ Refused
  \/ \E x \in CaArgs : set_date(x)
  \/ \E x \in CaArgs, s \in CaStr : add_event([date |-> x, str |-> s]) \/ remove_event([date |-> x, str |-> s])

CaSpec == CaInit /\ [][CaNext]_caVars

\* date_events, and the printed calendar: the events after the current date.
date_events == SelectSeq(caEvents, LAMBDA e : CaMjd(e.date) > CaMjd(caDate))

--------------------------------------------------------------------------------
(* Properties                                                                 *)

\* Each variable has its type.
CaTypeOK ==
  /\ is_valid_date(CaC, caDate) /\ caReturned \in BOOLEAN
  /\ \A i \in DOMAIN caEvents : is_valid_date(CaC, caEvents[i].date) /\ caEvents[i].str \in CaStr

\* The list is the set of events that were added and not removed, each once: the search of add_event,
\* which stops at the first later event, overlooks none.
CaIsSet == IsInjective(caEvents) /\ ToSet(caEvents) = caSet

\* The list is in the order of the dates, and so is what is printed: a tail of it.
CaSorted ==
  /\ \A i, j \in DOMAIN caEvents : i < j => CaMjd(caEvents[i].date) <= CaMjd(caEvents[j].date)
  /\ IsSuffix(date_events, caEvents)

\* The calendar keeps its events, in order and each once.
CaSafe == CaTypeOK /\ CaIsSet /\ CaSorted
================================================================================
