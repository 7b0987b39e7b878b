------------------------------ MODULE PrinterStatus -----------------------------
(******************************************************************************)
(* printer_status and readmore of apue.3e/printer/printd.c: reading the       *)
(* printer's answer to a job.  The answer is an HTTP header followed by an    *)
(* IPP header; it comes over TCP, so the reads may cut it anywhere after the  *)
(* status line, or stop short of its end.                                     *)
(*                                                                            *)
(* The answer is a sequence of the pieces the parser tells apart: "I" a whole *)
(* 1xx answer, "S" and "E" the status line of a success and of an error,      *)
(* "Content-" "Length:" "digits", "r" and "n" the line ends, "status" and     *)
(* "id" the IPP header.  Offsets count pieces from 0.                         *)
(******************************************************************************)
EXTENDS Integers, Sequences, SequencesExt

CONSTANT PsInfos     \* bound: 1xx answers before the final one

ASSUME PsAssumption == PsInfos \in Nat

Garbage == "?"                                  \* what malloc left in the buffer
PsHeader == <<"Content-", "Length:", "digits", "r", "n", "r", "n">>
PsBody == {<<"status ok", "id">>, <<"status bad", "id">>, <<"status ok", "other id">>}
PsAnswer == {<<"E">>} \union {<<"S">> \o PsHeader \o body : body \in PsBody}
PsContent == 2                                  \* the number the digits give: Len(body)

VARIABLES
  psAnswer,    \* what the printer sends in the end
  psRest,      \* what has not been read of it
  psBuf,       \* bp
  psI, psDatsz, psLen,     \* i, datsz, len
  psPc, psSuccess          \* the place in printer_status, and what it returns

psVars == <<psAnswer, psRest, psBuf, psI, psDatsz, psLen, psPc, psSuccess>>

PsInit ==
  /\ psAnswer \in PsAnswer
  /\ \E n \in 0 .. PsInfos : psRest = [k \in 1 .. n |-> "I"] \o psAnswer
  /\ psBuf = <<>> /\ psI = 0 /\ psDatsz = 0 /\ psLen = 0 /\ psPc = "tread" /\ psSuccess = FALSE

PsAt(k) == IF k < Len(psBuf) THEN psBuf[k + 1] ELSE Garbage

\* A read of n pieces into the buffer at offset off.
ReadInto(off, n) ==
  LET size == IF off + n > Len(psBuf) THEN off + n ELSE Len(psBuf)
  IN  /\ psBuf' = [k \in 1 .. size |-> IF k \in off + 1 .. off + n THEN psRest[k - off] ELSE PsAt(k - 1)]
      /\ psRest' = SubSeq(psRest, n + 1, Len(psRest))

\* readmore at offset i, and what all its callers do with the result: add it to datsz.
Readmore(n) == ReadInto(psI, n) /\ psDatsz' = psDatsz + (psI + n)

\* tread gives up or the printer has closed the connection.
ReadFails(pc) ==
  /\ psPc = pc /\ psPc' = "out"
  /\ UNCHANGED <<psAnswer, psRest, psBuf, psI, psDatsz, psLen, psSuccess>>

\* The loop's tread, and the status line.
Tread ==
  /\ psPc = "tread"
  /\ \E n \in 1 .. Len(psRest) :
       /\ ReadInto(0, n) /\ psDatsz' = n
       /\ psPc' = CASE psRest[1] = "S" -> "length"      \* success: look further
                    [] psRest[1] = "E" -> "out"
                    [] OTHER -> "tread"                 \* a 1xx answer, or bad format
       /\ psI' = 1
  /\ UNCHANGED <<psAnswer, psLen, psSuccess>>

PsAtoi(k) == IF PsAt(k) = "digits" THEN PsContent ELSE 0

\* Search for "Content-Length:".  Where the data ends in the middle of it the comparison fails.
FindLength ==
  /\ psPc = "length" /\ psI < psDatsz
  /\ IF PsAt(psI) = "Content-" /\ PsAt(psI + 1) = "Length:"
       THEN /\ psLen' = PsAtoi(psI + 2)
            /\ psI' = psI + (IF PsAt(psI + 2) = "digits" THEN 4 ELSE 3)
            /\ psBuf' = [k \in DOMAIN psBuf |-> IF k = psI' THEN "nul" ELSE psBuf[k]]
            /\ psPc' = "header"
       ELSE /\ psI' = psI + 1
            /\ UNCHANGED <<psLen, psBuf, psPc>>
  /\ UNCHANGED <<psAnswer, psRest, psDatsz, psSuccess>>

\* Get more header, where i has reached datsz.
MoreHeader ==
  /\ psPc \in {"length", "header", "found"} /\ psI >= psDatsz
  /\ \/ \E n \in 1 .. Len(psRest) : Readmore(n)
        /\ UNCHANGED <<psAnswer, psI, psLen, psPc, psSuccess>>
     \/ ReadFails(psPc)

\* Look for the end of the HTTP header, and no further than two before datsz.
FindEnd ==
  /\ psPc = "header" /\ psI < psDatsz - 2
  /\ IF PsAt(psI) = "n" /\ PsAt(psI + 1) = "r" /\ PsAt(psI + 2) = "n"
       THEN psPc' = "found" /\ psI' = psI + 3
       ELSE psI' = psI + 1 /\ UNCHANGED psPc
  /\ UNCHANGED <<psAnswer, psRest, psBuf, psDatsz, psLen, psSuccess>>

\* The body is not all there: one more read, at offset i.
MoreBody ==
  /\ psPc = "found" /\ psI < psDatsz /\ psDatsz - psI < psLen
  /\ \/ \E n \in 1 .. Len(psRest) : Readmore(n)
        /\ psPc' = "ipp"
        /\ UNCHANGED <<psAnswer, psI, psLen, psSuccess>>
     \/ ReadFails("found")

BodyThere ==
  /\ psPc = "found" /\ psI < psDatsz /\ psDatsz - psI >= psLen
  /\ psPc' = "ipp"
  /\ UNCHANGED <<psAnswer, psRest, psBuf, psI, psDatsz, psLen, psSuccess>>

PsPrinted == PsAt(psI + 1) = "id" /\ PsAt(psI) = "status ok"

\* The IPP header: the job it is about and its status.
CheckStatus ==
  /\ psPc = "ipp"
  /\ psSuccess' = PsPrinted
  /\ psPc' = "out"
  /\ UNCHANGED <<psAnswer, psRest, psBuf, psI, psDatsz, psLen>>

PsNext == Tread \/ ReadFails("tread") \/ FindLength \/ MoreHeader \/ FindEnd \/ MoreBody \/ BodyThere
          \/ CheckStatus

PsSpec == PsInit /\ [][PsNext]_psVars

--------------------------------------------------------------------------------
(* Properties                                                                 *)

\* Each variable has its type.
PsTypeOK ==
  /\ psAnswer \in PsAnswer /\ psI \in Nat /\ psDatsz \in Nat /\ psLen \in {0, PsContent}
  /\ psPc \in {"tread", "length", "header", "found", "ipp", "out"} /\ psSuccess \in BOOLEAN

\* printer_status says the job is printed only of an answer that says so of this job, however the
\* reads cut the answer: a job that was not printed stays in the queue.
PsSuccessIsReal == psSuccess => psAnswer = <<"S">> \o PsHeader \o <<"status ok", "id">>

====
