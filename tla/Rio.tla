----------------------------------- MODULE Rio ----------------------------------
(******************************************************************************)
(* The robust I/O package of c-proxy/my/csapp.c, as the proxy's client()      *)
(* forwards a response with it: rio_readlineb and rio_readnb take bytes from  *)
(* a buffer that rio_read refills, and rio_writen writes what they return.    *)
(* External: read and write, which move any number of bytes they can, or end  *)
(* with EINTR (try again) or another error, after which client() closes.      *)
(* A byte is "c", "nl" (newline) or "nul".                                    *)
(******************************************************************************)
EXTENDS Integers, Sequences, SequencesExt

CONSTANTS
  RiLength,     \* bound: bytes of the response
  RIO_BUFSIZE,  \* size of the internal buffer
  RiMaxlen      \* the lengths the caller asks for

ASSUME RiAssumption ==
  RiLength \in Nat /\ RIO_BUFSIZE \in Nat \ {0} /\ RiMaxlen \subseteq Nat \ {0, 1}

VARIABLES
  riStream,     \* the response: never changes
  riFile,       \* what has not been read of it
  riBuf,        \* the rio_cnt unread bytes of the internal buffer
  riCall,       \* the call in progress: [f |-> "none" | "line" | "n" | "write" | "closed", max]
  riN,          \* rio_readlineb's n; for rio_writen the bytes that are left
  usrbuf,       \* the caller's buffer: what the call has put there
  riTaken,      \* what all calls have put there
  riOut         \* what has been written

riVars == <<riStream, riFile, riBuf, riCall, riN, usrbuf, riTaken, riOut>>

NoCall == [f |-> "none", max |-> 0]
Closed == [f |-> "closed", max |-> 0]

RiInit ==
  /\ riStream \in UNION {[1 .. n -> {"c", "nl"}] : n \in 0 .. RiLength}
  /\ riFile = riStream /\ riBuf = <<>> /\ riCall = NoCall /\ riN = 0
  /\ usrbuf = <<>> /\ riTaken = <<>> /\ riOut = <<>>

Reading == riCall.f \in {"line", "n"}

\* The caller, or client(), asks for a line or for a number of bytes.
RioRequest ==
  /\ riCall = NoCall
  /\ \E f \in {"line", "n"}, max \in RiMaxlen : riCall' = [f |-> f, max |-> max]
  /\ riN' = 1 /\ usrbuf' = <<>>
  /\ UNCHANGED <<riStream, riFile, riBuf, riTaken, riOut>>

RioFits(k) == k <= RIO_BUFSIZE

\* rio_read with an empty buffer: refill it.
RioRefill ==
  /\ Reading /\ riBuf = <<>> /\ riFile # <<>>
  /\ \E k \in 1 .. Len(riFile) :
       /\ RioFits(k)
       /\ riBuf' = SubSeq(riFile, 1, k) /\ riFile' = SubSeq(riFile, k + 1, Len(riFile))
  /\ UNCHANGED <<riStream, riCall, riN, usrbuf, riTaken, riOut>>

\* The call returns n: client() writes n bytes next, and it ends when there are none.
Returns(n) ==
  IF n = 0 THEN riCall' = Closed /\ riN' = 0 ELSE riCall' = [f |-> "write", max |-> n] /\ riN' = n

EndsLine(b) == b = "nl"

\* rio_readlineb copies one byte: a newline ends the line, and so does the end of the caller's buffer.
ReadlineByte ==
  /\ riCall.f = "line" /\ riBuf # <<>>
  /\ usrbuf' = Append(usrbuf, Head(riBuf)) /\ riTaken' = Append(riTaken, Head(riBuf)) /\ riBuf' = Tail(riBuf)
  /\ \/ EndsLine(Head(riBuf)) /\ Returns(riN)
     \/ ~EndsLine(Head(riBuf)) /\ riN + 1 < riCall.max /\ riN' = riN + 1 /\ UNCHANGED riCall
     \/ ~EndsLine(Head(riBuf)) /\ riN + 1 = riCall.max /\ Returns(riN + 1)
  /\ UNCHANGED <<riStream, riFile, riOut>>

\* EOF: nothing was read, or some data was read.
ReadlineEof ==
  /\ riCall.f = "line" /\ riBuf = <<>> /\ riFile = <<>>
  /\ Returns(IF riN = 1 THEN 0 ELSE riN)
  /\ UNCHANGED <<riStream, riFile, riBuf, usrbuf, riTaken, riOut>>

RioLeft(cnt) == SubSeq(riBuf, cnt + 1, Len(riBuf))

\* rio_readnb takes what the buffer has of what is left, and goes on until it has all.
ReadnbBytes ==
  /\ riCall.f = "n" /\ riBuf # <<>>
  /\ LET nleft == riCall.max - Len(usrbuf)
         cnt == IF Len(riBuf) < nleft THEN Len(riBuf) ELSE nleft
         got == SubSeq(riBuf, 1, cnt)
     IN  /\ usrbuf' = usrbuf \o got /\ riTaken' = riTaken \o got
         /\ riBuf' = RioLeft(cnt)
         /\ IF cnt = nleft THEN Returns(riCall.max) ELSE UNCHANGED <<riCall, riN>>
  /\ UNCHANGED <<riStream, riFile, riOut>>

ReadnbEof ==
  /\ riCall.f = "n" /\ riBuf = <<>> /\ riFile = <<>>
  /\ Returns(Len(usrbuf))
  /\ UNCHANGED <<riStream, riFile, riBuf, usrbuf, riTaken, riOut>>

\* mutant: each write starts at the first byte.
WritesFirst(k) == SubSeq(Append(usrbuf, "nul"), 1, k)
Writes(k) == SubSeq(Append(usrbuf, "nul"), riCall.max - riN + 1, riCall.max - riN + k)

\* rio_writen: one write of some of the bytes that are left; the byte after a line is the NUL.
WritenBytes ==
  /\ riCall.f = "write"
  /\ \E k \in 1 .. riN :
       /\ riOut' = riOut \o Writes(k)
       /\ riN' = riN - k
       /\ riCall' = IF k = riN THEN NoCall ELSE riCall
  /\ UNCHANGED <<riStream, riFile, riBuf, usrbuf, riTaken>>

\* An error of read, or of write (EPIPE and the others): the call returns -1, and client() ends.
RioFails ==
  /\ (Reading /\ riBuf = <<>>) \/ riCall.f = "write"
  /\ riCall' = Closed /\ riN' = 0
  /\ UNCHANGED <<riStream, riFile, riBuf, usrbuf, riTaken, riOut>>

RiNext ==
  RioRequest \/ RioRefill \/ ReadlineByte \/ ReadlineEof \/ ReadnbBytes \/ ReadnbEof \/ WritenBytes \/ RioFails

RiSpec == RiInit /\ [][RiNext]_riVars

--------------------------------------------------------------------------------
(* Properties                                                                 *)

\* Each variable has its type, and the internal buffer does not overflow.
RiTypeOK ==
  /\ Len(riBuf) <= RIO_BUFSIZE
  /\ riCall.f \in {"none", "line", "n", "write", "closed"} /\ riN \in 0 .. RiLength + 1 \cup RiMaxlen
  /\ \A n \in DOMAIN riOut : riOut[n] \in {"c", "nl", "nul"}

\* However read cuts the stream, and however calls for lines and for bytes alternate on one buffer,
\* no byte is lost, doubled or moved.
RiNothingLost == riTaken \o riBuf \o riFile = riStream

\* In spite of short writes and of errors, what has been written is the beginning of what was taken,
\* in order, and between calls it is all of it.
RiWrittenInOrder ==
  LET sent == SelectSeq(riOut, LAMBDA b : b # "nul")
  IN  IsPrefix(sent, riTaken) /\ (riCall = NoCall => sent = riTaken)

\* A call for a line goes on only as long as it has met no newline and has room for a byte and the NUL:
\* it neither joins two lines nor overruns the caller's buffer, wherever the refills fall.
RiOneLine ==
  riCall.f = "line"
    => /\ "nl" \notin {usrbuf[n] : n \in DOMAIN usrbuf}
       /\ Len(usrbuf) + 1 = riN /\ riN < riCall.max

\* However read and write cut the stream, no byte is lost, moved or doubled on its way through.
RiSafe == RiTypeOK /\ RiNothingLost /\ RiWrittenInOrder /\ RiOneLine
====
