---------------------------------- MODULE StrCli --------------------------------
(******************************************************************************)
(* unpv13e/nonblock/strclinonb.c: the echo client with nonblocking I/O.  One  *)
(* loop moves bytes from standard input through the buffer `to' to the socket *)
(* and from the socket through the buffer `fr' to standard output.  A read or *)
(* a write moves any number of bytes it can, or none (EWOULDBLOCK).  The echo *)
(* server, the connection and the files are external; nothing of the code is  *)
(* left out but errors that end the program.  Bytes are numbered from 1.      *)
(******************************************************************************)
EXTENDS Integers, Sequences

CONSTANTS
  NB_MAXLINE,   \* MAXLINE: the length of each buffer
  NbInput       \* the number of bytes of standard input

ASSUME NbAssumption == NB_MAXLINE \in Nat \ {0} /\ NbInput \in Nat

VARIABLES
  stdineof,
  to, toiptr, tooptr,   \* buffer to the socket: [1 .. NB_MAXLINE -> byte], and the bytes before its two pointers
  fr, friptr, froptr,   \* buffer to standard output
  nbPc,                 \* "select", "stdin", "socket", "stdout", "send", "normal" (returned), "premature" (err_quit)
  rset, wset,           \* what select, and the reads, have marked ready
  nbStdin,              \* bytes not yet read from standard input
  nbSent, nbFin,        \* bytes written to the socket, and whether a FIN followed them
  nbServed,             \* how many of them the server has read
  nbBack,               \* bytes on their way back
  nbEof,                \* the server has closed
  nbOut                 \* bytes written to standard output

nbTo == <<to, toiptr, tooptr>>
nbFr == <<fr, friptr, froptr>>
nbPeer == <<nbServed, nbBack, nbEof>>
nbVars == <<stdineof, nbTo, nbFr, nbPc, rset, wset, nbStdin, nbSent, nbFin, nbPeer, nbOut>>

Bytes == [n \in 1 .. NbInput |-> n]

NbInit ==
  /\ stdineof = FALSE
  /\ to = [i \in 1 .. NB_MAXLINE |-> 0] /\ toiptr = 0 /\ tooptr = 0
  /\ fr = [i \in 1 .. NB_MAXLINE |-> 0] /\ friptr = 0 /\ froptr = 0
  /\ nbPc = "select" /\ rset = {} /\ wset = {}
  /\ nbStdin = Bytes /\ nbSent = <<>> /\ nbFin = FALSE
  /\ nbServed = 0 /\ nbBack = <<>> /\ nbEof = FALSE /\ nbOut = <<>>

\* The descriptors the loop asks about, and those of them that are ready for sure.
WantRead ==
  (IF ~stdineof /\ toiptr < NB_MAXLINE THEN {"stdin"} ELSE {})
    \cup (IF friptr < NB_MAXLINE THEN {"socket"} ELSE {})
WantWrite ==
  (IF tooptr # toiptr THEN {"socket"} ELSE {}) \cup (IF froptr # friptr THEN {"stdout"} ELSE {})
Readable == {"stdin"} \cup (IF nbBack # <<>> \/ nbEof THEN {"socket"} ELSE {})

\* Standard input and the writes become ready when they like.
Select ==
  /\ nbPc = "select"
  /\ \E r \in SUBSET (WantRead \cap Readable), w \in SUBSET WantWrite :
       /\ r \cup w # {}
       /\ rset' = r /\ wset' = w
  /\ nbPc' = "stdin"
  /\ UNCHANGED <<stdineof, nbTo, nbFr, nbStdin, nbSent, nbFin, nbPeer, nbOut>>

\* buf with the first n bytes of data from position at on.
Filled(buf, at, data, n) ==
  [i \in DOMAIN buf |-> IF i \in at + 1 .. at + n THEN data[i - at] ELSE buf[i]]

NbRoom(iptr) == NB_MAXLINE - iptr

\* A read from standard input into the room that is left in to.
StdinBlock ==
  /\ nbPc = "stdin" /\ nbPc' = "socket"
  /\ \/ "stdin" \notin rset /\ UNCHANGED <<stdineof, nbTo, wset, nbStdin, nbFin>>
     \/ /\ "stdin" \in rset /\ nbStdin = <<>>
        /\ stdineof' = TRUE
        /\ nbFin' = (nbFin \/ tooptr = toiptr)
        /\ UNCHANGED <<nbTo, wset, nbStdin>>
     \/ /\ "stdin" \in rset
        /\ \E n \in 0 .. Len(nbStdin) :
             /\ n <= NbRoom(toiptr)
             /\ n = 0 => nbStdin # <<>>                     \* EWOULDBLOCK
             /\ to' = Filled(to, toiptr, nbStdin, n) /\ toiptr' = toiptr + n
             /\ nbStdin' = SubSeq(nbStdin, n + 1, Len(nbStdin))
             /\ wset' = IF n > 0 THEN wset \cup {"socket"} ELSE wset
        /\ UNCHANGED <<stdineof, tooptr, nbFin>>
  /\ UNCHANGED <<nbFr, rset, nbSent, nbPeer, nbOut>>

\* A read from the socket into the room that is left in fr; at its end the function returns, or quits.
SocketBlock ==
  /\ nbPc = "socket"
  /\ \/ /\ "socket" \notin rset
        /\ nbPc' = "stdout" /\ UNCHANGED <<nbFr, wset, nbBack>>
     \/ /\ "socket" \in rset /\ nbBack = <<>> /\ nbEof
        /\ nbPc' = IF stdineof THEN "normal" ELSE "premature"
        /\ UNCHANGED <<nbFr, wset, nbBack>>
     \/ /\ "socket" \in rset /\ nbBack # <<>>
        /\ \E n \in 0 .. Len(nbBack) :
             /\ n <= NbRoom(friptr)
             /\ fr' = Filled(fr, friptr, nbBack, n) /\ friptr' = friptr + n
             /\ nbBack' = SubSeq(nbBack, n + 1, Len(nbBack))
             /\ wset' = IF n > 0 THEN wset \cup {"stdout"} ELSE wset
        /\ nbPc' = "stdout" /\ UNCHANGED froptr
  /\ UNCHANGED <<stdineof, nbTo, rset, nbStdin, nbSent, nbFin, nbServed, nbEof, nbOut>>

\* The in pointer i and the out pointer o after a write of n bytes: both go back to the beginning of
\* the buffer when all is written.
InAfter(i, o, n) == IF o + n = i THEN 0 ELSE i
OutAfter(i, o, n) == IF o + n = i THEN 0 ELSE o + n

\* A write of what fr holds to standard output.
StdoutBlock ==
  /\ nbPc = "stdout" /\ nbPc' = "send"
  /\ \/ ~("stdout" \in wset /\ friptr - froptr > 0) /\ UNCHANGED <<friptr, froptr, nbOut>>
     \/ /\ "stdout" \in wset /\ friptr - froptr > 0
        /\ \E n \in 0 .. friptr - froptr :
             /\ nbOut' = nbOut \o SubSeq(fr, froptr + 1, froptr + n)
             /\ friptr' = InAfter(friptr, froptr, n) /\ froptr' = OutAfter(friptr, froptr, n)
  /\ UNCHANGED <<stdineof, nbTo, fr, rset, wset, nbStdin, nbSent, nbFin, nbPeer>>

NbLastSentNot(n) == FALSE        \* mutant: only the end of the input shuts down
NbLastSent(n) == stdineof /\ tooptr + n = toiptr

\* A write of what to holds to the socket, and the FIN when it was the last.
SendBlock ==
  /\ nbPc = "send" /\ nbPc' = "select"
  /\ \/ ~("socket" \in wset /\ toiptr - tooptr > 0) /\ UNCHANGED <<toiptr, tooptr, nbSent, nbFin>>
     \/ /\ "socket" \in wset /\ toiptr - tooptr > 0
        /\ \E n \in 0 .. toiptr - tooptr :
             /\ nbSent' = nbSent \o SubSeq(to, tooptr + 1, tooptr + n)
             /\ toiptr' = InAfter(toiptr, tooptr, n) /\ tooptr' = OutAfter(toiptr, tooptr, n)
             /\ nbFin' = (nbFin \/ NbLastSent(n))
  /\ rset' = {} /\ wset' = {}                               \* not used again: select sets them
  /\ UNCHANGED <<stdineof, to, nbFr, nbStdin, nbPeer, nbOut>>

\* External: the server echoes the bytes one by one, and closes after the client's FIN.
ServerEchoes ==
  /\ ~nbEof /\ nbServed < Len(nbSent)
  /\ nbServed' = nbServed + 1 /\ nbBack' = Append(nbBack, nbSent[nbServed + 1])
  /\ UNCHANGED <<stdineof, nbTo, nbFr, nbPc, rset, wset, nbStdin, nbSent, nbFin, nbEof, nbOut>>

ServerCloses ==
  /\ ~nbEof /\ nbFin /\ nbServed = Len(nbSent)
  /\ nbEof' = TRUE
  /\ UNCHANGED <<stdineof, nbTo, nbFr, nbPc, rset, wset, nbStdin, nbSent, nbFin, nbServed, nbBack, nbOut>>

\* External: the server dies.
ServerDies ==
  /\ ~nbEof /\ nbEof' = TRUE
  /\ UNCHANGED <<stdineof, nbTo, nbFr, nbPc, rset, wset, nbStdin, nbSent, nbFin, nbServed, nbBack, nbOut>>

NbNext ==
  \/ Select \/ StdinBlock \/ SocketBlock \/ StdoutBlock \/ SendBlock
  \/ ServerEchoes \/ ServerCloses \/ ServerDies

NbSpec == NbInit /\ [][NbNext]_nbVars

--------------------------------------------------------------------------------
(* Properties                                                                 *)

\* Each variable has its type, and in each buffer the out pointer is not after the in pointer.
NbTypeOK ==
  /\ stdineof \in BOOLEAN /\ nbFin \in BOOLEAN /\ nbEof \in BOOLEAN
  /\ to \in [1 .. NB_MAXLINE -> 0 .. NbInput] /\ fr \in [1 .. NB_MAXLINE -> 0 .. NbInput]
  /\ toiptr \in 0 .. NB_MAXLINE /\ tooptr \in 0 .. toiptr
  /\ friptr \in 0 .. NB_MAXLINE /\ froptr \in 0 .. friptr
  /\ nbPc \in {"select", "stdin", "socket", "stdout", "send", "normal", "premature"}
  /\ rset \subseteq {"stdin", "socket"} /\ wset \subseteq {"stdout", "socket"}
  /\ nbServed \in 0 .. Len(nbSent)

\* However the reads and writes are cut, no byte is lost, doubled or moved: what was sent, what is in
\* the buffer and what is still to be read make up the input.
NbNothingLost ==
  /\ nbSent \o SubSeq(to, tooptr + 1, toiptr) \o nbStdin = Bytes
  /\ nbOut \o SubSeq(fr, froptr + 1, friptr) \o nbBack = SubSeq(nbSent, 1, nbServed)

\* The FIN follows the last byte: the client never shuts the connection down with input unsent, and
\* never forgets to when the end of the input comes before, with or after the last write.
NbFinAtEnd ==
  /\ nbFin => stdineof /\ nbSent = Bytes
  /\ nbPc = "select" /\ stdineof /\ toiptr = tooptr => nbFin

\* The loop never waits for nothing: as long as it runs, select can return, or the server has still
\* to echo or to close.
NbNeverStuck ==
  nbPc = "select" => WantRead \cap Readable # {} \/ WantWrite # {} \/ nbServed < Len(nbSent) \/ (nbFin /\ ~nbEof)

\* However reads, writes and the two ends of file fall, the stream is kept, the FIN follows it, and
\* the loop is not stuck.
NbSafe == NbTypeOK /\ NbNothingLost /\ NbFinAtEnd /\ NbNeverStuck
================================================================================
