-------------------------------- MODULE Dbuf ---------------------------------
(* dbuf.c: a queue of bytes kept in a chain of buffers of one size.  A buffer *)
(* is what it still holds and the room behind that; the first one is read     *)
(* from its start and freed when it is empty, new bytes go behind the last.   *)
(* A byte is any value; Eol stands for \r and \n.                             *)
EXTENDS Naturals, Sequences, SequencesExt

CONSTANTS
  DbufSize,    \* DBUF_SIZE
  Eol          \* what IsEol holds for

Empty == <<>>

NewBuffer(byte) == [data |-> <<byte>>, room |-> DbufSize - 1]

PutByte(dyn, byte) ==
  IF dyn # Empty /\ Last(dyn).room > 0
  THEN Front(dyn) \o <<[data |-> Append(Last(dyn).data, byte), room |-> Last(dyn).room - 1]>>
  ELSE Append(dyn, NewBuffer(byte))

dbuf_put(dyn, bytes) == FoldLeft(PutByte, dyn, bytes)

dbuf_map(dyn) == Head(dyn).data

DropByte(dyn) ==
  IF Len(Head(dyn).data) = 1 THEN Tail(dyn)
  ELSE <<[Head(dyn) EXCEPT !.data = Tail(@)]>> \o Tail(dyn)

Bytes(dyn) == FlattenSeq([i \in DOMAIN dyn |-> dyn[i].data])

DBufLength(dyn) == Len(Bytes(dyn))

dbuf_delete(dyn, length) ==
  FoldLeft(LAMBDA d, i : IF d = Empty THEN d ELSE DropByte(d), dyn, [i \in 1..length |-> i])

EolAt(bytes) == SelectInSeq(bytes, LAMBDA b : b = Eol)

(* dbuf_flush: the line ends at the front go.                                 *)
dbuf_flush(dyn) ==
  LET text == SelectInSeq(Bytes(dyn), LAMBDA b : b # Eol)
  IN  IF text = 0 THEN Empty ELSE dbuf_delete(dyn, text - 1)

(* The first line of a queue, which ends at position at, and the rest.        *)
CutAt(dyn, at) ==
  IF at = 0 THEN [line |-> <<>>, rest |-> dyn]
  ELSE [line |-> SubSeq(Bytes(dyn), 1, at - 1), rest |-> dbuf_flush(dbuf_delete(dyn, at - 1))]

FirstLine(dyn) == CutAt(dyn, EolAt(Bytes(dyn)))

(* dbuf_getmsg: the first line, if its end has come; the line ends in front   *)
(* of it and behind it go in any case.                                        *)
dbuf_getmsg(dyn) == FirstLine(dbuf_flush(dyn))
=============================================================================
