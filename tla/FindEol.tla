------------------------------- MODULE FindEol --------------------------------
(***************************************************************************)
(* ssh2.utils.find_eol and the loop of a client that splits a buffer into  *)
(* lines with it, as the tests of the repository do.                       *)
(*                                                                         *)
(* find_eol searches with strchr: a NUL ends the search, and a line feed   *)
(* counts as CR LF if there is a carriage return anywhere from the byte    *)
(* before it to the end of the string.  When the line feed is the first    *)
(* byte, the byte before it is outside of the string: it is the last byte  *)
(* of the hash field of the bytes object, 0xFF until the object is hashed. *)
(* A slice is a new object, unless it is the whole buffer or one byte.     *)
(***************************************************************************)
EXTENDS Integers, Sequences, FiniteSets, SequencesExt

CONSTANTS
    Bytes,     \* the bytes that occur: "x" stands for all ordinary ones
    Outside,   \* what the byte in front of a buffer can be
    MaxLen     \* bound: the length of the buffer

ASSUME FindEolAssumption ==
    /\ Bytes \subseteq {"x", "cr", "lf", "nul"}
    /\ Outside \subseteq {"x", "cr", "nul"}
    /\ MaxLen \in Nat

VARIABLES
    buf,     \* the buffer
    front,   \* the byte in front of it
    pos,     \* where the client is in it
    lines,   \* the lines it has cut off
    ret,     \* what find_eol answered: linesep and new_line_pos
    pc       \* "find", "use" or "done"

vars == <<buf, front, pos, lines, ret, pc>>

Buffers == BoundedSeq(Bytes, MaxLen)

TypeOK ==
    /\ buf \in Buffers /\ front \in Outside
    /\ pos \in 0..Len(buf)
    /\ lines \in Seq(Seq(Bytes))
    /\ ret \in [index : -1..MaxLen, new_pos : 0..2]
    /\ pc \in {"find", "use", "done"}

Init ==
    /\ buf \in Buffers /\ front \in Outside
    /\ pos = 0 /\ lines = <<>> /\ pc = "find"
    /\ ret = [index |-> -1, new_pos |-> 0]

\* The part of s that C sees: up to the first NUL.
Visible(s) ==
    LET nul == SelectInSeq(s, LAMBDA c : c = "nul") IN
    IF nul = 0 THEN s ELSE SubSeq(s, 1, nul - 1)

\* strchr: the position of the first c in s, or 0.
StrChr(s, c) == SelectInSeq(Visible(s), LAMBDA d : d = c)

\* Whether the line feed at lf counts as CR LF.
CrBefore(s, lf, before) ==
    StrChr(<<IF lf = 1 THEN before ELSE s[lf - 1]>> \o SubSeq(s, lf, Len(s)), "cr") # 0

\* Bug: a carriage return stays part of the line.
CFindEolNoCR(s, before) ==
    LET lf == StrChr(s, "lf") IN
    IF lf = 0 THEN [index |-> -1, new_pos |-> 0]
    ELSE [index |-> lf - 1, new_pos |-> 1]

\* Bug: only the carriage return, not the line feed, is counted.
CFindEolStays(s, before) ==
    LET lf == StrChr(s, "lf") IN
    CASE lf = 0 -> [index |-> -1, new_pos |-> 0]
      [] lf # 0 /\ CrBefore(s, lf, before) -> [index |-> lf - 2, new_pos |-> 1]
      [] OTHER -> [index |-> lf - 1, new_pos |-> 0]

\* find_eol in C.
CFindEol(s, before) ==
    LET lf == StrChr(s, "lf") IN
    CASE lf = 0 -> [index |-> -1, new_pos |-> 0]
      [] lf # 0 /\ CrBefore(s, lf, before) -> [index |-> lf - 2, new_pos |-> 2]
      [] OTHER -> [index |-> lf - 1, new_pos |-> 1]

\* The byte in front of the slice that find_eol searches.
Before == IF pos \in {0, Len(buf) - 1} THEN front ELSE "x"

\* find_eol in Python.
FindEolCall ==
    /\ pc = "find"
    /\ ret' = IF buf = <<>> THEN [index |-> -1, new_pos |-> pos]
              ELSE CFindEol(SubSeq(buf, pos + 1, Len(buf)), Before)
    /\ pc' = "use"
    /\ UNCHANGED <<buf, front, pos, lines>>

\* The client takes the line and goes on behind it.
TakeLine ==
    /\ pc = "use" /\ pos < Len(buf) /\ ret.index >= 0
    /\ lines' = Append(lines, SubSeq(buf, pos + 1, pos + ret.index))
    /\ pos' = pos + ret.index + ret.new_pos
    /\ pc' = "find"
    /\ UNCHANGED <<buf, front, ret>>

\* What remains is the last line.
TakeRest ==
    /\ pc = "use" /\ (pos = Len(buf) \/ ret.index < 0)
    /\ lines' = Append(lines, SubSeq(buf, pos + 1, Len(buf)))
    /\ pc' = "done"
    /\ UNCHANGED <<buf, front, pos, ret>>

Done == pc = "done" /\ UNCHANGED vars

Next == FindEolCall \/ TakeLine \/ TakeRest \/ Done

Spec == Init /\ [][Next]_vars

-------------------------------------------------------------------------------
(* Properties. *)

\* The ends of the lines of b: its line feeds and, for the last, its end.
Ends(b) == SetToSortSeq({i \in DOMAIN b : b[i] = "lf"} \cup {Len(b) + 1}, <)

\* Line k of b, without the LF or CR LF that ends it.
Line(b, k) ==
    LET e == Ends(b)[k]
        first == IF k = 1 THEN 1 ELSE Ends(b)[k - 1] + 1
        crlf == e <= Len(b) /\ e > first /\ b[e - 1] = "cr"
    IN  SubSeq(b, first, IF crlf THEN e - 2 ELSE e - 1)

(***************************************************************************)
(* The buffers that find_eol is right about: no NUL, no LF that has no CR  *)
(* before it but one after it, and no CR in front of the buffer.           *)
(***************************************************************************)
Tidy ==
    /\ front # "cr"
    /\ \A i \in DOMAIN buf : buf[i] # "nul"
    /\ \A i, j \in DOMAIN buf :
         buf[i] = "lf" /\ buf[j] = "cr" /\ i < j => i > 1 /\ buf[i - 1] = "cr"

(***************************************************************************)
(* The lines a client gets from find_eol are the lines of a tidy buffer,   *)
(* in order and without their ends; what it takes for the last one holds   *)
(* no further end of line.  In no buffer does it run past the end.         *)
(***************************************************************************)
LinesRight ==
    /\ TypeOK
    /\ Tidy => \A k \in DOMAIN lines :
                  k <= Len(Ends(buf)) /\ lines[k] = Line(buf, k)

(***************************************************************************)
(* Every line moves the client on, so its loop ends, on any buffer.        *)
(***************************************************************************)
MovesOn == [][lines' # lines /\ pc' # "done" => pos' > pos]_vars
===============================================================================
