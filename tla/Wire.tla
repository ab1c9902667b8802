-------------------------------- MODULE Wire --------------------------------
(***************************************************************************)
(* Numbers and strings as bytes: MessageReader and MessageWriter of        *)
(* crates/protocol/src/message.rs, PropReader of crates/formats/src        *)
(* /props.rs.  Both are little endian; a string has its length before it.  *)
(* A u32 that a property looks into is written as a pair of u16.           *)
(***************************************************************************)
EXTENDS Integers, Sequences, SequencesExt

Byte == 0..255
Word == 0..65535

U8(n) == <<n % 256>>
U16(n) == <<n % 256, (n \div 256) % 256>>
U32(n) == U16(n) \o U16(n \div 65536)
Text(s) == U16(Len(s)) \o s
Zeros(n) == [i \in 1..n |-> 0]

FromU16(b) == b[1] + 256 * b[2]

\* A reader: the bytes left, the values read, and whether they sufficed.
Take(r, n, Value(_)) ==
    IF Len(r.left) < n THEN [r EXCEPT !.ok = FALSE]
    ELSE [r EXCEPT !.got = Append(@, Value(SubSeq(r.left, 1, n))),
                   !.left = SubSeq(@, n + 1, Len(@))]

ReadText(r) ==
    IF Len(r.left) < 2 THEN [r EXCEPT !.ok = FALSE]
    ELSE Take([r EXCEPT !.left = SubSeq(@, 3, Len(@))], FromU16(r.left), LAMBDA b : b)

ReadOne(r, type) ==
    CASE ~ r.ok -> r
      [] r.ok /\ type = "u8" -> Take(r, 1, LAMBDA b : b[1])
      [] r.ok /\ type = "u16" -> Take(r, 2, FromU16)
      [] r.ok /\ type = "u32" -> Take(r, 4, LAMBDA b : FromU16(b) + 65536 * FromU16(SubSeq(b, 3, 4)))
      [] r.ok /\ type = "text" -> ReadText(r)

\* Read values of the given types, one after the other.
RECURSIVE ReadAll(_, _)
ReadAll(r, types) ==
    LET half == Len(types) \div 2
        first == ReadAll(r, SubSeq(types, 1, half))
    IN  IF types = << >> THEN r
        ELSE IF Len(types) = 1 THEN ReadOne(r, types[1])
        ELSE IF first.ok THEN ReadAll(first, SubSeq(types, half + 1, Len(types))) ELSE first
Reading(data, types) == ReadAll([left |-> data, got |-> << >>, ok |-> TRUE], types)

=============================================================================
