-------------------------------- MODULE Codec --------------------------------
(***************************************************************************)
(* How a record is packed by its descriptor and unpacked again             *)
(* (pkt_pack_struct and pkt_unpack_struct of pkt/packet.c, the run-length  *)
(* code of utils/compress.c).                                              *)
(*                                                                         *)
(* A descriptor lists fields and, between them, conditions: one that holds *)
(* skips the fields that follow it.  Only the packer knows the record; the *)
(* unpacker learns from the token of a condition how many fields were left *)
(* out.  Tokens carry a type and nothing that names their field, so packer *)
(* and unpacker have to walk the descriptor in step.                       *)
(*                                                                         *)
(* A value is a sequence of bytes, a number of any width a sequence of     *)
(* one.  (The packer copies the bytes of a narrow number into a wider one  *)
(* it has not cleared; the unpacker copies as many out of it.)             *)
(***************************************************************************)
EXTENDS Integers, Sequences, SequencesExt

CONSTANTS
    Desc,       \* the descriptor, without its PKT_END
    Blank,      \* the record before unpacking
    Views,      \* the records that are packed
    RunMax      \* number of values of the 16-bit run length

\* type, offset and size of a field; skip_count and skip_eq of a condition.
FieldType ==
    [field : DOMAIN Blank, type : {"uint", "half", "bin"}, size : Nat, skip : Int, eq : Nat]

Abs(n) == IF n < 0 THEN -n ELSE n

\* Mutant: the next byte is taken over before the run is written.
Run_Early(run, next) == <<run.len, next>>

\* A run as it is written when the byte after it is [next].
Run(run, next) == <<run.len, run.byte>>

\* compress_rle, a round for each byte and one for the byte behind the data
\* (read, but of no consequence: 0 here): [out] the runs so far, [byte] and
\* [len] the run that has begun.
Compressed(bytes) ==
    LET round(run, i) ==
          LET next == IF i > Len(bytes) THEN 0 ELSE bytes[i]
          IN  IF next # run.byte \/ i > Len(bytes)
              THEN [out |-> Append(run.out, Run(run, next)), byte |-> next, len |-> 1]
              ELSE [run EXCEPT !.len = (@ + 1) % RunMax]
    IN  IF bytes = <<>> THEN <<>>
        ELSE FoldLeft(round, [out |-> <<>>, byte |-> bytes[1], len |-> 1],
                      [k \in 1 .. Len(bytes) |-> k + 1]).out

Decompressed(runs) ==
    FoldLeft(LAMBDA out, run : out \o [k \in 1 .. run[1] |-> run[2]], <<>>, runs)

\* Conditions skip fields of the descriptor only; arrays are as long as their
\* field (the longest is that of the items in a container), and no run of
\* theirs is too long to count.
ASSUME CodecAssumption ==
    /\ Desc \in Seq(FieldType)
    /\ Blank \in [DOMAIN Blank -> Seq(Nat)]
    /\ Views \subseteq [DOMAIN Blank -> Seq(Nat)] /\ Views # {}
    /\ \A i \in DOMAIN Desc :
         /\ i + Abs(Desc[i].skip) <= Len(Desc)
         /\ Desc[i].skip = 0 /\ Desc[i].type = "bin" =>
              /\ Desc[i].size < RunMax
              /\ \A v \in Views : Len(v[Desc[i].field]) = Desc[i].size
    /\ RunMax \in Nat \ {0, 1}

VARIABLES
    stage,      \* "pack", "unpack", then "done" or "failed"
    view,       \* the record that is packed
    pos,        \* field of pkt_pack_struct
    wire,       \* the tokens written
    full,       \* the buffer had no room for one, and takes no more
    read,       \* how many tokens have been read
    upos,       \* field of pkt_unpack_struct
    decoded     \* blob of pkt_unpack_struct

vars == <<stage, view, pos, wire, full, read, upos, decoded>>

----------------------------------------------------------------------------
(* Packing                                                                 *)

IsCondition(i) == Desc[i].skip # 0

\* A positive count skips if the byte is skip_eq, a negative one unless.
Skipped(i) ==
    LET val == view[Desc[i].field][1]
    IN  IF (Desc[i].skip > 0 /\ val = Desc[i].eq) \/ (Desc[i].skip < 0 /\ val # Desc[i].eq)
        THEN Abs(Desc[i].skip) ELSE 0

Coded(i) ==
    LET val == view[Desc[i].field] IN IF Desc[i].type = "bin" THEN Compressed(val) ELSE val

\* The token of the i-th entry; [at] is not sent.
Token(i) ==
    IF IsCondition(i) THEN [type |-> "uint", data |-> <<Skipped(i)>>, at |-> i]
                      ELSE [type |-> Desc[i].type, data |-> Coded(i), at |-> i]

\* Mutant: the packer goes on behind the fields it skips and one more.
Behind_More(i) == i + 2 + Skipped(i)

\* Where the packer goes on: a condition that holds takes the fields along.
Behind(i) == IF IsCondition(i) THEN i + 1 + Skipped(i) ELSE i + 1

PackField ==
    /\ stage = "pack" /\ pos <= Len(Desc)
    /\ wire' = IF full THEN wire ELSE Append(wire, Token(pos))
    /\ pos' = Behind(pos)
    /\ UNCHANGED <<stage, view, full, read, upos, decoded>>

\* cwpack takes nothing after the first token that does not fit, and nobody
\* looks at its return code.
Overflow ==
    /\ stage = "pack" /\ ~full
    /\ full' = TRUE
    /\ UNCHANGED <<stage, view, pos, wire, read, upos, decoded>>

----------------------------------------------------------------------------
(* Unpacking                                                               *)

StartUnpacking ==
    /\ stage = "pack" /\ pos > Len(Desc)
    /\ stage' = "unpack"
    /\ read' = 0 /\ upos' = 1 /\ decoded' = Blank
    /\ UNCHANGED <<view, pos, wire, full>>

\* The token cw_unpack_next returns; there may be none left.
Upcoming == wire[read + 1]

UnpackCondition ==
    /\ stage = "unpack" /\ upos <= Len(Desc) /\ read < Len(wire)
    /\ IsCondition(upos) /\ Upcoming.type = "uint"
    /\ read' = read + 1
    /\ upos' = upos + 1 + Upcoming.data[1]
    /\ UNCHANGED <<stage, view, pos, wire, full, decoded>>

\* The value in a token, if it suits the field.
Suits(i) ==
    /\ Upcoming.type = Desc[i].type
    /\ Desc[i].type = "bin" => Len(Decompressed(Upcoming.data)) = Desc[i].size

Value(i) == IF Desc[i].type = "bin" THEN Decompressed(Upcoming.data) ELSE Upcoming.data

UnpackField ==
    /\ stage = "unpack" /\ upos <= Len(Desc) /\ read < Len(wire)
    /\ ~IsCondition(upos) /\ Suits(upos)
    /\ read' = read + 1
    /\ upos' = upos + 1
    /\ decoded' = [decoded EXCEPT ![Desc[upos].field] = Value(upos)]
    /\ UNCHANGED <<stage, view, pos, wire, full>>

\* Nothing left to read, or a token of the wrong kind.
Reject ==
    /\ stage = "unpack" /\ upos <= Len(Desc)
    /\ read < Len(wire) => IF IsCondition(upos) THEN Upcoming.type # "uint" ELSE ~Suits(upos)
    /\ stage' = "failed"
    /\ UNCHANGED <<view, pos, wire, full, read, upos, decoded>>

Accept ==
    /\ stage = "unpack" /\ upos > Len(Desc)
    /\ stage' = "done"
    /\ UNCHANGED <<view, pos, wire, full, read, upos, decoded>>

----------------------------------------------------------------------------
Start(v) ==
    /\ stage \in {"done", "failed"}
    /\ stage' = "pack" /\ view' = v /\ pos' = 1 /\ wire' = <<>> /\ full' = FALSE
    /\ read' = 0 /\ upos' = 1 /\ decoded' = Blank

Init ==
    /\ stage = "pack" /\ view \in Views /\ pos = 1 /\ wire = <<>> /\ full = FALSE
    /\ read = 0 /\ upos = 1 /\ decoded = Blank

Next ==
    \/ PackField \/ Overflow \/ StartUnpacking
    \/ UnpackCondition \/ UnpackField \/ Reject \/ Accept
    \/ \E v \in Views : Start(v)

Spec == Init /\ [][Next]_vars
----------------------------------------------------------------------------
(* Properties                                                              *)

TypeOK ==
    /\ stage \in {"pack", "unpack", "done", "failed"}
    /\ view \in [DOMAIN Blank -> Seq(Nat)] /\ decoded \in [DOMAIN Blank -> Seq(Nat)]
    /\ full \in BOOLEAN
    /\ pos \in 1 .. Len(Desc) + 1 /\ upos \in 1 .. Len(Desc) + 1
    /\ read \in 0 .. Len(wire) /\ Len(wire) <= Len(Desc)
    /\ \A k \in 1 .. Len(wire) : wire[k].at \in DOMAIN Desc

\* The unpacker gives every token to the entry of the descriptor it was
\* written for, whatever was skipped and wherever the buffer ended.
InStep == stage = "unpack" /\ read < Len(wire) => Upcoming.at = upos

\* No field ever gets the value of another: what has been unpacked, of a
\* record that was cut off as well, is the record's or was never written.
NoMixUp == \A f \in DOMAIN Blank : decoded[f] \in {Blank[f], view[f]}

\* Only what did not fit the buffer is refused.
OnlyCutOffFails == stage = "failed" => full

\* An accepted record that fitted the buffer arrives as it was built: the
\* conditions leave out only what every record of that kind leaves blank.
\* (A field that only conditions read never travels: blocks_used.)
WholeViewArrives == stage = "done" /\ ~full => \A i \in DOMAIN Desc :
    ~IsCondition(i) => decoded[Desc[i].field] = view[Desc[i].field]
=============================================================================
