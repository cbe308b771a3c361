--------------------------- MODULE HyDynamicArray ---------------------------
(***************************************************************************)
(* The growing buffer, src/linux/hy_dynamic_array.c.  Its lengths are      *)
(* unsigned; `free' counts from the start of the buffer while writes go to *)
(* write_pos, which what was read has moved on.                            *)
(*                                                                         *)
(* The bytes given to the array are numbered; 0 is a byte nobody wrote, a  *)
(* NUL or one of the three dots.                                           *)
(***************************************************************************)
EXTENDS Integers, Sequences

CONSTANTS
    min_len, max_len,
    ArrayLens,      \* lengths written and read
    MaxGiven,       \* bound: bytes written in one behaviour
    Word            \* the range of the lengths, far above them

VARIABLES
    buf,            \* the memory, `len' bytes of it
    cur_len, write_pos, read_pos,
    given,          \* how many bytes were handed to the array
    want,           \* history: the bytes it accepted and did not give back
    lapse,          \* history: "read" something, "limit" of the growth met,
                    \* a print found itself "short" of space
    arrayEnd        \* "run", "overrun": wrote outside its memory, "gone"

arrayVars == <<buf, cur_len, write_pos, read_pos, given, want, lapse, arrayEnd>>

len == Len(buf)
U(x) == x % Word
AlignUp4(x) == ((x + 3) \div 4) * 4
Least(a, b) == IF a <= b THEN a ELSE b
Zeros(n) == [i \in 1 .. n |-> 0]
Bytes(n) == [i \in 1 .. n |-> given + i]

ArrayInit ==
    /\ buf = Zeros(min_len)
    /\ cur_len = 0 /\ write_pos = 0 /\ read_pos = 0
    /\ given = 0 /\ want = <<>> /\ lapse = {} /\ arrayEnd = "run"

(* memcpy of `bytes' to write_pos of `mem'; `claim' of them are counted.   *)
Stores(mem, bytes, claim) ==
    /\ IF write_pos + Len(bytes) <= Len(mem)
       THEN /\ buf' = SubSeq(mem, 1, write_pos) \o bytes
                      \o SubSeq(mem, write_pos + Len(bytes) + 1, Len(mem))
            /\ UNCHANGED arrayEnd
       ELSE buf' = mem /\ arrayEnd' = "overrun"
    /\ cur_len' = cur_len + claim /\ write_pos' = write_pos + claim

(* _dynamic_array_extend when it goes well.                                *)
Extended(inc) ==
    LET fits == U(len + inc) <= max_len
        size == IF fits THEN AlignUp4(U(len + inc + 1)) ELSE max_len
    IN  [mem |-> buf \o Zeros(size - len), limit |-> ~fits]

Accepts(bytes, lapses) ==
    want' = want \o bytes /\ lapse' = lapse \cup lapses /\ UNCHANGED read_pos

Refuses == UNCHANGED <<buf, cur_len, write_pos, read_pos, want, lapse, arrayEnd>>

Write(n) ==
    LET free == U(len - cur_len)
        new  == Extended(U(n - free))
        kept == U(Len(new.mem) - cur_len - 3 - 1)
    IN  /\ arrayEnd = "run" /\ given + n <= MaxGiven /\ given' = given + n
        /\ \/ free > n /\ Stores(buf, Bytes(n), n) /\ Accepts(Bytes(n), {})
           \/ free <= n /\ Refuses    \* at the limit, or no memory
           \/ /\ free <= n /\ len < max_len /\ ~new.limit
              /\ Stores(new.mem, Bytes(n), n) /\ Accepts(Bytes(n), {})
           \/ /\ free <= n /\ len < max_len /\ new.limit
              /\ IF kept <= n
                 THEN LET cut == Bytes(kept) \o Zeros(3)
                      IN  Stores(new.mem, cut, kept + 3) /\ Accepts(cut, {"limit"})
                 ELSE /\ arrayEnd' = "overrun" /\ lapse' = lapse \cup {"limit"}
                      /\ UNCHANGED <<buf, cur_len, write_pos, read_pos, want>>

(* What vsnprintf leaves of n characters in `size' bytes, which it takes   *)
(* for a huge number when they are negative.                               *)
Printed(n, size) ==
    IF size = 0 THEN <<>>
    ELSE IF size < 0 THEN Bytes(n) \o Zeros(1)
    ELSE Bytes(Least(n, size - 1)) \o Zeros(1)

WriteVprintf(n) ==
    LET free == len - cur_len - 1
        new  == Extended(U(n - U(len - cur_len)))
        more == Len(new.mem) - cur_len - 1
    IN  /\ arrayEnd = "run" /\ given + n <= MaxGiven /\ given' = given + n
        /\ \/ n < free /\ Stores(buf, Printed(n, free), n) /\ Accepts(Bytes(n), {})
           \/ n >= free /\ Stores(buf, Printed(n, free), 0) /\ Accepts(<<>>, {})
           \/ /\ n >= free /\ len < max_len
              /\ write_pos + Len(Printed(n, free)) <= len
              /\ Stores(new.mem, Printed(n, more), n)
              /\ Accepts(Bytes(n), IF n >= more THEN {"short"} ELSE {})

(* Mutation: the bytes stay where the next read finds them again.          *)
Read_Again(n) ==
    /\ arrayEnd = "run" /\ cur_len > 0
    /\ cur_len' = cur_len - Least(n, cur_len)
    /\ want' = SubSeq(want, Least(n, cur_len) + 1, Len(want))
    /\ lapse' = lapse \cup {"read"}
    /\ UNCHANGED <<buf, read_pos, write_pos, given, arrayEnd>>

Read(n) ==
    /\ arrayEnd = "run" /\ cur_len > 0
    /\ read_pos' = read_pos + Least(n, cur_len)
    /\ cur_len' = cur_len - Least(n, cur_len)
    /\ want' = SubSeq(want, Least(n, cur_len) + 1, Len(want))
    /\ lapse' = lapse \cup {"read"}
    /\ UNCHANGED <<buf, write_pos, given, arrayEnd>>

ArrayReset ==
    /\ arrayEnd = "run" /\ buf' = Zeros(len)
    /\ cur_len' = 0 /\ write_pos' = 0 /\ read_pos' = 0
    /\ want' = <<>> /\ lapse' = {}
    /\ UNCHANGED <<given, arrayEnd>>

ArrayDestroy ==
    /\ arrayEnd = "run" /\ arrayEnd' = "gone"
    /\ UNCHANGED <<buf, cur_len, write_pos, read_pos, given, want, lapse>>

ArrayNext ==
    \/ \E n \in ArrayLens : Write(n) \/ WriteVprintf(n) \/ Read(n)
    \/ ArrayReset \/ ArrayDestroy

-----------------------------------------------------------------------------
(* The array gives back what it accepted: between the two positions lie    *)
(* those bytes in their order, unless a print was short of space, which    *)
(* counts characters it has cut off.  It writes outside its memory only    *)
(* once something was read since the last Reset, at the limit of its       *)
(* growth, or after such a print.                                          *)
KeepsWhatItAccepts ==
    /\ arrayEnd = "overrun" => lapse # {}
    /\ arrayEnd = "run" /\ "short" \notin lapse =>
           want = SubSeq(buf, read_pos + 1, read_pos + cur_len)
=============================================================================
