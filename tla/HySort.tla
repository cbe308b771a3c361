------------------------------- MODULE HySort -------------------------------
(***************************************************************************)
(* The two sorts of src/hy_sort.c, over items with a key swap_cb compares. *)
(* The items carry where they stood, so that those of one key differ.      *)
(***************************************************************************)
EXTENDS Naturals, Sequences, FiniteSets, FiniteSetsExt, SequencesExt

CONSTANTS
    SortKeys,
    MaxLen          \* bound: the length of an array

VARIABLES array, sorted     \* what was handed over, "none", "bubble" or "quick"

sortVars == <<array, sorted>>

Numbered(keys) == [i \in DOMAIN keys |-> [key |-> keys[i], at |-> i]]
SortInit ==
    /\ \E n \in 0 .. MaxLen : \E keys \in [1 .. n -> SortKeys] : array = Numbered(keys)
    /\ sorted = "none"

Swap(a, i, j) == [a EXCEPT ![i] = a[j], ![j] = a[i]]

(* Mutation: the last pair of each pass is left out.                       *)
Passes_Short(n) == FlattenSeq([i \in 1 .. n |-> [j \in 1 .. (IF i + 1 < n THEN n - i - 1 ELSE 0) |-> j]])

(* The pairs HySortBubble compares: j and j + 1.                           *)
Passes(n) == FlattenSeq([i \in 1 .. n |-> [j \in 1 .. n - i |-> j]])

Bubble(a) ==
    FoldLeft(LAMBDA s, j : IF s[j].key > s[j + 1].key THEN Swap(s, j, j + 1) ELSE s,
             a, Passes(Len(a)))

Items  == [key : SortKeys, at : 1 .. MaxLen]
Arrays == Seq(Items)

(* _partition, `tmp' the item taken from the low end at its start.         *)
Partition[a \in Arrays, low \in Nat, high \in Nat, tmp \in Items] ==
    IF low >= high THEN [a |-> [a EXCEPT ![low] = tmp], at |-> low]
    ELSE LET h  == Max({i \in low .. high : i = low \/ a[i].key < tmp.key})
             a1 == Swap(a, low, h)
             l  == Min({i \in low .. h : i = h \/ a1[i].key > tmp.key})
         IN  Partition[Swap(a1, h, l), l, h, tmp]

Quick[a \in Arrays, low \in Nat, high \in Nat] ==
    IF low >= high THEN a
    ELSE LET cut == Partition[a, low, high, a[low]]
         IN  Quick[Quick[cut.a, low, cut.at - 1], cut.at + 1, high]

HySortBubble ==
    sorted = "none" /\ array' = Bubble(array) /\ sorted' = "bubble"

HySortQuick ==
    sorted = "none" /\ array' = Quick[array, 1, Len(array)] /\ sorted' = "quick"

SortNext == HySortBubble \/ HySortQuick

-----------------------------------------------------------------------------
(* Both sorts return every item once and in order, also with equal keys,   *)
(* none or one; the bubble sort keeps items of one key as they stood.      *)
SortsEveryItem ==
    sorted # "none" =>
        /\ {array[i].at : i \in DOMAIN array} = DOMAIN array
        /\ \A i, j \in DOMAIN array : i < j =>
               /\ array[i].key <= array[j].key
               /\ sorted = "bubble" /\ array[i].key = array[j].key => array[i].at < array[j].at
=============================================================================
