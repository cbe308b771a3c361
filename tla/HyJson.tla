------------------------------- MODULE HyJson -------------------------------
(***************************************************************************)
(* JSON trees, src/serialize/hy_json.c over cjson_impl.c.  cJSON is        *)
(* external: a node has an integer and a real view of its number, children *)
(* are a list in which a key may come twice and the first one is found.    *)
(* HY_JSON_USE_TYPE is 1: a node is named by the steps that lead to it.    *)
(*                                                                         *)
(* A real number is counted in halves, so that its integer view cuts       *)
(* something off; IntMax is INT_MAX.                                       *)
(***************************************************************************)
EXTENDS Integers, Sequences, SequencesExt

CONSTANTS
    Fields,         \* names of fields: cJSON compares without regard to case,
                    \* so names that differ in case alone are one of them
    MaxItems,       \* bound: nodes alive at a time
    Ints, Reals, Strings,
    IntMax,
    NoValue

VARIABLES
    items,          \* the nodes by address, NoValue where none is
    said            \* history: what was written to a field of an object

jsonVars == <<items, said>>

Addrs == 1 .. MaxItems
NULL  == 0
Live  == {x \in Addrs : items[x] # NoValue}
Kids(x)  == {items[x].kids[i].item : i \in DOMAIN items[x].kids}
Roots    == Live \ UNION {Kids(x) : x \in Live}

(* The tree below a node: it is in every set that has the node and, of     *)
(* each node in it, the kids.                                              *)
Closed(B) == \A y \in B : Kids(y) \subseteq B
Below(x)  == {y \in Live : \A B \in SUBSET Live : x \in B /\ Closed(B) => y \in B}

(* The int a real is converted to, toward zero and not past INT_MAX.       *)
Saturated(halves) == IF halves \div 2 >= IntMax THEN IntMax ELSE halves \div 2

Node(t)     == [type |-> t, int |-> 0, real |-> 0, str |-> NoValue, kids |-> <<>>]
Number(h)   == [Node("real") EXCEPT !.int = Saturated(h), !.real = h]
Text(s)     == [Node("str") EXCEPT !.str = s]
Written     == {Number(2 * n) : n \in Ints} \cup {Number(h) : h \in Reals}
               \cup {Text(s) : s \in Strings}

JsonInit ==
    /\ items = [x \in Addrs |-> NoValue]
    /\ said = [x \in Addrs |-> [f \in Fields |-> NoValue]]

-----------------------------------------------------------------------------
(* _get_item_va_list.                                                      *)
Child(x, step) ==
    IF x = NULL THEN NULL
    ELSE IF items[x].type = "array"
    THEN IF step \in 0 .. Len(items[x].kids) - 1 THEN items[x].kids[step + 1].item ELSE NULL
    ELSE LET i == SelectInSeq(items[x].kids, LAMBDA kid : kid.key = step)
         IN  IF i # 0 THEN items[x].kids[i].item ELSE NULL

Item(root, path, type) ==
    LET x == FoldLeft(Child, root, path)
    IN  IF x # NULL /\ items[x].type = type THEN x ELSE NULL

GetItemInt(error_val, root, path) ==
    LET x == Item(root, path, "real") IN IF x # NULL THEN items[x].int ELSE error_val

GetItemReal(error_val, root, path) ==
    LET x == Item(root, path, "real") IN IF x # NULL THEN items[x].real ELSE error_val

GetItemStr(error_val, root, path) ==
    LET x == Item(root, path, "str") IN IF x # NULL THEN items[x].str ELSE error_val

-----------------------------------------------------------------------------
Spare == CHOOSE x \in Addrs \ Live : \A y \in Addrs \ Live : x <= y

(* History: `field' of o was given `node'; a second node of the same name  *)
(* is not the one that is found.                                           *)
Say(o, field, node) ==
    said' = IF said[o][field] # NoValue THEN said
            ELSE [said EXCEPT ![o][field] =
                     [node |-> node, cut |-> node.int # Saturated(node.real)]]

(* HyJsonCreate, HyJsonArrayNew, HyJsonFromInt, FromReal and FromStr.      *)
JsonNew(node) ==
    /\ Live # Addrs /\ items' = [items EXCEPT ![Spare] = node] /\ UNCHANGED said

(* HyJsonAddInt, AddReal and AddStr.                                       *)
JsonAdd(o, field, node) ==
    /\ items[o].type = "object" /\ Live # Addrs
    /\ items' = [items EXCEPT ![Spare] = node,
                              ![o].kids = Append(@, [key |-> field, item |-> Spare])]
    /\ Say(o, field, node)

(* The application hands a tree of its own to a node of another one.       *)
JsonAddObject(o, field, x) ==
    /\ items[o].type = "object" /\ o \notin Below(x)
    /\ items' = [items EXCEPT ![o].kids = Append(@, [key |-> field, item |-> x])]
    /\ Say(o, field, items[x])

JsonArrayAdd(o, x) ==
    /\ items[o].type = "array" /\ o \notin Below(x)
    /\ items' = [items EXCEPT ![o].kids = Append(@, [key |-> NoValue, item |-> x])]
    /\ UNCHANGED said

(* History: every field that reads node x was given `node'.                *)
SayAll(x, node, cut) ==
    said' = [o \in Addrs |-> [f \in Fields |->
                IF o \in Live /\ Child(o, f) = x THEN [node |-> node, cut |-> cut]
                ELSE said[o][f]]]

(* The setters.  Only the view that is set changes, but for an int.        *)
Sets(root, path, new, cut) ==
    LET x == Item(root, path, new.type)
    IN  /\ x # NULL /\ SayAll(x, new, cut)
        /\ items' = [items EXCEPT ![x].real = new.real, ![x].str = new.str,
                                  ![x].int = IF cut THEN @ ELSE new.int]

(* Mutation: the real view keeps the number that was there.                *)
SetItemInt_IntOnly(root, path, n) ==
    LET x == Item(root, path, "real")
    IN  /\ x # NULL /\ SayAll(x, Number(2 * n), FALSE)
        /\ items' = [items EXCEPT ![x].int = n]

SetItemInt(root, path, n)  == Sets(root, path, Number(2 * n), FALSE)
SetItemReal(root, path, h) == Sets(root, path, Number(h), TRUE)
SetItemStr(root, path, s)  == Sets(root, path, Text(s), FALSE)

(* A tree goes through its text: HyJsonDump, HyJsonDestroy, and then       *)
(* HyJsonCreateFromBuf or HyJsonCreateFromFile, which give a tree of the   *)
(* same shape, each number as its real view says.  (A file that cannot be  *)
(* read leaves no tree, as JsonDestroy does.)                              *)
JsonReload(root) ==
    LET read(n) == IF n.type = "real" THEN [n EXCEPT !.int = Saturated(n.real)] ELSE n
    IN  /\ items' = [x \in Addrs |-> IF x \in Below(root) THEN read(items[x]) ELSE items[x]]
        /\ said' = [x \in Addrs |-> [f \in Fields |->
                        IF x \in Below(root) /\ said[x][f] # NoValue
                        THEN [said[x][f] EXCEPT !.cut = FALSE] ELSE said[x][f]]]

JsonDestroy(root) ==
    /\ items' = [x \in Addrs |-> IF x \in Below(root) THEN NoValue ELSE items[x]]
    /\ said' = [x \in Addrs |-> IF x \in Below(root) THEN [f \in Fields |-> NoValue] ELSE said[x]]

(* Paths that lead somewhere; along any other a setter changes nothing.    *)
Steps(x) == IF items[x].type = "array" THEN 0 .. Len(items[x].kids) - 1
            ELSE {items[x].kids[i].key : i \in DOMAIN items[x].kids}
Paths(root) == {<<>>} \cup UNION {{<<s>>} \cup {<<s, t>> : t \in Steps(Child(root, s))}
                                 : s \in Steps(root)}

JsonNext ==
    \/ \E node \in Written \cup {Node("object"), Node("array")} : JsonNew(node)
    \/ \E o \in Live :
         \/ \E field \in Fields, node \in Written : JsonAdd(o, field, node)
         \/ \E x \in Roots : JsonArrayAdd(o, x) \/ \E field \in Fields : JsonAddObject(o, field, x)
    \/ \E root \in Roots : JsonReload(root) \/ JsonDestroy(root)
    \/ \E root \in Roots : \E path \in Paths(root) :
         \/ \E n \in Ints : SetItemInt(root, path, Saturated(2 * n))
         \/ \E h \in Reals : SetItemReal(root, path, h)
         \/ \E s \in Strings : SetItemStr(root, path, s)

-----------------------------------------------------------------------------
(* A field reads as the number or the text last written to it, along       *)
(* whichever path: the first node added under its name, however often it   *)
(* was added again, or what was set since; and no write to another field,  *)
(* no move of a tree into another changes that.  The integer view alone    *)
(* lags behind: HyJsonSetItemReal leaves it at the number before, until an *)
(* int is set or the tree is written out and read back.                    *)
ReadsLastWritten ==
    \A o \in Live : \A f \in Fields :
        said[o][f] # NoValue /\ said[o][f].node.type \in {"real", "str"} =>
            LET node == said[o][f].node
            IN  /\ node.type = "real" => GetItemReal(NoValue, o, <<f>>) = node.real
                /\ node.type = "real" /\ ~said[o][f].cut =>
                       GetItemInt(NoValue, o, <<f>>) = Saturated(node.real)
                /\ node.type = "str"  => GetItemStr(NoValue, o, <<f>>) = node.str
=============================================================================
