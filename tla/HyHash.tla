------------------------------- MODULE HyHash -------------------------------
(***************************************************************************)
(* The hash table, src/linux/hy_hash.c: buckets of items behind a mutex    *)
(* each.  HyHashAdd looks for the key in one critical section and, when it *)
(* is not there, puts a new item in front in another.                      *)
(*                                                                         *)
(* A key is known by its bucket and its 32-bit hash only; the keys used    *)
(* differ in one of the two.  A value is known by its length.              *)
(***************************************************************************)
EXTENDS Naturals, Sequences

CONSTANTS
    HashUsers, Keys,
    Values,         \* the lengths of the values added
    KeyBucket,      \* _key_2_index of each key, below bucket_cnt
    KeyHash,        \* _hash_get of each key
    bucket_cnt,
    Null            \* no value, or memory that could not be had

VARIABLES
    list,           \* the items of each bucket
    caller,         \* the Add each user is between the two sections of
    latest,         \* history: what was last added under a key, with the
                    \* length its item was made with; Nothing after Del
    raced,          \* history: the keys two such Adds were under way for
    freed           \* HyHashDestroy: how many buckets it emptied

hashVars == <<list, caller, latest, raced, freed>>

Buckets == 0 .. bucket_cnt - 1
Idle    == [key |-> Null, val |-> Null]
Nothing == [val |-> Null, val_len |-> 0]

HashInit ==
    /\ list = [b \in Buckets |-> <<>>]
    /\ caller = [u \in HashUsers |-> Idle]
    /\ latest = [k \in Keys |-> Nothing]
    /\ raced = {} /\ freed = 0

(* Mutation: the first item of the bucket will do, whatever its hash.      *)
Matches_Bucket(k) == DOMAIN list[KeyBucket[k]]

(* _list_item_find.                                                        *)
Matches(k) ==
    {i \in DOMAIN list[KeyBucket[k]] : list[KeyBucket[k]][i].key_hash = KeyHash[k]}
First(k) == CHOOSE i \in Matches(k) : \A j \in Matches(k) : i <= j

(* HyHashPeekGet: val_len bytes of val, whatever is there.                 *)
PeekGet(k) == IF Matches(k) = {} THEN Nothing ELSE list[KeyBucket[k]][First(k)].item

(* The first section of HyHashAdd.  A replacement leaves val_len as it is. *)
(* One that gets no memory has freed the value by then and reports success *)
(* all the same.                                                           *)
AddFind(u, k, v) ==
    /\ caller[u] = Idle /\ freed = 0
    /\ IF Matches(k) = {}
       THEN /\ caller' = [caller EXCEPT ![u] = [key |-> k, val |-> v]]
            /\ raced' = IF \E o \in HashUsers : caller[o].key = k THEN raced \cup {k} ELSE raced
            /\ UNCHANGED <<list, latest>>
       ELSE \E kept \in {v, Null} :
            /\ list' = [list EXCEPT ![KeyBucket[k]][First(k)].item.val = kept]
            /\ latest' = [latest EXCEPT ![k].val = kept]
            /\ UNCHANGED <<caller, raced>>
    /\ UNCHANGED freed

(* The second one, unless there is no memory for the item.                 *)
AddInsert(u) ==
    /\ caller[u] # Idle
    /\ LET k   == caller[u].key
           new == [val |-> caller[u].val, val_len |-> caller[u].val]
       IN  \/ /\ list' = [list EXCEPT ![KeyBucket[k]] =
                                <<[key_hash |-> KeyHash[k], item |-> new]>> \o @]
              /\ latest' = [latest EXCEPT ![k] = new]
           \/ UNCHANGED <<list, latest>>
    /\ caller' = [caller EXCEPT ![u] = Idle]
    /\ UNCHANGED <<raced, freed>>

(* A bucket with its i-th node taken out (hy_hlist_del).                   *)
Without(bucket, i) == SubSeq(bucket, 1, i - 1) \o SubSeq(bucket, i + 1, Len(bucket))

Del(u, k) ==
    /\ caller[u] = Idle /\ freed = 0 /\ Matches(k) # {}
    /\ list' = [list EXCEPT ![KeyBucket[k]] = Without(@, First(k))]
    /\ latest' = [latest EXCEPT ![k] = Nothing]
    /\ UNCHANGED <<caller, raced, freed>>

(* HyHashDestroy, called when nobody uses the table any more.              *)
HashDestroy ==
    /\ freed < bucket_cnt /\ \A u \in HashUsers : caller[u] = Idle
    /\ list' = [list EXCEPT ![freed] = <<>>] /\ freed' = freed + 1
    /\ UNCHANGED <<caller, latest, raced>>

HashNext ==
    \/ \E u \in HashUsers : AddInsert(u)
    \/ \E u \in HashUsers, k \in Keys, v \in Values : AddFind(u, k, v)
    \/ \E u \in HashUsers, k \in Keys : Del(u, k)
    \/ HashDestroy

-----------------------------------------------------------------------------
(* Unless two Adds of one key missed it together, a key has at most one    *)
(* item and a look-up finds the value last added under it, at the length   *)
(* of the first one added since a Del, whatever else its bucket holds and  *)
(* however other calls come between the two sections.  Two such Adds leave *)
(* a second item, which a Del uncovers.                                    *)
OneItemUnlessRaced ==
    freed = 0 =>
        \A k \in Keys \ raced :
            /\ \A i, j \in Matches(k) : i = j
            /\ PeekGet(k) = latest[k]
=============================================================================
