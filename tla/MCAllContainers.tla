--------------------------- MODULE MCAllContainers ---------------------------
(***************************************************************************)
(* The components of MCContainers and the sorts, one in each behaviour.    *)
(***************************************************************************)
EXTENDS MCContainers

CONSTANTS SortKeys, MaxLen

VARIABLES array, sorted

Sort == INSTANCE HySort

(* Where another component runs, there is no array to sort.                *)
AllInit == Init /\ Sort!SortInit /\ (active # "sort" => array = <<>>)

AllNext ==
    \/ Next /\ UNCHANGED <<array, sorted>>
    \/ Runs("sort") /\ Sort!SortNext /\ UNCHANGED <<D, H, A, U, J, P>>

AllSpec == AllInit /\ [][AllNext]_<<active, D, H, A, U, J, P, array, sorted>>

-----------------------------------------------------------------------------
(* HySort: both sorts return every item once and in order, see there.      *)
SortsEveryItem == Sort!SortsEveryItem
=============================================================================
