------------------------------ MODULE MCSealStore ------------------------------
(***************************************************************************)
(* Keys of the records that daemons seal in the runs of SealStore.         *)
(***************************************************************************)
EXTENDS SealStore

\* pairs of records that differ in one of the keys seal() sorts by
PidDiffers == {<<1, 1, 3>>, <<2, 1, 3>>}
StartDiffers == {<<1, 1, 3>>, <<1, 2, 3>>}
EndDiffers == {<<1, 1, 3>>, <<1, 1, 4>>}
OneDiffers == {PidDiffers, StartDiffers, EndDiffers}

\* records that agree in all of them
NoneDiffers == {{<<1, 1, 3>>}}
===============================================================================
