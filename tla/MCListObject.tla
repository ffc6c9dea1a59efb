---------------------------- MODULE MCListObject ----------------------------
(* A bounded instance of ListObject; it stops when every deletion is done.   *)
EXTENDS ListObject

\* Keys 1 and 2 share list 0, so a list may hold equal and different keys.
ThreePlaces == <<0, 0, 1>>
=============================================================================
