------------------------ MODULE MCCollectionNotifier ------------------------
(* The instance of CollectionNotifier that TLC checks. *)
EXTENDS CollectionNotifier
=============================================================================
