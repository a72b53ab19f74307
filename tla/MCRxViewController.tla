------------------------- MODULE MCRxViewController -------------------------
(***************************************************************************)
(* Small instances of RxViewController for TLC.  The schedulers are        *)
(* interchangeable: the application picks one at random.                   *)
(***************************************************************************)
EXTENDS RxViewController, TLC

SchedulerSymmetry == Permutations(Schedulers)

=============================================================================
