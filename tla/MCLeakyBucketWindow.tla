------------------------ MODULE MCLeakyBucketWindow ------------------------
(* Instance of LeakyBucketWindow: a clock that runs past the int range     *)
(* twice over, so that an interval is seen positive, negative and wrapped. *)
EXTENDS LeakyBucketWindow

MCStartTimes == {0}
MCStepSizes == {4}
=============================================================================
