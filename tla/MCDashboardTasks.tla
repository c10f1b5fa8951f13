------------------------- MODULE MCDashboardTasks -------------------------
(* Small instances of DashboardTasks for TLC.                              *)
EXTENDS DashboardTasks

\* Two run directories of one variant, and one of another.
SmallDirs == {<<"live", 1>>, <<"live", 2>>, <<"pts", 1>>}

TwoDirs == {<<"live", 1>>, <<"live", 2>>}

OneDir == {<<"live", 1>>}
=============================================================================
