---------------------------- MODULE MCNotionSync ----------------------------
(* Two workers, a page of two versions and two document ids.                 *)
EXTENDS NotionSync, TLC

\* Behaviours in which runs of one document overlap are not followed further,
\* nor those with two rows for the page and nobody left to delete one.
Repairable == /\ ~overlapped
              /\ ~(Duplicated /\ deleting = {} /\ mishaps = MaxMishaps)
=============================================================================
