------------------------------ MODULE MCTheme -------------------------------
(***************************************************************************)
(* An instance of Theme: two tabs, two clicks, in one tab that is still    *)
(* importing or one in each, and a color scheme that changes and changes   *)
(* back.                                                                   *)
(***************************************************************************)
EXTENDS Theme

CONSTANTS tab1, tab2

TwoTabs == {tab1, tab2}
=============================================================================
